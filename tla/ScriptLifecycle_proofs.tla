----------------------- MODULE ScriptLifecycle_proofs -----------------------
(***************************************************************************)
(* Proofs about ScriptLifecycle, for any number of scripts and threads,    *)
(* and stops nested to any depth.                                          *)
(*                                                                         *)
(* One invariant carries the first: what the window refers to exists       *)
(* (LiveInv), namely the threads in its rows and EXITED signals, and those *)
(* in its message boxes, which are in no row any more.  A table only gets  *)
(* thinner (Thinner), but for the pointer that a start sets.               *)
(***************************************************************************)
EXTENDS ScriptLifecycle, SequenceTheorems, TLAPS

RowType == [script : Scripts, thread : Threads \cup {NoThread}]
Depth == 1..Len(calls)

\* A row whose pointer is set refers to an existing thread of its own.
LiveTable(tab, ph) ==
    /\ \A r \in 1..Len(tab) : tab[r].thread # NoThread => ph[tab[r].thread] \in Existing
    /\ \A r, q \in 1..Len(tab) :
        tab[r].thread = tab[q].thread /\ tab[r].thread # NoThread => r = q

\* tab2 consists of rows of tab1, each once, some with their pointers cleared.
Thinner(tab1, tab2) ==
    \E m \in [1..Len(tab2) -> 1..Len(tab1)] :
        /\ \A i, j \in 1..Len(tab2) : m[i] = m[j] => i = j
        /\ \A i \in 1..Len(tab2) :
            /\ tab2[i].script = tab1[m[i]].script
            /\ tab2[i].thread \in {tab1[m[i]].thread, NoThread}

Holds(tab, t) == \E r \in 1..Len(tab) : tab[r].thread = t
-----------------------------------------------------------------------------
(***************************************************************************)
(* Tables.                                                                 *)
(***************************************************************************)
LEMMA ThinnerSame == ASSUME NEW tab \in Seq(RowType) PROVE Thinner(tab, tab)
  <1> DEFINE m == [i \in 1..Len(tab) |-> i]
  <1>1. m \in [1..Len(tab) -> 1..Len(tab)]
    OBVIOUS
  <1>2. \A i \in 1..Len(tab) : m[i] = i
    OBVIOUS
  <1> HIDE DEF m
  <1> QED
    BY <1>1, <1>2 DEF Thinner

LEMMA ThinnerEmpty == ASSUME NEW tab \in Seq(RowType) PROVE Thinner(tab, <<>>)
  <1>1. Len(<<>>) = 0
    BY EmptySeq
  <1> DEFINE m == [i \in {} |-> i]
  <1>2. m \in [1..Len(<<>>) -> 1..Len(tab)] /\ \A i \in 1..Len(<<>>) : FALSE
    BY <1>1
  <1> HIDE DEF m
  <1> QED
    BY <1>2 DEF Thinner

LEMMA ThinnerTwice ==
    ASSUME NEW tab1, NEW tab2, NEW tab3, Thinner(tab1, tab2), Thinner(tab2, tab3)
    PROVE  Thinner(tab1, tab3)
  <1>1. PICK m \in [1..Len(tab2) -> 1..Len(tab1)] :
            /\ \A i, j \in 1..Len(tab2) : m[i] = m[j] => i = j
            /\ \A i \in 1..Len(tab2) :
                /\ tab2[i].script = tab1[m[i]].script
                /\ tab2[i].thread \in {tab1[m[i]].thread, NoThread}
    BY DEF Thinner
  <1>2. PICK n \in [1..Len(tab3) -> 1..Len(tab2)] :
            /\ \A i, j \in 1..Len(tab3) : n[i] = n[j] => i = j
            /\ \A i \in 1..Len(tab3) :
                /\ tab3[i].script = tab2[n[i]].script
                /\ tab3[i].thread \in {tab2[n[i]].thread, NoThread}
    BY DEF Thinner
  <1> DEFINE k == [i \in 1..Len(tab3) |-> m[n[i]]]
  <1>3. k \in [1..Len(tab3) -> 1..Len(tab1)]
    BY <1>1, <1>2
  <1>4. \A i \in 1..Len(tab3) : k[i] = m[n[i]] /\ n[i] \in 1..Len(tab2)
    BY <1>2
  <1> HIDE DEF k
  <1>5. \A i, j \in 1..Len(tab3) : k[i] = k[j] => i = j
    BY <1>1, <1>2, <1>4
  <1>6. \A i \in 1..Len(tab3) :
            /\ tab3[i].script = tab1[k[i]].script
            /\ tab3[i].thread \in {tab1[k[i]].thread, NoThread}
    <2> SUFFICES ASSUME NEW i \in 1..Len(tab3)
                 PROVE  /\ tab3[i].script = tab1[k[i]].script
                        /\ tab3[i].thread \in {tab1[k[i]].thread, NoThread}
      OBVIOUS
    <2>1. /\ tab3[i].script = tab2[n[i]].script
          /\ tab3[i].thread \in {tab2[n[i]].thread, NoThread}
      BY <1>2
    <2>2. /\ tab2[n[i]].script = tab1[k[i]].script
          /\ tab2[n[i]].thread \in {tab1[k[i]].thread, NoThread}
      BY <1>1, <1>4
    <2> QED
      BY <2>1, <2>2
  <1> QED
    BY <1>3, <1>5, <1>6 DEF Thinner

\* The table can only refer to less threads, and they are still its own.
LEMMA ThinnerLive ==
    ASSUME NEW tab1, NEW tab2, NEW ph1, NEW ph2, Thinner(tab1, tab2), LiveTable(tab1, ph1),
           \A t : Holds(tab2, t) /\ t # NoThread /\ ph1[t] \in Existing => ph2[t] \in Existing
    PROVE  LiveTable(tab2, ph2)
  <1>1. PICK m \in [1..Len(tab2) -> 1..Len(tab1)] :
            /\ \A i, j \in 1..Len(tab2) : m[i] = m[j] => i = j
            /\ \A i \in 1..Len(tab2) :
                /\ tab2[i].script = tab1[m[i]].script
                /\ tab2[i].thread \in {tab1[m[i]].thread, NoThread}
    BY DEF Thinner
  <1>2. \A i \in 1..Len(tab2) :
            m[i] \in 1..Len(tab1) /\ (tab2[i].thread # NoThread => tab2[i].thread = tab1[m[i]].thread)
    BY <1>1
  <1>3. \A r \in 1..Len(tab2) : tab2[r].thread # NoThread => ph2[tab2[r].thread] \in Existing
    BY <1>2 DEF LiveTable, Holds
  <1>4. \A r, q \in 1..Len(tab2) :
            tab2[r].thread = tab2[q].thread /\ tab2[r].thread # NoThread => r = q
    BY <1>1, <1>2 DEF LiveTable
  <1> QED
    BY <1>3, <1>4 DEF LiveTable

LEMMA ThinnerHolds ==
    ASSUME NEW tab1, NEW tab2, Thinner(tab1, tab2), NEW t, t # NoThread, Holds(tab2, t)
    PROVE  Holds(tab1, t)
  BY DEF Thinner, Holds

LEMMA ClearProperties ==
    ASSUME NEW tab \in Seq(RowType), NEW r \in 1..Len(tab)
    PROVE  LET cleared == [tab EXCEPT ![r].thread = NoThread] IN
           /\ cleared \in Seq(RowType) /\ Len(cleared) = Len(tab)
           /\ Thinner(tab, cleared)
           /\ cleared[r].thread = NoThread /\ cleared[r].script = tab[r].script
           /\ \A i \in 1..Len(tab) : i # r => cleared[i] = tab[i]
  <1> DEFINE e == [tab[r] EXCEPT !.thread = NoThread]
             cleared == [tab EXCEPT ![r].thread = NoThread]
             m == [i \in 1..Len(tab) |-> i]
  <1>1. \A i \in 1..Len(tab) : tab[i] \in RowType
    BY ElementOfSeq
  <1>2. e \in RowType /\ e.thread = NoThread /\ e.script = tab[r].script
    BY <1>1 DEF RowType
  <1>3. cleared = [tab EXCEPT ![r] = e]
    OBVIOUS
  <1> HIDE DEF e, cleared
  <1>4. /\ cleared \in Seq(RowType) /\ Len(cleared) = Len(tab)
        /\ \A i \in 1..Len(tab) : cleared[i] = IF i = r THEN e ELSE tab[i]
    BY <1>2, <1>3, ExceptSeq
  <1>5. m \in [1..Len(cleared) -> 1..Len(tab)] /\ \A i \in 1..Len(tab) : m[i] = i
    BY <1>4
  <1> HIDE DEF m
  <1>6. \A i \in 1..Len(cleared) :
            /\ cleared[i].script = tab[m[i]].script
            /\ cleared[i].thread \in {tab[m[i]].thread, NoThread}
    BY <1>2, <1>4, <1>5
  <1>7. \A i, j \in 1..Len(cleared) : m[i] = m[j] => i = j
    BY <1>4, <1>5
  <1>8. Thinner(tab, cleared)
    BY <1>5, <1>6, <1>7 DEF Thinner
  <1> QED
    BY <1>2, <1>4, <1>8 DEF cleared

LEMMA WithoutRowProperties ==
    ASSUME NEW tab \in Seq(RowType), NEW r \in 1..Len(tab)
    PROVE  LET w == WithoutRow(tab, r) IN
           /\ w \in Seq(RowType) /\ Len(w) = Len(tab) - 1
           /\ Thinner(tab, w)
           /\ \A i \in 1..Len(tab) : i # r => \E j \in 1..Len(w) : w[j] = tab[i]
  <1> DEFINE n == Len(tab)
             w == WithoutRow(tab, r)
             m == [i \in 1..(n - 1) |-> IF i < r THEN i ELSE i + 1]
  <1>1. n \in Nat /\ \A i \in 1..n : tab[i] \in RowType
    BY ElementOfSeq, LenProperties
  <1>2. r \in 1..n
    OBVIOUS
  <1>3. w = [i \in 1..(n - 1) |-> tab[IF i < r THEN i ELSE i + 1]]
    BY DEF WithoutRow
  <1> HIDE DEF n, w
  <1>4. m \in [1..(n - 1) -> 1..n] /\ \A i, j \in 1..(n - 1) : m[i] = m[j] => i = j
    BY <1>1, <1>2
  <1>5. \A i \in 1..(n - 1) : w[i] = tab[m[i]]
    BY <1>3
  <1>6. \A i \in 1..n : i # r => \E j \in 1..(n - 1) : m[j] = i
    <2> SUFFICES ASSUME NEW i \in 1..n, i # r PROVE \E j \in 1..(n - 1) : m[j] = i
      OBVIOUS
    <2>1. CASE i < r
      <3>1. i \in 1..(n - 1) /\ m[i] = i
        BY <1>1, <1>2, <2>1
      <3> QED
        BY <3>1
    <2>2. CASE i > r
      <3>1. i - 1 \in 1..(n - 1) /\ m[i - 1] = i
        BY <1>1, <1>2, <2>2
      <3> QED
        BY <3>1
    <2> QED
      BY <1>1, <1>2, <2>1, <2>2
  <1>7. n - 1 \in Nat
    BY <1>1, <1>2
  <1> HIDE DEF m
  <1>8. w \in Seq(RowType) /\ Len(w) = n - 1
    <2>1. \A i \in 1..(n - 1) : w[i] \in RowType
      BY <1>1, <1>4, <1>5
    <2>2. w \in [1..(n - 1) -> RowType]
      BY <1>3, <2>1
    <2> QED
      BY <1>7, <2>2
  <1>9. Thinner(tab, w)
    BY <1>4, <1>5, <1>8 DEF Thinner, n
  <1>10. \A i \in 1..n : i # r => \E j \in 1..Len(w) : w[j] = tab[i]
    BY <1>5, <1>6, <1>8
  <1> QED
    BY <1>8, <1>9, <1>10 DEF n, w
-----------------------------------------------------------------------------
(***************************************************************************)
(* The calls that wait, and signals.                                       *)
(***************************************************************************)
LEMMA TopCall ==
    ASSUME calls \in Seq(Calls), Inside
    PROVE  /\ Len(calls) \in Nat \ {0} /\ Len(calls) \in Depth
           /\ Top = calls[Len(calls)] /\ Top \in Calls
  <1>1. Len(calls) \in Nat \ {0}
    BY EmptySeq, LenProperties DEF Inside
  <1>2. Len(calls) \in Depth
    BY <1>1 DEF Depth
  <1> QED
    BY <1>1, <1>2, ElementOfSeq DEF Top, Depth

LEMMA BelowCalls ==
    ASSUME calls \in Seq(Calls), Inside
    PROVE  /\ Below \in Seq(Calls) /\ Len(Below) = Len(calls) - 1
           /\ 1..Len(Below) = Depth \ {Len(calls)}
           /\ \A i \in 1..Len(Below) : Below[i] = calls[i]
  <1> DEFINE n == Len(calls)
  <1>1. n \in Nat \ {0}
    BY TopCall
  <1>2. \A i \in 1..n : calls[i] \in Calls
    BY ElementOfSeq
  <1>3. /\ Below \in Seq(Calls)
        /\ Len(Below) = IF 1 <= n - 1 THEN n - 1 - 1 + 1 ELSE 0
        /\ \A i \in 1..(n - 1 - 1 + 1) : Below[i] = calls[1 + i - 1]
    BY <1>1, <1>2, SubSeqProperties DEF Below
  <1> HIDE DEF n
  <1>4. Len(Below) = n - 1 /\ 1..(n - 1) = (1..n) \ {n}
    BY <1>1, <1>3
  <1>5. \A i \in 1..(n - 1) : Below[i] = calls[i]
    BY <1>1, <1>3
  <1> QED
    BY <1>3, <1>4, <1>5 DEF n, Depth

\* A frame that stopAllScripts adds: a script asked to exit, or the last wait.
NewFrame(f, tab, asked) ==
    /\ f.op \in {"unload", "close"} /\ f.at \in {"wait", "drain"}
    /\ f.at = "wait" =>
        /\ f.row \in 1..Len(tab) /\ f.thread = tab[f.row].thread
        /\ f.thread \in asked

\* The calls below are kept, further ones are new.
Keeps(below, after, tab, asked) ==
    /\ after \in Seq(Calls) /\ Len(below) <= Len(after)
    /\ \A i \in 1..Len(below) : after[i] = below[i]
    /\ \A i \in 1..Len(after) : i <= Len(below) \/ NewFrame(after[i], tab, asked)

LEMMA KeepsItself ==
    ASSUME NEW below \in Seq(Calls), NEW tab, NEW asked
    PROVE  Keeps(below, below, tab, asked)
  BY LenProperties DEF Keeps

LEMMA KeepsAndPushes ==
    ASSUME NEW below \in Seq(Calls), NEW tab, NEW asked, NEW f \in Calls,
           NewFrame(f, tab, asked)
    PROVE  Keeps(below, Append(below, f), tab, asked)
  <1> DEFINE n == Len(below)
             s == Append(below, f)
  <1>1. /\ n \in Nat /\ s \in Seq(Calls) /\ Len(s) = n + 1 /\ s[n + 1] = f
        /\ \A i \in 1..n : s[i] = below[i]
    BY AppendProperties, LenProperties
  <1> HIDE DEF n, s
  <1>2. \A i \in 1..Len(s) : i <= n \/ NewFrame(s[i], tab, asked)
    <2> SUFFICES ASSUME NEW i \in 1..Len(s), ~(i <= n) PROVE NewFrame(s[i], tab, asked)
      OBVIOUS
    <2>1. i = n + 1
      BY <1>1
    <2> QED
      BY <1>1, <2>1
  <1>3. Keeps(below, s, tab, asked)
    BY <1>1, <1>2 DEF Keeps, n
  <1> QED
    BY <1>3 DEF s

\* A stop that begins.
LEMMA StopType ==
    ASSUME NEW op \in Ops, NEW r \in Nat, NEW t \in Threads \cup {NoThread},
           NEW for \in Scripts \cup Threads \cup {NoThread}
    PROVE  /\ Stop(op, r, t, for) \in Calls
           /\ Stop(op, r, t, for).at = "wait" /\ Stop(op, r, t, for).op = op
           /\ Stop(op, r, t, for).row = r /\ Stop(op, r, t, for).thread = t
           /\ Stop(op, r, t, for).for = for
  BY DEF Stop, Calls

\* allScriptsHaveBeenStopped
LEMMA AllStoppedShape ==
    ASSUME NEW op \in {"unload", "close"}, NEW tab \in Seq(RowType), NEW below \in Seq(Calls),
           disturbed \in BOOLEAN, fault = "none", AllStopped(op, tab, below)
    PROVE  /\ Keeps(below, calls', table', shallExit') /\ shallExit' = shallExit
           /\ table' \in Seq(RowType) /\ Thinner(tab, table')
           /\ table' = tab \/ (~Occupied(tab) /\ calls' = below /\ (disturbed' \/ below = <<>>))
           /\ fault' \in {"none", "closed"}
           /\ disturbed' \in BOOLEAN /\ (disturbed => disturbed')
  <1>1. <<>> \in Seq(RowType)
    BY EmptySeq
  <1> QED
    BY <1>1, KeepsItself, ThinnerSame, ThinnerEmpty DEF AllStopped

\* stopAllScripts goes on: with the next script, the last wait, or what follows.
LEMMA FurtherShape ==
    ASSUME NEW op \in {"unload", "close"}, NEW r \in Nat, NEW tab \in Seq(RowType),
           NEW below \in Seq(Calls), shallExit \subseteq Threads, disturbed \in BOOLEAN,
           fault = "none", StopFurther(op, r, tab, below)
    PROVE  /\ Keeps(below, calls', table', shallExit')
           /\ shallExit' \subseteq Threads /\ shallExit \subseteq shallExit'
           /\ table' \in Seq(RowType) /\ Thinner(tab, table')
           /\ table' = tab \/ (~Occupied(tab) /\ calls' = below /\ (disturbed' \/ below = <<>>))
           /\ fault' \in {"none", "closed"}
           /\ disturbed' \in BOOLEAN /\ (disturbed => disturbed')
  <1> DEFINE drain == [Stop(op, 0, NoThread, NoThread) EXCEPT !.at = "drain"]
  <1>1. ASSUME NEW next \in Remaining(r, tab), table' = tab, AskToExit(tab[next].thread),
               calls' = Append(below, Stop(op, next, tab[next].thread, NoThread))
        PROVE  /\ Keeps(below, calls', table', shallExit')
               /\ shallExit' \subseteq Threads /\ shallExit \subseteq shallExit'
    <2>1. next \in 1..Len(tab) /\ next \in Nat /\ tab[next].thread # NoThread
      BY LenProperties DEF Remaining
    <2>2. tab[next].thread \in Threads
      <3>1. tab[next] \in RowType
        BY <2>1, ElementOfSeq
      <3> QED
        BY <2>1, <3>1 DEF RowType
    <2>3. shallExit' = shallExit \cup {tab[next].thread}
      BY <1>1 DEF AskToExit
    <2>4. op \in Ops
      BY DEF Ops
    <2> DEFINE f == Stop(op, next, tab[next].thread, NoThread)
    <2>5. /\ f \in Calls /\ f.at = "wait" /\ f.op = op /\ f.row = next
          /\ f.thread = tab[next].thread
      BY <2>1, <2>2, <2>4, StopType
    <2> HIDE DEF f
    <2>6. NewFrame(f, tab, shallExit')
      BY <2>1, <2>3, <2>5 DEF NewFrame
    <2>7. Keeps(below, Append(below, f), tab, shallExit')
      BY <2>5, <2>6, KeepsAndPushes
    <2> QED
      BY <1>1, <2>2, <2>3, <2>7 DEF f
  <1>2. drain \in Calls /\ NewFrame(drain, tab, shallExit')
    <2>1. op \in Ops /\ 0 \in Nat
      BY DEF Ops
    <2> QED
      BY <2>1 DEF Stop, Calls, NewFrame
  <1> HIDE DEF drain
  <1>3. Keeps(below, Append(below, drain), tab, shallExit')
    BY <1>2, KeepsAndPushes
  <1>4. CASE AllStopped(op, tab, below)
    BY <1>4, AllStoppedShape
  <1>5. CASE /\ \E next \in Remaining(r, tab) :
                  /\ \A i \in Remaining(r, tab) : next <= i
                  /\ calls' = Append(below, Stop(op, next, tab[next].thread, NoThread))
                  /\ AskToExit(tab[next].thread)
             /\ table' = tab /\ UNCHANGED <<fault, disturbed>>
    BY <1>1, <1>5, ThinnerSame
  <1>6. CASE /\ Remaining(r, tab) = {} /\ Occupied(tab)
             /\ calls' = Append(below, drain)
             /\ table' = tab
             /\ UNCHANGED <<shallExit, fault, disturbed>>
    BY <1>3, <1>6, ThinnerSame
  <1> QED
    BY <1>4, <1>5, <1>6 DEF StopFurther, drain

\* stopScriptThread has returned: what its callers do.
LEMMA ReturnShape ==
    ASSUME TypeOK, Inside, fault = "none", NEW ph \in [Threads -> Phases],
           NEW tab \in Seq(RowType), Len(tab) = Len(table), Return(ph, tab)
    PROVE  \/ /\ fault' \in {"noRow", "deadCaller"}
              /\ UNCHANGED <<table, phase, shallExit, calls, disturbed>>
           \/ /\ Keeps(Below, calls', table', shallExit')
              /\ phase' = ph \/ /\ Top.op = "order" /\ Top.for \in Threads
                                /\ ph[Top.for] = "calling"
                                /\ phase' = [ph EXCEPT ![Top.for] = "running"]
              /\ Top.op = "order" => phase' = [ph EXCEPT ![Top.for] = "running"]
              /\ shallExit' \subseteq Threads /\ shallExit \subseteq shallExit'
              /\ table' \in Seq(RowType) /\ Thinner(tab, table')
              /\ \/ table' = tab
                 \/ ~Occupied(tab) /\ calls' = Below /\ (disturbed' \/ Below = <<>>)
                 \/ /\ Top.op = "remove" /\ calls' = Below /\ (disturbed' \/ Below = <<>>)
                    /\ \E r \in Named(Top.for) : table' = WithoutRow(tab, r)
              /\ fault' \in {"none", "closed"}
              /\ disturbed' \in BOOLEAN /\ (disturbed => disturbed')
  <1>1. /\ shallExit \subseteq Threads /\ disturbed \in BOOLEAN /\ calls \in Seq(Calls)
        /\ Below \in Seq(Calls) /\ Top \in Calls /\ Top.row \in Nat
        /\ Len(Below) = Len(calls) - 1 /\ Len(calls) \in Nat
    BY BelowCalls, TopCall DEF TypeOK, Calls
  <1>2. Keeps(Below, Below, table', shallExit')
    BY <1>1, KeepsItself
  <1>3. CASE /\ Top.op = "button" /\ calls' = Below /\ phase' = ph /\ table' = tab
             /\ UNCHANGED <<shallExit, fault, disturbed>>
    BY <1>1, <1>2, <1>3, ThinnerSame
  <1>4. CASE /\ Top.op = "remove" /\ \E r \in Named(Top.for) : table' = WithoutRow(tab, r)
             /\ calls' = Below /\ phase' = ph
             /\ disturbed' = (disturbed \/ Len(calls) > 1)
             /\ UNCHANGED <<shallExit, fault>>
    <2>1. PICK r \in Named(Top.for) : table' = WithoutRow(tab, r)
      BY <1>4
    <2>2. r \in 1..Len(tab)
      BY DEF Named, Rows
    <2>3. table' \in Seq(RowType) /\ Thinner(tab, table')
      BY <2>1, <2>2, WithoutRowProperties
    <2>4. disturbed' \/ Below = <<>>
      <3>1. Len(calls) > 1 \/ Len(Below) = 0
        BY <1>1, TopCall
      <3> QED
        BY <1>1, <1>4, <3>1, EmptySeq
    <2> QED
      BY <1>1, <1>2, <1>4, <2>3, <2>4
  <1>5. CASE /\ Top.op = "order" /\ ph[Top.for] = "calling"
             /\ calls' = Below /\ table' = tab
             /\ phase' = Served(ph, Top.for)
             /\ UNCHANGED <<shallExit, fault, disturbed>>
    <2>1. phase' = [ph EXCEPT ![Top.for] = "running"]
      BY <1>5 DEF Served
    <2>2. Top.for \notin Threads => phase' = ph
      BY <2>1
    <2> QED
      BY <1>1, <1>2, <1>5, <2>1, <2>2, ThinnerSame
  <1>6. CASE /\ Top.op \in {"unload", "close"}
             /\ StopFurther(Top.op, Top.row, tab, Below)
             /\ phase' = ph
    BY <1>1, <1>6, FurtherShape
  <1>7. CASE Undefined("noRow") \/ Undefined("deadCaller")
    BY <1>7 DEF Undefined
  <1> QED
    BY <1>3, <1>4, <1>5, <1>6, <1>7 DEF Return
-----------------------------------------------------------------------------
(***************************************************************************)
(* Type correctness, and what the window refers to.                        *)
(***************************************************************************)
ExitedAt(i, t) == events[i].kind = "exited" /\ events[i].thread = t

\* A thread in a message box is in no row, and will not be started any more.
BoxInv ==
    \A i \in Depth :
        calls[i].at = "box" =>
            /\ calls[i].thread \in Threads /\ phase[calls[i].thread] # "new"
            /\ ~Holds(table, calls[i].thread)

LiveInv == LiveTable(table, phase) /\ ExitedOnce /\ BoxInv

TypeLive == TypeOK /\ LiveInv

LEMMA Typed ==
    ASSUME TypeOK
    PROVE  /\ table \in Seq(RowType) /\ calls \in Seq(Calls) /\ events \in Seq(Events)
           /\ phase \in [Threads -> Phases]
           /\ \A r \in Rows : table[r] \in RowType /\ table[r].script \in Scripts
           /\ \A r \in Rows : table[r].thread # NoThread => table[r].thread \in Threads
  <1>1. table \in Seq(RowType)
    BY DEF TypeOK, RowType
  <1>2. \A r \in Rows : table[r] \in RowType
    BY <1>1, ElementOfSeq DEF Rows
  <1> QED
    BY <1>1, <1>2 DEF TypeOK, RowType

\* EXITED stays unique when threads that left are not touched.
LEMMA ExitedKept ==
    ASSUME TypeOK, ExitedOnce, events' = events \/ (events # <<>> /\ events' = Tail(events)),
           \A i \in 1..Len(events) :
               events[i].kind = "exited" =>
                   phase'[events[i].thread] \in {phase[events[i].thread], "finished", "terminated"}
    PROVE  ExitedOnce'
  <1>1. CASE events' = events
    BY <1>1 DEF ExitedOnce
  <1>2. CASE events # <<>> /\ events' = Tail(events)
    <2> DEFINE n == Len(events)
    <2>1. /\ n \in Nat /\ Len(events') = n - 1
          /\ \A i \in 1..Len(events') : events'[i] = events[i + 1]
      BY <1>2, HeadTailProperties, LenProperties, Typed
    <2> HIDE DEF n
    <2>2. \A i \in 1..Len(events') : i + 1 \in 1..n
      BY <2>1
    <2>3. \A i, j \in 1..Len(events') : i + 1 = j + 1 => i = j
      BY <2>1
    <2> QED
      BY <2>1, <2>2, <2>3 DEF ExitedOnce, n
  <1> QED
    BY <1>1, <1>2

\* Boxes are those of before, and threads do not become new.
LEMMA BoxKept ==
    ASSUME TypeOK, BoxInv,
           \A i \in Depth' : calls'[i].at = "box" => i \in Depth /\ calls'[i] = calls[i],
           \A t \in Threads : phase[t] # "new" => phase'[t] # "new",
           \A t \in Threads : phase[t] # "new" /\ Holds(table', t) => Holds(table, t)
    PROVE  BoxInv'
  BY DEF BoxInv

\* Steps that leave the table, and threads of the table in existence.
LEMMA LiveKept ==
    ASSUME TypeLive, Thinner(table, table'),
           events' = events \/ (events # <<>> /\ events' = Tail(events)),
           \A t \in Threads : phase[t] # "new" => phase'[t] # "new",
           \A t : Holds(table', t) /\ t # NoThread /\ phase[t] \in Existing => phase'[t] \in Existing,
           \A i \in 1..Len(events) :
               events[i].kind = "exited" =>
                   phase'[events[i].thread] \in {phase[events[i].thread], "finished", "terminated"},
           \A i \in Depth' : calls'[i].at = "box" => i \in Depth /\ calls'[i] = calls[i]
    PROVE  LiveInv'
  <1> USE DEF TypeLive, LiveInv
  <1>1. LiveTable(table, phase)'
    <2>1. LiveTable(table', phase')
      BY ThinnerLive
    <2> QED
      BY <2>1 DEF LiveTable
  <1>2. ExitedOnce'
    BY ExitedKept
  <1>3. BoxInv'
    <2>1. \A t \in Threads : Holds(table', t) => Holds(table, t)
      BY ThinnerHolds, ScriptAssumption
    <2> QED
      BY <2>1, BoxKept
  <1> QED
    BY <1>1, <1>2, <1>3

LEMMA LiveInit == Init => TypeLive
  <1> SUFFICES ASSUME Init PROVE TypeLive
    OBVIOUS
  <1>0. /\ \A S : <<>> \in Seq(S)
        /\ Len(<<>>) = 0
    BY EmptySeq
  <1>1. PICK n \in 0..Cardinality(Scripts) :
            table \in [1..n -> [script : Scripts, thread : {NoThread}]]
    BY DEF Init
  <1>2. n \in Nat
    BY <1>1
  <1>3. table \in Seq(RowType) /\ \A r \in 1..Len(table) : table[r].thread = NoThread
    <2> DEFINE Empty == [script : Scripts, thread : {NoThread}]
    <2> HIDE DEF Empty
    <2>0. table \in [1..n -> Empty]
      BY <1>1 DEF Empty
    <2>1. table \in Seq(Empty)
      BY <1>2, <2>0
    <2> USE DEF Empty
    <2>2. /\ table \in [1..Len(table) -> [script : Scripts, thread : {NoThread}]]
          /\ Len(table) \in Nat
      BY <2>1, LenProperties
    <2>3. \A r \in 1..Len(table) : table[r] \in [script : Scripts, thread : {NoThread}]
      BY <2>2
    <2>4. table \in [1..Len(table) -> RowType]
      BY <2>2, <2>3 DEF RowType
    <2> QED
      BY <2>2, <2>3, <2>4
  <1>4. TypeOK
    <2>1. <<>> \in Seq(Events) /\ <<>> \in Seq(Calls)
      BY <1>0
    <2>2. phase \in [Threads -> Phases]
      BY DEF Init, Phases, Existing, Running
    <2>3. acts \in 0..MaxActs
      BY ScriptAssumption DEF Init
    <2> QED
      BY <1>3, <2>1, <2>2, <2>3 DEF Init, TypeOK, RowType
  <1>5. LiveTable(table, phase)
    BY <1>3 DEF LiveTable
  <1>6. ExitedOnce /\ BoxInv
    BY <1>0 DEF Init, ExitedOnce, BoxInv, Depth
  <1> QED
    BY <1>4, <1>5, <1>6 DEF TypeLive, LiveInv

\* A new thread gets a row that has none.
LEMMA SetPointerProperties ==
    ASSUME TypeOK, NEW r \in Rows, NEW t \in Threads, SetPointer(r, t)
    PROVE  /\ table' \in Seq(RowType) /\ Len(table') = Len(table)
           /\ table'[r].thread = t /\ table'[r].script = table[r].script
           /\ \A i \in Rows : i # r => table'[i] = table[i]
  <1> DEFINE e == [table[r] EXCEPT !.thread = t]
  <1>1. e \in RowType /\ e.thread = t /\ e.script = table[r].script
    BY Typed DEF RowType
  <1>2. table' = [table EXCEPT ![r] = e]
    BY DEF SetPointer
  <1> HIDE DEF e
  <1>3. /\ table' \in Seq(RowType) /\ Len(table') = Len(table)
        /\ \A i \in 1..Len(table) : table'[i] = IF i = r THEN e ELSE table[i]
    BY <1>1, <1>2, ExceptSeq, Typed DEF Rows
  <1> QED
    BY <1>1, <1>3 DEF Rows

\* startScriptThread, called by the user or for a script.
LEMMA StartKeeps ==
    ASSUME TypeLive, NEW r \in Rows, NEW ph \in [Threads -> Phases], NEW thenPause,
           StartScriptThread(r, ph, thenPause),
           \A t \in Threads : ph[t] # phase[t] => phase[t] = "calling" /\ ph[t] = "running",
           events' = events \/ (events # <<>> /\ events' = Tail(events)), calls' = calls
    PROVE  /\ LiveInv' /\ table' \in Seq(RowType) /\ phase' \in [Threads -> Phases]
           /\ shallPause' \subseteq Threads /\ disturbed' \in BOOLEAN
  <1> USE DEF TypeLive
  <1>1. Depth' = Depth /\ shallPause \subseteq Threads /\ disturbed \in BOOLEAN
    BY DEF Depth, TypeOK
  <1>2. \A i \in 1..Len(events) :
            events[i].kind = "exited" =>
                /\ events[i].thread \in Threads
                /\ phase[events[i].thread] \in {"leaving", "finished", "terminated"}
    <2>1. \A i \in 1..Len(events) : events[i] \in Events
      BY ElementOfSeq, Typed
    <2> QED
      BY <2>1 DEF LiveInv, ExitedOnce, Events, Orders
  <1>3. CASE /\ phase' = ph /\ UNCHANGED <<table, disturbed>>
             /\ shallPause' \in {shallPause, shallPause \ {table[r].thread}}
    <2>1. UNCHANGED <<table, disturbed>> /\ phase' = ph /\ shallPause' \subseteq Threads
      BY <1>1, <1>3
    <2>2. Thinner(table, table')
      BY <2>1, ThinnerSame, Typed
    <2>3. \A t : Holds(table', t) /\ t # NoThread /\ phase[t] \in Existing => phase'[t] \in Existing
      <3>1. \A t : Holds(table, t) /\ t # NoThread => t \in Threads
        BY Typed DEF Holds, Rows
      <3> QED
        BY <2>1, <3>1 DEF Existing, Running
    <2>4. LiveInv'
      BY <1>1, <1>2, <2>1, <2>2, <2>3, LiveKept
    <2> QED
      BY <1>1, <2>1, <2>4, Typed
  <1>4. ASSUME MayStart(r), NEW t \in Threads, phase[t] = "new",
               phase' = [ph EXCEPT ![t] = "running"], SetPointer(r, t),
               shallPause' = IF thenPause THEN shallPause \cup {t} ELSE shallPause,
               disturbed' = (disturbed \/ Inside)
        PROVE  /\ LiveInv' /\ table' \in Seq(RowType) /\ phase' \in [Threads -> Phases]
               /\ shallPause' \subseteq Threads /\ disturbed' \in BOOLEAN
    <2>1. phase' \in [Threads -> Phases] /\ phase'[t] = "running"
      BY <1>4 DEF Phases, Existing, Running
    <2>2. \A u \in Threads : u # t => phase'[u] = ph[u]
      BY <1>4
    <2>3. /\ table' \in Seq(RowType) /\ Len(table') = Len(table) /\ table'[r].thread = t
          /\ \A i \in Rows : i # r => table'[i] = table[i]
      BY <1>4, SetPointerProperties
    <2>4. \A i \in Rows : table[i].thread # t
      <3>1. t # NoThread /\ "new" \notin Existing
        BY ScriptAssumption DEF Existing, Running
      <3> QED
        BY <1>4, <3>1 DEF LiveInv, LiveTable, Rows
    <2>5. LiveTable(table, phase)'
      <3>1. \A i \in 1..Len(table') :
                table'[i].thread # NoThread => phase'[table'[i].thread] \in Existing
        <4> SUFFICES ASSUME NEW i \in Rows, table'[i].thread # NoThread
                     PROVE  phase'[table'[i].thread] \in Existing
          BY <2>3 DEF Rows
        <4>1. CASE i = r
          BY <2>1, <2>3, <4>1 DEF Existing, Running
        <4>2. CASE i # r
          <5>1. table[i].thread \in Threads \ {t} /\ phase[table[i].thread] \in Existing
            BY <2>3, <2>4, <4>2, Typed DEF LiveInv, LiveTable, Rows
          <5>2. ph[table[i].thread] \in Existing
            BY <5>1 DEF Existing, Running
          <5> QED
            BY <2>2, <2>3, <4>2, <5>1, <5>2
        <4> QED
          BY <4>1, <4>2
      <3>2. \A i, j \in 1..Len(table') :
                table'[i].thread = table'[j].thread /\ table'[i].thread # NoThread => i = j
        BY <2>3, <2>4 DEF LiveInv, LiveTable, Rows
      <3> QED
        BY <3>1, <3>2 DEF LiveTable
    <2>6. ExitedOnce'
      <3>1. \A i \in 1..Len(events) :
                events[i].kind = "exited" => phase'[events[i].thread] = phase[events[i].thread]
        BY <1>2, <1>4, <2>2
      <3> QED
        BY <3>1, ExitedKept DEF LiveInv
    <2>7. BoxInv'
      <3>1. \A u \in Threads : phase[u] # "new" => phase'[u] # "new"
        BY <1>4, <2>2
      <3>2. \A u \in Threads : phase[u] # "new" /\ Holds(table', u) => Holds(table, u)
        BY <1>4, <2>3 DEF Holds, Rows
      <3> QED
        BY <1>1, <3>1, <3>2, BoxKept DEF LiveInv
    <2> QED
      BY <1>1, <1>4, <2>1, <2>3, <2>5, <2>6, <2>7 DEF LiveInv
  <1> QED
    BY <1>3, <1>4 DEF StartScriptThread

\* The user's actions.
LEMMA PressType ==
    ASSUME TypeOK, Press
    PROVE  events' = events /\ acts' \in 0..MaxActs /\ fault = "none"
  BY ScriptAssumption DEF Press, TypeOK

LEMMA NothingHappens ==
    ASSUME TypeLive, UNCHANGED <<table, phase, events>>,
           \A i \in Depth' : calls'[i].at = "box" => i \in Depth /\ calls'[i] = calls[i]
    PROVE  LiveInv'
  <1>1. Thinner(table, table')
    BY ThinnerSame, Typed DEF TypeLive
  <1> QED
    BY <1>1, LiveKept

\* BeginStop
LEMMA BeginShape ==
    ASSUME TypeOK, NEW op \in Ops, NEW r \in Rows,
           NEW for \in Scripts \cup Threads \cup {NoThread}, BeginStop(op, r, for)
    PROVE  /\ calls' \in Seq(Calls) /\ Len(calls) \in Nat /\ Len(calls') = Len(calls) + 1
           /\ \A i \in Depth : calls'[i] = calls[i]
           /\ calls'[Len(calls) + 1] = Stop(op, r, table[r].thread, for)
           /\ table[r].thread \in Threads /\ shallExit' = shallExit \cup {table[r].thread}
  <1>1. table[r].thread \in Threads /\ shallExit' = shallExit \cup {table[r].thread}
    BY Typed DEF BeginStop, HasThread, AskToExit
  <1>2. r \in Nat
    BY Typed, LenProperties DEF Rows
  <1>3. Stop(op, r, table[r].thread, for) \in Calls
    BY <1>1, <1>2, StopType
  <1> QED
    BY <1>1, <1>3, Typed, AppendProperties, LenProperties DEF BeginStop, Depth

LEMMA BeginBoxes ==
    ASSUME TypeOK, NEW op \in Ops, NEW r \in Rows,
           NEW for \in Scripts \cup Threads \cup {NoThread}, BeginStop(op, r, for)
    PROVE  \A i \in Depth' : calls'[i].at = "box" => i \in Depth /\ calls'[i] = calls[i]
  <1>0. calls'[Len(calls) + 1] = Stop(op, r, table[r].thread, for)
    BY BeginShape
  <1>1. calls'[Len(calls) + 1].at = "wait"
    BY <1>0 DEF Stop
  <1> SUFFICES ASSUME NEW i \in Depth', calls'[i].at = "box" PROVE i \in Depth /\ calls'[i] = calls[i]
    OBVIOUS
  <1>2. i \in Depth
    BY <1>1, BeginShape DEF Depth
  <1> QED
    BY <1>2, BeginShape

LEMMA UserKeeps == TypeLive /\ User => TypeLive'
  <1> SUFFICES ASSUME TypeLive, User PROVE TypeLive'
    OBVIOUS
  <1> USE DEF TypeLive
  <1>0. TypeOK /\ table \in Seq(RowType) /\ shallExit \subseteq Threads /\ shallPause \subseteq Threads
    BY Typed DEF TypeOK
  <1>1. ASSUME NEW r \in Rows, PressStart(r) PROVE TypeLive'
    <2>1. StartScriptThread(r, phase, FALSE) /\ Press /\ calls' = calls
      BY <1>1 DEF PressStart
    <2>2. events' = events /\ acts' \in 0..MaxActs
      BY <2>1, PressType
    <2>3. /\ LiveInv' /\ table' \in Seq(RowType) /\ phase' \in [Threads -> Phases]
          /\ shallPause' \subseteq Threads /\ disturbed' \in BOOLEAN
      BY <2>1, <2>2, StartKeeps, Typed
    <2> QED
      BY <1>1, <2>2, <2>3 DEF PressStart, TypeOK, RowType
  <1>2. ASSUME NEW r \in Rows, PressPause(r) PROVE TypeLive'
    <2>1. events' = events /\ acts' \in 0..MaxActs /\ Depth' = Depth
      BY <1>2, PressType DEF PressPause, Depth
    <2>2. LiveInv'
      BY <1>2, <2>1, NothingHappens DEF PressPause
    <2>3. shallPause' \subseteq Threads
      BY <1>2, <1>0, Typed DEF PressPause, HasThread
    <2> QED
      BY <1>2, <2>1, <2>2, <2>3 DEF PressPause, TypeOK
  <1>3. ASSUME NEW r \in Rows, PressStop(r) PROVE TypeLive'
    <2>1. BeginStop("button", r, NoThread) /\ "button" \in Ops
      BY <1>3 DEF PressStop, Ops
    <2>2. events' = events /\ acts' \in 0..MaxActs
      BY <1>3, PressType DEF PressStop
    <2>3. LiveInv'
      BY <1>3, <2>1, <2>2, BeginBoxes, NothingHappens DEF PressStop
    <2>4. calls' \in Seq(Calls) /\ shallExit' \subseteq Threads
      BY <1>0, <2>1, BeginShape
    <2> QED
      BY <1>3, <2>2, <2>3, <2>4 DEF PressStop, TypeOK
  <1>4. ASSUME NEW r \in Rows, PressRemove(r) PROVE TypeLive'
    <2>1. events' = events /\ acts' \in 0..MaxActs /\ UNCHANGED <<phase, shallPause, fault>>
      BY <1>4, PressType DEF PressRemove
    <2>2. CASE BeginStop("remove", r, table[r].script) /\ UNCHANGED <<table, disturbed>>
      <3>1. "remove" \in Ops /\ table[r].script \in Scripts \cup Threads \cup {NoThread}
        BY Typed DEF Ops
      <3>2. LiveInv'
        BY <2>1, <2>2, <3>1, BeginBoxes, NothingHappens
      <3>3. calls' \in Seq(Calls) /\ shallExit' \subseteq Threads
        BY <1>0, <2>2, <3>1, BeginShape
      <3> QED
        BY <2>1, <2>2, <3>2, <3>3 DEF TypeOK
    <2>3. CASE /\ table' = WithoutRow(table, r) /\ disturbed' = (disturbed \/ Inside)
               /\ UNCHANGED <<calls, shallExit>>
      <3>1. table' \in Seq(RowType) /\ Thinner(table, table')
        BY <1>0, <2>3, WithoutRowProperties DEF Rows
      <3>2. Depth' = Depth
        BY <2>3 DEF Depth
      <3>3. LiveInv'
        BY <2>1, <2>3, <3>1, <3>2, LiveKept
      <3> QED
        BY <2>1, <2>3, <3>1, <3>3 DEF TypeOK, RowType
    <2> QED
      BY <1>4, <2>2, <2>3 DEF PressRemove
  <1>5. ASSUME NEW s \in Scripts, PressAdd(s) PROVE TypeLive'
    <2>1. /\ events' = events /\ acts' \in 0..MaxActs
          /\ UNCHANGED <<phase, shallExit, shallPause, calls, fault>>
          /\ disturbed' = (disturbed \/ Inside) /\ table' = <<Row(s, NoThread)>> \o table
      BY <1>5, PressType DEF PressAdd
    <2>2. Row(s, NoThread) \in RowType /\ Row(s, NoThread).thread = NoThread
      BY DEF Row, RowType
    <2> DEFINE one == <<Row(s, NoThread)>>
    <2>3. one \in Seq(RowType) /\ Len(one) = 1 /\ one[1].thread = NoThread
      BY <2>2
    <2> HIDE DEF one
    <2>4. Len(table) \in Nat
      BY <1>0, LenProperties
    <2>5. /\ table' \in Seq(RowType) /\ Len(table') = 1 + Len(table)
          /\ \A i \in 1..Len(table') : table'[i] = IF i <= 1 THEN one[i] ELSE table[i - 1]
      BY <1>0, <2>1, <2>3, ConcatProperties DEF one
    <2>6. table'[1].thread = NoThread /\ \A i \in 2..Len(table') : i - 1 \in Rows /\ table'[i] = table[i - 1]
      BY <2>3, <2>4, <2>5 DEF Rows
    <2>7. \A i \in 1..Len(table') : i = 1 \/ i \in 2..Len(table')
      BY <2>4, <2>5
    <2>8. LiveTable(table', phase)
      <3>1. \A i \in 1..Len(table') :
                table'[i].thread # NoThread => i \in 2..Len(table') /\ i - 1 \in 1..Len(table)
                                               /\ table'[i].thread = table[i - 1].thread
        BY <2>6, <2>7 DEF Rows
      <3>2. \A i \in 1..Len(table') :
                table'[i].thread # NoThread => phase[table'[i].thread] \in Existing
        BY <3>1 DEF LiveInv, LiveTable
      <3>3. \A i, j \in 1..Len(table') :
                table'[i].thread = table'[j].thread /\ table'[i].thread # NoThread => i = j
        <4> SUFFICES ASSUME NEW i \in 1..Len(table'), NEW j \in 1..Len(table'),
                            table'[i].thread = table'[j].thread, table'[i].thread # NoThread
                     PROVE  i = j
          OBVIOUS
        <4>1. i - 1 = j - 1
          BY <3>1 DEF LiveInv, LiveTable
        <4> QED
          BY <2>5, <2>4, <4>1
      <3> QED
        BY <3>2, <3>3 DEF LiveTable
    <2>9. \A t \in Threads : Holds(table', t) => Holds(table, t)
      BY <2>6, <2>7, ScriptAssumption DEF Holds, Rows
    <2>10. LiveInv'
      <3>1. ExitedOnce' /\ Depth' = Depth
        BY <2>1 DEF LiveInv, ExitedOnce, Depth
      <3>2. BoxInv'
        BY <2>1, <2>9, <3>1, BoxKept DEF LiveInv
      <3> QED
        BY <2>1, <2>8, <3>1, <3>2 DEF LiveInv, LiveTable
    <2> QED
      BY <2>1, <2>5, <2>10 DEF TypeOK, RowType
  <1>6. ASSUME NEW r \in Rows, PressMove(r) PROVE TypeLive'
    <2>1. /\ events' = events /\ acts' \in 0..MaxActs
          /\ UNCHANGED <<phase, shallExit, shallPause, calls, fault>>
          /\ disturbed' = (disturbed \/ Inside) /\ r + 1 \in Rows
          /\ table' = [table EXCEPT ![r] = table[r + 1], ![r + 1] = table[r]]
      BY <1>6, PressType DEF PressMove
    <2>2. /\ table' \in Seq(RowType) /\ Len(table') = Len(table) /\ Thinner(table, table')
      <3> DEFINE n == Len(table)
                 mid == [table EXCEPT ![r] = table[r + 1]]
                 m == [i \in 1..n |-> IF i = r THEN r + 1 ELSE IF i = r + 1 THEN r ELSE i]
      <3>1. n \in Nat /\ r \in 1..n /\ r + 1 \in 1..n /\ r # r + 1
        BY <1>0, <2>1, LenProperties DEF Rows
      <3>2. /\ mid \in Seq(RowType) /\ Len(mid) = n
            /\ \A i \in 1..n : mid[i] = IF i = r THEN table[r + 1] ELSE table[i]
        BY <1>0, <2>1, ExceptSeq, Typed DEF Rows
      <3>3. table' = [mid EXCEPT ![r + 1] = table[r]]
        BY <2>1
      <3> HIDE DEF mid
      <3>4. /\ table' \in Seq(RowType) /\ Len(table') = n
            /\ \A i \in 1..n : table'[i] = IF i = r + 1 THEN table[r] ELSE mid[i]
        BY <2>1, <3>1, <3>2, <3>3, ExceptSeq, Typed DEF Rows
      <3>5. m \in [1..n -> 1..n] /\ \A i, j \in 1..n : m[i] = m[j] => i = j
        BY <3>1
      <3>6. \A i \in 1..n : table'[i] = table[m[i]]
        BY <3>1, <3>2, <3>4
      <3> HIDE DEF m, n
      <3>7. Thinner(table, table')
        BY <3>4, <3>5, <3>6 DEF Thinner, n
      <3> QED
        BY <3>4, <3>7 DEF n
    <2>3. LiveInv'
      BY <2>1, <2>2, LiveKept DEF Depth
    <2> QED
      BY <2>1, <2>2, <2>3 DEF TypeOK, RowType
  <1>7. ASSUME NEW op \in {"unload", "close"}, PressStopAll(op) PROVE TypeLive'
    <2>1. /\ events' = events /\ acts' \in 0..MaxActs /\ fault = "none"
          /\ StopFurther(op, 0, table, calls) /\ UNCHANGED <<phase, shallPause>>
      BY <1>7, PressType DEF PressStopAll
    <2>2. /\ Keeps(calls, calls', table', shallExit')
          /\ shallExit' \subseteq Threads /\ table' \in Seq(RowType) /\ Thinner(table, table')
          /\ fault' \in {"none", "closed"} /\ disturbed' \in BOOLEAN
      <3>1. 0 \in Nat /\ disturbed \in BOOLEAN /\ calls \in Seq(Calls)
        BY DEF TypeOK
      <3> QED
        BY <1>0, <2>1, <3>1, FurtherShape
    <2>3. \A i \in Depth' : calls'[i].at = "box" => i \in Depth /\ calls'[i] = calls[i]
      BY <2>2, Typed, LenProperties DEF Keeps, NewFrame, Depth
    <2>4. LiveInv'
      BY <2>1, <2>2, <2>3, LiveKept
    <2> QED
      BY <2>1, <2>2, <2>4 DEF TypeOK, RowType, Keeps
  <1> QED
    BY <1>1, <1>2, <1>3, <1>4, <1>5, <1>6, <1>7 DEF User

\* Boxes are below, whatever the caller of a stop does.
LEMMA KeepsBoxes ==
    ASSUME TypeOK, Inside, Keeps(Below, calls', table', shallExit')
    PROVE  /\ \A i \in Depth' : calls'[i].at = "box" => i \in Depth /\ calls'[i] = calls[i]
           /\ calls' \in Seq(Calls)
  <1>1. 1..Len(Below) = Depth \ {Len(calls)} /\ \A i \in 1..Len(Below) : Below[i] = calls[i]
    BY BelowCalls, Typed
  <1>2. \A i \in Depth' : calls'[i].at = "box" => i \in 1..Len(Below)
    BY BelowCalls, Typed, LenProperties DEF Keeps, NewFrame, Depth
  <1> QED
    BY <1>1, <1>2 DEF Keeps

LEMMA ReturnKeeps ==
    ASSUME TypeLive, Inside, fault = "none", NEW ph \in [Threads -> Phases],
           NEW tab \in Seq(RowType), Len(tab) = Len(table), Thinner(table, tab),
           Return(ph, tab), events' = events,
           \A t \in Threads : ph[t] # phase[t] =>
               ph[t] = "terminated" /\ phase[t] \in Running /\ ~Holds(table, t)
    PROVE  /\ LiveInv' /\ table' \in Seq(RowType) /\ phase' \in [Threads -> Phases]
           /\ shallExit' \subseteq Threads /\ calls' \in Seq(Calls) /\ disturbed' \in BOOLEAN
           /\ fault' \in {"none", "closed", "noRow", "deadCaller"}
  <1> USE DEF TypeLive
  <1>1. CASE /\ fault' \in {"noRow", "deadCaller"}
             /\ UNCHANGED <<table, phase, shallExit, calls, disturbed>>
    <2>1. LiveInv'
      BY <1>1, NothingHappens DEF Depth
    <2> QED
      BY <1>1, <2>1, Typed DEF TypeOK, RowType
  <1>2. CASE ~(fault' \in {"noRow", "deadCaller"}
               /\ UNCHANGED <<table, phase, shallExit, calls, disturbed>>)
    <2>1. /\ Keeps(Below, calls', table', shallExit')
          /\ phase' = ph \/ /\ Top.op = "order" /\ Top.for \in Threads
                            /\ ph[Top.for] = "calling"
                            /\ phase' = [ph EXCEPT ![Top.for] = "running"]
          /\ shallExit' \subseteq Threads
          /\ table' \in Seq(RowType) /\ Thinner(tab, table')
          /\ fault' \in {"none", "closed"} /\ disturbed' \in BOOLEAN
      BY <1>2, ReturnShape
    <2>2. /\ \A i \in Depth' : calls'[i].at = "box" => i \in Depth /\ calls'[i] = calls[i]
          /\ calls' \in Seq(Calls)
      BY <2>1, KeepsBoxes
    <2>3. Thinner(table, table')
      BY <2>1, ThinnerTwice
    <2>4. phase' \in [Threads -> Phases]
      BY <2>1 DEF Phases, Existing, Running
    <2>5. \A t \in Threads :
              \/ phase'[t] = phase[t]
              \/ phase[t] = "calling" /\ phase'[t] = "running"
              \/ phase[t] \in Running /\ phase'[t] = "terminated" /\ ~Holds(table, t)
      BY <2>1
    <2>6. \A t : Holds(table', t) /\ t # NoThread =>
                    t \in Threads /\ phase'[t] \in {phase[t], "running"}
      <3>1. \A t : Holds(table', t) /\ t # NoThread => t \in Threads /\ Holds(table, t)
        <4>1. \A t : Holds(table', t) /\ t # NoThread => Holds(table, t)
          BY <2>3, ThinnerHolds
        <4> QED
          BY <4>1, Typed DEF Holds, Rows
      <3> QED
        BY <2>5, <3>1
    <2>7. \A i \in 1..Len(events) :
              events[i].kind = "exited" =>
                  phase'[events[i].thread] \in {phase[events[i].thread], "finished", "terminated"}
      <3>1. \A i \in 1..Len(events) : events[i] \in Events
        BY ElementOfSeq, Typed
      <3>2. \A i \in 1..Len(events) :
                events[i].kind = "exited" =>
                    events[i].thread \in Threads /\ phase[events[i].thread] # "calling"
        BY <3>1 DEF LiveInv, ExitedOnce, Events, Orders
      <3> QED
        BY <2>5, <3>2
    <2>8. /\ \A t \in Threads : phase[t] # "new" => phase'[t] # "new"
          /\ \A t : Holds(table', t) /\ t # NoThread /\ phase[t] \in Existing => phase'[t] \in Existing
      BY <2>5, <2>6 DEF Existing, Running
    <2>9. LiveInv'
      BY <2>2, <2>3, <2>7, <2>8, LiveKept
    <2> QED
      BY <2>1, <2>2, <2>4, <2>9
  <1> QED
    BY <1>1, <1>2

LEMMA WaitingKeeps == TypeLive /\ Waiting => TypeLive'
  <1> SUFFICES ASSUME TypeLive, Waiting PROVE TypeLive'
    OBVIOUS
  <1> USE DEF TypeLive
  <1>0. /\ table \in Seq(RowType) /\ calls \in Seq(Calls) /\ phase \in [Threads -> Phases]
        /\ shallExit \subseteq Threads /\ shallPause \subseteq Threads
    BY Typed DEF TypeOK
  <1>1. CASE RowIsGone
    <2>1. UNCHANGED <<table, phase, shallExit, shallPause, events, calls, disturbed, acts>> /\ fault' = "noRow"
      BY <1>1 DEF RowIsGone, Undefined
    <2>2. LiveInv'
      BY <2>1, NothingHappens DEF Depth
    <2> QED
      BY <2>1, <2>2 DEF TypeOK
  <1>2. CASE StopSeesEnd
    <2>1. /\ Inside /\ fault = "none" /\ Top.row \in 1..Len(table) /\ Return(phase, Clear)
          /\ UNCHANGED <<shallPause, events, acts>>
      BY <1>2 DEF StopSeesEnd, Waits, Rows
    <2>2. Clear \in Seq(RowType) /\ Len(Clear) = Len(table) /\ Thinner(table, Clear)
      BY <1>0, <2>1, ClearProperties DEF Clear
    <2>3. /\ LiveInv' /\ table' \in Seq(RowType) /\ phase' \in [Threads -> Phases]
          /\ shallExit' \subseteq Threads /\ calls' \in Seq(Calls) /\ disturbed' \in BOOLEAN
          /\ fault' \in {"none", "closed", "noRow", "deadCaller"}
      BY <1>0, <2>1, <2>2, ReturnKeeps
    <2> QED
      BY <2>1, <2>3 DEF TypeOK, RowType
  <1>3. CASE StopTimesOut
    <2> DEFINE t == table[Top.row].thread
               box == [Top EXCEPT !.at = "box", !.thread = t]
    <2>1. /\ Inside /\ Top.row \in Rows /\ StillRuns(Top.row)
          /\ calls' = Append(Below, box) /\ table' = Clear
          /\ UNCHANGED <<phase, shallExit, shallPause, events, acts, fault, disturbed>>
      BY <1>3 DEF StopTimesOut, Waits
    <2>2. t \in Threads /\ phase[t] \in Running /\ t # NoThread
      BY <2>1, ScriptAssumption DEF StillRuns
    <2>3. box \in Calls /\ box.at = "box" /\ box.thread = t
      BY <1>0, <2>1, <2>2, TopCall DEF Calls
    <2> HIDE DEF box
    <2>4. /\ calls' \in Seq(Calls) /\ Len(calls') = Len(calls) /\ calls'[Len(calls)] = box
          /\ \A i \in Depth \ {Len(calls)} : calls'[i] = calls[i]
      <3>1. /\ Below \in Seq(Calls) /\ Len(Below) = Len(calls) - 1 /\ Len(calls) \in Nat
            /\ 1..Len(Below) = Depth \ {Len(calls)}
            /\ \A i \in 1..Len(Below) : Below[i] = calls[i]
        BY <1>0, <2>1, BelowCalls, TopCall
      <3>2. /\ calls' \in Seq(Calls) /\ Len(calls') = Len(Below) + 1
            /\ calls'[Len(Below) + 1] = box
            /\ \A i \in 1..Len(Below) : calls'[i] = Below[i]
        BY <2>1, <2>3, <3>1, AppendProperties
      <3> QED
        BY <3>1, <3>2
    <2>5. /\ table' \in Seq(RowType) /\ Len(table') = Len(table) /\ Thinner(table, table')
          /\ table'[Top.row].thread = NoThread
          /\ \A i \in Rows : i # Top.row => table'[i] = table[i]
      <3>1. Top.row \in 1..Len(table)
        BY <2>1 DEF Rows
      <3>2. /\ Clear \in Seq(RowType) /\ Len(Clear) = Len(table) /\ Thinner(table, Clear)
            /\ Clear[Top.row].thread = NoThread
            /\ \A i \in 1..Len(table) : i # Top.row => Clear[i] = table[i]
        BY <1>0, <3>1, ClearProperties DEF Clear
      <3> QED
        BY <2>1, <3>2 DEF Rows
    <2>6. LiveTable(table, phase)'
      <3>1. LiveTable(table', phase')
        BY <2>1, <2>5, ThinnerLive DEF LiveInv
      <3> QED
        BY <3>1 DEF LiveTable
    <2>7. ~Holds(table', t)
      BY <2>1, <2>2, <2>5 DEF LiveInv, LiveTable, Holds, Rows
    <2>8. BoxInv'
      <3> SUFFICES ASSUME NEW i \in Depth', calls'[i].at = "box"
                   PROVE  /\ calls'[i].thread \in Threads /\ phase[calls'[i].thread] # "new"
                          /\ ~Holds(table', calls'[i].thread)
        BY <2>1 DEF BoxInv, Holds
      <3>1. CASE i = Len(calls)
        BY <2>2, <2>3, <2>4, <2>7, <3>1 DEF Running
      <3>2. CASE i # Len(calls)
        <4>1. i \in Depth /\ calls'[i] = calls[i]
          BY <2>4, <3>2 DEF Depth
        <4>2. calls[i].thread \in Threads /\ phase[calls[i].thread] # "new"
              /\ ~Holds(table, calls[i].thread) /\ calls[i].thread # NoThread
          BY <4>1, ScriptAssumption DEF LiveInv, BoxInv
        <4> QED
          BY <2>5, <4>1, <4>2, ThinnerHolds
      <3> QED
        BY <3>1, <3>2
    <2>9. ExitedOnce'
      BY <2>1 DEF LiveInv, ExitedOnce
    <2> QED
      BY <2>1, <2>4, <2>5, <2>6, <2>8, <2>9 DEF TypeOK, RowType, LiveInv
  <1>4. CASE BoxConfirmed
    <2>1. /\ Inside /\ fault = "none" /\ Top.at = "box"
          /\ UNCHANGED <<shallPause, events, acts>>
      BY <1>4 DEF BoxConfirmed, Waits
    <2>2. CASE Undefined("useAfterDelete")
      <3>1. UNCHANGED <<table, phase, shallExit, calls, disturbed>> /\ fault' = "useAfterDelete"
        BY <2>2 DEF Undefined
      <3>2. LiveInv'
        BY <2>1, <3>1, NothingHappens DEF Depth
      <3> QED
        BY <2>1, <3>1, <3>2 DEF TypeOK
    <2>3. CASE Return(Terminated(Top.thread), table)
      <3> DEFINE ph == Terminated(Top.thread)
      <3>1. Top.thread \in Threads /\ ~Holds(table, Top.thread)
        BY <1>0, <2>1, TopCall DEF LiveInv, BoxInv
      <3>2. ph \in [Threads -> Phases]
        BY <1>0, <3>1 DEF Terminated, Phases
      <3>3. \A t \in Threads : ph[t] # phase[t] =>
                ph[t] = "terminated" /\ phase[t] \in Running /\ ~Holds(table, t)
        BY <1>0, <3>1 DEF Terminated
      <3> HIDE DEF ph
      <3>4. /\ LiveInv' /\ table' \in Seq(RowType) /\ phase' \in [Threads -> Phases]
            /\ shallExit' \subseteq Threads /\ calls' \in Seq(Calls) /\ disturbed' \in BOOLEAN
            /\ fault' \in {"none", "closed", "noRow", "deadCaller"}
        <4>1. Return(ph, table)
          BY <2>3 DEF ph
        <4> QED
          BY <1>0, <2>1, <3>2, <3>3, <4>1, ReturnKeeps, ThinnerSame
      <3> QED
        BY <2>1, <3>4 DEF TypeOK, RowType
    <2> QED
      BY <1>4, <2>2, <2>3 DEF BoxConfirmed
  <1>5. CASE DrainEnds
    <2>1. /\ Inside /\ fault = "none" /\ AllStopped(Top.op, table, Below)
          /\ UNCHANGED <<phase, shallPause, events, acts>>
      BY <1>5 DEF DrainEnds, Waits
    <2>2. Below \in Seq(Calls)
      BY <1>0, <2>1, BelowCalls
    <2>3. /\ calls' = Below /\ shallExit' = shallExit /\ table' \in {<<>>, table}
          /\ fault' \in {"none", "closed"} /\ disturbed' \in BOOLEAN
      BY <2>1 DEF AllStopped, TypeOK
    <2>4. table' \in Seq(RowType) /\ Thinner(table, table')
      BY <1>0, <2>3, EmptySeq, ThinnerSame, ThinnerEmpty
    <2>5. \A i \in Depth' : calls'[i].at = "box" => i \in Depth /\ calls'[i] = calls[i]
      BY <1>0, <2>1, <2>3, BelowCalls DEF Depth
    <2>6. LiveInv'
      BY <2>1, <2>4, <2>5, LiveKept
    <2> QED
      BY <2>1, <2>2, <2>3, <2>4, <2>6 DEF TypeOK, RowType
  <1> QED
    BY <1>1, <1>2, <1>3, <1>4, <1>5 DEF Waiting

\* A running thread does something that the table does not tell.
LEMMA ThreadMoves ==
    ASSUME TypeLive, NEW t \in Threads, NEW q \in Running \cup {"finished"},
           phase[t] \in Running, phase[t] = "leaving" => q = "finished",
           phase' = [phase EXCEPT ![t] = q], table' = table,
           \A i \in Depth' : calls'[i].at = "box" => i \in Depth /\ calls'[i] = calls[i]
    PROVE  /\ phase' \in [Threads -> Phases] /\ LiveTable(table, phase)' /\ BoxInv'
           /\ events' = events \/ (events # <<>> /\ events' = Tail(events)) => LiveInv'
           /\ \A i \in 1..Len(events) :
                 events[i].kind = "exited" =>
                     /\ events[i].thread \in Threads
                     /\ phase'[events[i].thread] \in {phase[events[i].thread], "finished"}
  <1> USE DEF TypeLive
  <1>1. phase' \in [Threads -> Phases] /\ \A u \in Threads : phase'[u] = IF u = t THEN q ELSE phase[u]
    BY Typed DEF Phases, Existing
  <1>2. \A u : Holds(table', u) /\ u # NoThread /\ phase[u] \in Existing => phase'[u] \in Existing
    <2>1. \A u : Holds(table', u) /\ u # NoThread => u \in Threads
      BY Typed DEF Holds, Rows
    <2> QED
      BY <1>1, <2>1 DEF Existing
  <1>3. \A u \in Threads : phase[u] # "new" => phase'[u] # "new"
    BY <1>1 DEF Running
  <1>4. Thinner(table, table')
    BY Typed, ThinnerSame
  <1>5. LiveTable(table', phase')
    BY <1>2, <1>4, ThinnerLive DEF LiveInv
  <1>6. BoxInv'
    BY <1>3, BoxKept DEF LiveInv
  <1>7. \A i \in 1..Len(events) :
            events[i].kind = "exited" =>
                /\ events[i].thread \in Threads
                /\ phase'[events[i].thread] \in {phase[events[i].thread], "finished"}
    <2>1. \A i \in 1..Len(events) : events[i] \in Events
      BY ElementOfSeq, Typed
    <2>2. \A i \in 1..Len(events) :
              events[i].kind = "exited" =>
                  /\ events[i].thread \in Threads
                  /\ phase[events[i].thread] \in {"leaving", "finished", "terminated"}
      BY <2>1 DEF LiveInv, ExitedOnce, Events, Orders
    <2> QED
      BY <1>1, <2>2 DEF Running
  <1>8. events' = events \/ (events # <<>> /\ events' = Tail(events)) => LiveInv'
    BY <1>2, <1>3, <1>4, <1>7, LiveKept
  <1> QED
    BY <1>1, <1>5, <1>6, <1>7, <1>8 DEF LiveTable

LEMMA ScriptKeeps == ASSUME TypeLive, NEW t \in Threads, Script(t) PROVE TypeLive'
  <1> USE DEF TypeLive
  <1>0. /\ phase \in [Threads -> Phases] /\ events \in Seq(Events) /\ Len(events) \in Nat
        /\ shallExit \subseteq Threads /\ shallPause \subseteq Threads
    BY Typed, LenProperties DEF TypeOK
  <1> DEFINE Pushed(e) == Append(events, e)
  <1>1. ASSUME NEW e \in Events, events' = Append(events, e)
        PROVE  /\ events' \in Seq(Events) /\ Len(events') = Len(events) + 1
               /\ events'[Len(events) + 1] = e
               /\ \A i \in 1..Len(events) : events'[i] = events[i]
               /\ \A i \in 1..Len(events') : i \in 1..Len(events) \/ i = Len(events) + 1
    BY <1>0, <1>1, AppendProperties
  <1>2. CASE Leave(t)
    <2>1. /\ phase[t] = "running" /\ phase' = [phase EXCEPT ![t] = "leaving"]
          /\ UNCHANGED <<table, calls, fault, disturbed, shallPause, acts>>
          /\ events' = Append(events, Exited(t)) /\ shallExit' = shallExit \cup {t}
      BY <1>2 DEF Leave, Acts, AskToExit
    <2>2. Exited(t) \in Events
      BY DEF Exited, Events
    <2>3. /\ phase' \in [Threads -> Phases] /\ LiveTable(table, phase)' /\ BoxInv'
          /\ \A i \in 1..Len(events) :
                events[i].kind = "exited" =>
                     /\ events[i].thread \in Threads
                     /\ phase'[events[i].thread] \in {phase[events[i].thread], "finished"}
      BY <2>1, ThreadMoves DEF Depth, Running
    <2>4. ExitedOnce'
      <3>1. Exited(t).kind = "exited" /\ Exited(t).thread = t
        BY DEF Exited
      <3>2. \A i \in 1..Len(events) : events[i] # Exited(t)
        BY <2>1, <3>1 DEF LiveInv, ExitedOnce
      <3>3. phase'[t] = "leaving"
        BY <1>0, <2>1
      <3>4. \A i \in 1..Len(events') : events'[i].kind = "exited" =>
                phase'[events'[i].thread] \in {"leaving", "finished", "terminated"}
        BY <1>1, <2>1, <2>2, <2>3, <3>1, <3>3 DEF LiveInv, ExitedOnce
      <3>5. \A i, j \in 1..Len(events') :
                events'[i].kind = "exited" /\ events'[i] = events'[j] => i = j
        BY <1>1, <2>1, <2>2, <3>2 DEF LiveInv, ExitedOnce
      <3> QED
        BY <3>4, <3>5 DEF ExitedOnce
    <2> QED
      BY <1>0, <1>1, <2>1, <2>2, <2>3, <2>4 DEF TypeOK, LiveInv
  <1>3. ASSUME NEW state \in 0..2, NEW s \in Scripts, SetScriptState(t, state, s)
        PROVE  TypeLive'
    <2>1. /\ phase[t] = "running" /\ phase' = [phase EXCEPT ![t] = "calling"]
          /\ UNCHANGED <<table, calls, fault, disturbed, shallExit, shallPause>>
          /\ events' = Append(events, Order(t, state, s))
          /\ acts < MaxActs /\ acts' = acts + 1
      BY <1>3 DEF SetScriptState, Acts
    <2>2. Order(t, state, s) \in Events /\ Order(t, state, s).kind = "order"
      BY DEF Order, Orders, Events
    <2>3. /\ phase' \in [Threads -> Phases] /\ LiveTable(table, phase)' /\ BoxInv'
          /\ \A i \in 1..Len(events) :
                events[i].kind = "exited" =>
                     /\ events[i].thread \in Threads
                     /\ phase'[events[i].thread] \in {phase[events[i].thread], "finished"}
      BY <2>1, ThreadMoves DEF Depth, Running
    <2>4. ExitedOnce'
      <3>1. \A i \in 1..Len(events') : events'[i].kind = "exited" =>
                i \in 1..Len(events) /\ events'[i] = events[i]
        BY <1>1, <2>1, <2>2
      <3>2. \A i, j \in 1..Len(events') :
                events'[i].kind = "exited" /\ events'[i] = events'[j] => i = j
        BY <3>1 DEF LiveInv, ExitedOnce
      <3>3. \A i \in 1..Len(events') : events'[i].kind = "exited" =>
                phase'[events'[i].thread] \in {"leaving", "finished", "terminated"}
        BY <2>3, <3>1 DEF LiveInv, ExitedOnce
      <3> QED
        BY <3>2, <3>3 DEF ExitedOnce
    <2>5. acts' \in 0..MaxActs
      BY <2>1, ScriptAssumption DEF TypeOK
    <2> QED
      BY <1>1, <2>1, <2>2, <2>3, <2>4, <2>5 DEF TypeOK, LiveInv
  <1>4. CASE Finish(t) \/ Pause(t) \/ Resume(t)
    <2>1. /\ UNCHANGED <<table, calls, fault, disturbed, shallExit, shallPause, events, acts>>
          /\ \E q \in Running \cup {"finished"} :
                /\ phase[t] \in Running
                /\ phase[t] = "leaving" => q = "finished"
                /\ phase' = [phase EXCEPT ![t] = q]
      BY <1>4 DEF Finish, Pause, Resume, Acts, Running
    <2>2. phase' \in [Threads -> Phases] /\ LiveInv'
      BY <2>1, ThreadMoves DEF Depth
    <2> QED
      BY <2>1, <2>2 DEF TypeOK
  <1> QED
    BY <1>2, <1>3, <1>4 DEF Script

LEMMA NextEventType ==
    ASSUME TypeOK, NEW kind, NextEvent(kind)
    PROVE  /\ events # <<>> /\ events' = Tail(events) /\ events' \in Seq(Events)
           /\ Len(events) \in Nat \ {0} /\ Len(events') = Len(events) - 1
           /\ \A i \in 1..Len(events') : events'[i] = events[i + 1]
           /\ Head(events) \in Events /\ Head(events) = events[1]
           /\ Head(events).thread \in Threads /\ fault = "none" /\ acts' = acts
  <1>1. events # <<>> /\ events \in Seq(Events) /\ events' = Tail(events)
    BY DEF TypeOK, NextEvent
  <1>2. Head(events) \in Events /\ Head(events).thread \in Threads
    BY <1>1, HeadTailProperties DEF Events, Orders
  <1>3. Len(events) \in Nat \ {0} /\ Head(events) = events[1]
    BY <1>1, EmptySeq, LenProperties, HeadTailProperties
  <1> QED
    BY <1>1, <1>2, <1>3, HeadTailProperties DEF NextEvent

\* threadStateChangedSlot
LEMMA HandleExitedKeeps == TypeLive /\ HandleExited => TypeLive'
  <1> SUFFICES ASSUME TypeLive, HandleExited PROVE TypeLive'
    OBVIOUS
  <1> USE DEF TypeLive
  <1> DEFINE t == Head(events).thread
  <1>1. /\ events # <<>> /\ events' = Tail(events) /\ events' \in Seq(Events)
        /\ Len(events) \in Nat \ {0} /\ Len(events') = Len(events) - 1
        /\ \A i \in 1..Len(events') : events'[i] = events[i + 1]
        /\ Head(events) = events[1] /\ t \in Threads /\ acts' = acts
        /\ Head(events) \in Events
    BY NextEventType DEF HandleExited
  <1>2. Head(events).kind = "exited" /\ UNCHANGED <<shallExit, shallPause, calls, disturbed>>
    BY DEF HandleExited, NextEvent
  <1>3. CASE phase[t] = "leaving"
    <2>1. fault' = "deletedRunning" /\ UNCHANGED <<table, phase>>
      BY <1>3 DEF HandleExited
    <2>2. LiveInv'
      BY <1>1, <1>2, <2>1, LiveKept, ThinnerSame, Typed DEF Depth
    <2> QED
      BY <1>1, <1>2, <2>1, <2>2 DEF TypeOK
  <1>4. CASE phase[t] # "leaving"
    <2>1. ClearPointersTo(t) /\ phase' = [phase EXCEPT ![t] = "deleted"] /\ fault' = fault
      BY <1>4 DEF HandleExited
    <2>2. /\ phase' \in [Threads -> Phases] /\ phase'[t] = "deleted"
          /\ \A u \in Threads : u # t => phase'[u] = phase[u]
      BY <1>1, <2>1, Typed DEF Phases
    <2> DEFINE n == Len(table)
               m == [i \in 1..n |-> i]
    <2>3. /\ table' \in Seq(RowType) /\ Len(table') = n /\ n \in Nat
          /\ \A i \in 1..n : table'[i] = IF table[i].thread = t THEN Row(table[i].script, NoThread)
                                          ELSE table[i]
      <3>1. table' = [r \in 1..n |-> IF table[r].thread = t THEN Row(table[r].script, NoThread)
                                      ELSE table[r]]
        BY <2>1 DEF ClearPointersTo, Rows
      <3>2. n \in Nat
        BY Typed, LenProperties
      <3>3. \A r \in 1..n : Row(table[r].script, NoThread) \in RowType /\ table[r] \in RowType
        BY Typed DEF Rows, Row, RowType
      <3> HIDE DEF n
      <3>4. table' \in [1..n -> RowType]
        BY <3>1, <3>3
      <3> QED
        BY <3>1, <3>2, <3>4
    <2>4. Thinner(table, table')
      <3>1. m \in [1..n -> 1..n] /\ \A i \in 1..n : m[i] = i
        OBVIOUS
      <3> HIDE DEF m, n
      <3>2. \A i, j \in 1..n : m[i] = m[j] => i = j
        BY <3>1
      <3>3. \A i \in 1..n : /\ table'[i].script = table[m[i]].script
                            /\ table'[i].thread \in {table[m[i]].thread, NoThread}
        BY <2>3, <3>1 DEF Row
      <3> QED
        BY <2>3, <3>1, <3>2, <3>3 DEF Thinner, n
    <2>5. ~Holds(table', t)
      <3>1. \A i \in 1..n : table'[i].thread # t
        <4>1. t # NoThread
          BY <1>1, ScriptAssumption
        <4>2. \A s : Row(s, NoThread).thread = NoThread
          BY DEF Row
        <4> HIDE DEF n, t
        <4> SUFFICES ASSUME NEW i \in 1..n PROVE table'[i].thread # t
          OBVIOUS
        <4>3. CASE table[i].thread = t
          BY <2>3, <4>1, <4>2, <4>3
        <4>4. CASE table[i].thread # t
          BY <2>3, <4>4
        <4> QED
          BY <4>3, <4>4
      <3> QED
        BY <2>3, <3>1 DEF Holds
    <2>6. LiveTable(table, phase)'
      <3>1. \A u : Holds(table', u) /\ u # NoThread => u \in Threads
        <4>1. \A u : Holds(table', u) /\ u # NoThread => Holds(table, u)
          BY <2>4, ThinnerHolds
        <4> QED
          BY <4>1, Typed DEF Holds, Rows
      <3>2. LiveTable(table', phase')
        BY <2>2, <2>4, <2>5, <3>1, ThinnerLive DEF LiveInv
      <3> QED
        BY <3>2 DEF LiveTable
    <2>7. ExitedOnce'
      <3> DEFINE k == Len(events)
      <3>1. k \in Nat \ {0} /\ Len(events') = k - 1 /\ \A i \in 1..(k - 1) : events'[i] = events[i + 1]
        BY <1>1
      <3>2. \A i \in 1..k : events[i] \in Events
        BY ElementOfSeq, Typed
      <3> HIDE DEF k
      <3>3. \A i \in 1..(k - 1) : i + 1 \in 1..k /\ i + 1 # 1
        BY <3>1
      <3>4. \A i \in 2..k : events[i].kind = "exited" => events[i].thread \in Threads \ {t}
        <4> SUFFICES ASSUME NEW i \in 2..k, events[i].kind = "exited"
                     PROVE  events[i].thread \in Threads \ {t}
          OBVIOUS
        <4>1. i \in 1..k /\ 1 \in 1..k /\ i # 1
          BY <3>1
        <4>2. events[i] # events[1]
          BY <1>2, <4>1 DEF LiveInv, ExitedOnce, k
        <4>3. /\ events[i] \in [kind : {"exited"}, thread : Threads]
              /\ events[1] \in [kind : {"exited"}, thread : Threads]
          BY <1>1, <1>2, <3>2, <4>1 DEF Events, Orders
        <4> QED
          BY <1>1, <4>2, <4>3
      <3>5. \A i \in 1..(k - 1) : events'[i].kind = "exited" =>
                phase'[events'[i].thread] \in {"leaving", "finished", "terminated"}
        <4>1. \A i \in 1..(k - 1) : i + 1 \in 2..k
          BY <3>1
        <4> QED
          BY <2>2, <3>1, <3>3, <3>4, <4>1 DEF LiveInv, ExitedOnce, k
      <3>6. \A i, j \in 1..(k - 1) : events'[i].kind = "exited" /\ events'[i] = events'[j] => i = j
        <4>1. \A i, j \in 1..(k - 1) : i + 1 = j + 1 => i = j
          BY <3>1
        <4> QED
          BY <3>1, <3>3, <4>1 DEF LiveInv, ExitedOnce, k
      <3> QED
        BY <3>1, <3>5, <3>6 DEF ExitedOnce
    <2>8. BoxInv'
      <3>1. \A u \in Threads : Holds(table', u) => Holds(table, u)
        BY <2>4, ThinnerHolds, ScriptAssumption
      <3>2. \A u \in Threads : phase[u] # "new" => phase'[u] # "new"
        BY <2>2
      <3> QED
        BY <1>2, <3>1, <3>2, BoxKept DEF LiveInv, Depth
    <2> QED
      BY <1>1, <1>2, <2>1, <2>2, <2>3, <2>6, <2>7, <2>8 DEF TypeOK, RowType, LiveInv
  <1> QED
    BY <1>3, <1>4

LEMMA OrderType ==
    ASSUME TypeLive, ServeOrder
    PROVE  /\ Sender \in Threads /\ phase[Sender] = "calling"
           /\ Served(phase, Sender) \in [Threads -> Phases]
           /\ \A t \in Threads : Served(phase, Sender)[t] # phase[t] =>
                                    phase[t] = "calling" /\ Served(phase, Sender)[t] = "running"
           /\ events # <<>> /\ events' = Tail(events) /\ events' \in Seq(Events)
           /\ acts' = acts /\ fault = "none"
  <1>1. Sender \in Threads /\ phase[Sender] = "calling"
    BY NextEventType DEF TypeLive, ServeOrder, Sender
  <1>2. Served(phase, Sender) = [phase EXCEPT ![Sender] = "running"]
    BY DEF Served
  <1> QED
    BY <1>1, <1>2, NextEventType, Typed DEF TypeLive, ServeOrder, Phases, Existing, Running

LEMMA HandleKeeps == TypeLive /\ Handle => TypeLive'
  <1> SUFFICES ASSUME TypeLive, Handle PROVE TypeLive'
    OBVIOUS
  <1> USE DEF TypeLive
  <1>0. /\ phase \in [Threads -> Phases] /\ Thinner(table, table)
        /\ shallExit \subseteq Threads /\ shallPause \subseteq Threads
    BY Typed, ThinnerSame DEF TypeOK
  <1>1. ASSUME ServeOrder, phase' = Served(phase, Sender), table' = table, calls' = calls
        PROVE  LiveInv'
    <2>1. phase' = [phase EXCEPT ![Sender] = "running"]
      BY <1>1 DEF Served
    <2> QED
      BY <1>1, <2>1, OrderType, ThreadMoves DEF Depth, Running
  <1>2. CASE HandleExited
    BY <1>2, HandleExitedKeeps
  <1>3. CASE HandleNoRow
    <2>1. /\ ServeOrder /\ phase' = Served(phase, Sender)
          /\ UNCHANGED <<table, shallExit, shallPause, calls, fault, disturbed>>
      BY <1>3 DEF HandleNoRow
    <2>2. LiveInv'
      BY <1>1, <2>1
    <2> QED
      BY <2>1, <2>2, OrderType DEF TypeOK
  <1>4. CASE HandleStart
    <2>1. ServeOrder /\ UNCHANGED <<shallExit, calls, fault>>
      BY <1>4 DEF HandleStart
    <2>2. PICK r \in Rows :
              StartScriptThread(r, Served(phase, Sender), Head(events).state = 1)
      BY <1>4 DEF HandleStart, Addressed, Named
    <2>3. /\ Served(phase, Sender) \in [Threads -> Phases]
          /\ \A t \in Threads : Served(phase, Sender)[t] # phase[t] =>
                                   phase[t] = "calling" /\ Served(phase, Sender)[t] = "running"
          /\ events # <<>> /\ events' = Tail(events) /\ events' \in Seq(Events) /\ acts' = acts
      BY <2>1, OrderType
    <2>4. /\ LiveInv' /\ table' \in Seq(RowType) /\ phase' \in [Threads -> Phases]
          /\ shallPause' \subseteq Threads /\ disturbed' \in BOOLEAN
      BY <2>1, <2>2, <2>3, StartKeeps
    <2> QED
      BY <2>1, <2>3, <2>4 DEF TypeOK, RowType
  <1>5. CASE HandlePause
    <2>1. /\ ServeOrder /\ phase' = Served(phase, Sender)
          /\ UNCHANGED <<table, shallExit, calls, fault, disturbed>>
          /\ \E r \in Rows : HasThread(r) /\ shallPause' = shallPause \cup {table[r].thread}
      BY <1>5 DEF HandlePause, Addressed, Named
    <2>2. LiveInv'
      BY <1>1, <2>1
    <2>3. shallPause' \subseteq Threads
      BY <1>0, <2>1, Typed DEF HasThread
    <2> QED
      BY <2>1, <2>2, <2>3, OrderType DEF TypeOK
  <1>6. CASE HandleStop
    <2>1. ServeOrder /\ UNCHANGED <<table, shallPause, fault, disturbed>>
      BY <1>6 DEF HandleStop
    <2>2. /\ events # <<>> /\ events' = Tail(events) /\ events' \in Seq(Events)
          /\ acts' = acts /\ Sender \in Threads
      BY <2>1, OrderType
    <2>3. ASSUME NEW r \in Rows, BeginStop("order", r, Sender), UNCHANGED phase PROVE TypeLive'
      <3>1. "order" \in Ops /\ Sender \in Scripts \cup Threads \cup {NoThread}
        BY <2>2 DEF Ops
      <3>2. \A i \in Depth' : calls'[i].at = "box" => i \in Depth /\ calls'[i] = calls[i]
        BY <2>3, <3>1, BeginBoxes
      <3>3. LiveInv'
        BY <1>0, <2>1, <2>2, <2>3, <3>2, LiveKept
      <3>4. calls' \in Seq(Calls) /\ shallExit' \subseteq Threads
        BY <1>0, <2>3, <3>1, BeginShape
      <3> QED
        BY <2>1, <2>2, <2>3, <3>3, <3>4 DEF TypeOK
    <2>4. CASE phase' = Served(phase, Sender) /\ UNCHANGED <<shallExit, calls>>
      <3>1. LiveInv'
        BY <1>1, <2>1, <2>4
      <3> QED
        BY <2>1, <2>2, <2>4, <3>1, OrderType DEF TypeOK
    <2> QED
      BY <1>6, <2>3, <2>4 DEF HandleStop, Addressed, Named
  <1>7. CASE HandleOrderOfTerminated
    <2>1. /\ fault' = "deadCaller" /\ NextEvent("order")
          /\ UNCHANGED <<table, phase, shallExit, shallPause, calls, disturbed>>
      BY <1>7 DEF HandleOrderOfTerminated
    <2>2. events # <<>> /\ events' = Tail(events) /\ events' \in Seq(Events) /\ acts' = acts
      BY <2>1, NextEventType
    <2>3. LiveInv'
      BY <1>0, <2>1, <2>2, LiveKept DEF Depth
    <2> QED
      BY <2>1, <2>2, <2>3 DEF TypeOK
  <1> QED
    BY <1>2, <1>3, <1>4, <1>5, <1>6, <1>7 DEF Handle

LEMMA LiveStep == TypeLive /\ [Next]_vars => TypeLive'
  <1> SUFFICES ASSUME TypeLive, [Next]_vars PROVE TypeLive'
    OBVIOUS
  <1>1. CASE UNCHANGED vars
    <2>1. TypeOK'
      BY <1>1 DEF vars, TypeLive, TypeOK
    <2>2. LiveInv'
      BY <1>1, NothingHappens DEF vars, Depth
    <2> QED
      BY <2>1, <2>2 DEF TypeLive
  <1> QED
    BY <1>1, UserKeeps, WaitingKeeps, HandleKeeps, ScriptKeeps DEF Next, Over, Idle

LEMMA LiveAlways == SafeSpec => []TypeLive
  BY LiveInit, LiveStep, PTL DEF SafeSpec

(***************************************************************************)
(* Every state of the script window and its threads has the types of       *)
(* TypeOK.                                                                 *)
(***************************************************************************)
THEOREM TypeCorrect == SafeSpec => []TypeOK
  <1>1. TypeLive => TypeOK
    BY DEF TypeLive
  <1> QED
    BY <1>1, LiveAlways, PTL

(***************************************************************************)
(* The table and the queued EXITED signals refer to threads that exist,    *)
(* and no two of them to the same one in a way that would delete it twice. *)
(***************************************************************************)
THEOREM NeverDangling == SafeSpec => []NoDanglingThread
  <1>1. TypeLive => NoDanglingThread
    BY DEF TypeLive, LiveInv, LiveTable, TableIsLive, Rows, NoDanglingThread
  <1> QED
    BY <1>1, LiveAlways, PTL

(***************************************************************************)
(* Stops.                                                                  *)
(*                                                                         *)
(* A stop remembers the number of a row.  Until rows change, or a script   *)
(* is started, inside a stop (disturbed), the row still is the one it was, *)
(* and its pointer can only have been cleared (AskedInv).  That is why     *)
(* only scripts that were asked to exit are terminated, and why none is    *)
(* lost.  Further, no script is forgotten in a call of setScriptState.     *)
(***************************************************************************)

\* What a call of stopScriptThread relies on.
Remembered(f, tab, asked) ==
    /\ f.at \in {"wait", "box"} => f.thread \in asked /\ f.row \in 1..Len(tab)
    /\ f.at = "wait" => tab[f.row].thread \in {f.thread, NoThread}
    /\ f.at = "box" => tab[f.row].thread = NoThread
    /\ f.op = "remove" => f.at # "drain" /\ tab[f.row].script = f.for

NamesDiffer(tab) == \A i, j \in 1..Len(tab) : tab[i].script = tab[j].script => i = j

Active == {"running", "paused", "calling"}

Reachable(t) == Holds(table, t) \/ t \in shallExit \/ InBox(t)

AskedInv ==
    ~disturbed =>
        /\ \A i \in Depth : Remembered(calls[i], table, shallExit)
        /\ NamesDiffer(table)
        /\ \A t \in Threads : phase[t] = "terminated" => t \in shallExit
        /\ \A t \in Threads : phase[t] \in Active => Reachable(t)
-----------------------------------------------------------------------------
(***************************************************************************)
(* What keeps the invariant.                                               *)
(***************************************************************************)
\* tab2 is tab1, some of its pointers cleared.
Cleared(tab1, tab2) ==
    /\ Len(tab2) = Len(tab1)
    /\ \A i \in 1..Len(tab1) :
        tab2[i].script = tab1[i].script /\ tab2[i].thread \in {tab1[i].thread, NoThread}

LEMMA RememberedKept ==
    ASSUME NEW f, NEW tab1, NEW tab2, NEW asked1, NEW asked2,
           Cleared(tab1, tab2), asked1 \subseteq asked2,
           f.at \in {"wait", "box", "drain"}, Remembered(f, tab1, asked1)
    PROVE  Remembered(f, tab2, asked2)
  BY DEF Remembered, Cleared

\* A new wait of stopAllScripts
LEMMA NewRemembered ==
    ASSUME NEW f, NEW tab, NEW asked, NewFrame(f, tab, asked)
    PROVE  Remembered(f, tab, asked)
  BY DEF NewFrame, Remembered

LEMMA NamesThinner ==
    ASSUME NEW tab1, NEW tab2, Thinner(tab1, tab2), NamesDiffer(tab1)
    PROVE  NamesDiffer(tab2)
  BY DEF Thinner, NamesDiffer

LEMMA ClearedSame == ASSUME NEW tab PROVE Cleared(tab, tab)
  BY DEF Cleared

LEMMA NamesCleared ==
    ASSUME NEW tab1, NEW tab2, Cleared(tab1, tab2), NamesDiffer(tab1)
    PROVE  NamesDiffer(tab2)
  BY DEF Cleared, NamesDiffer

LEMMA CallTyped == ASSUME TypeOK PROVE \A i \in Depth : calls[i] \in Calls /\ calls[i].at \in {"wait", "box", "drain"}
  <1>1. \A i \in Depth : calls[i] \in Calls
    BY ElementOfSeq, Typed DEF Depth
  <1> QED
    BY <1>1 DEF Calls

\* Steps that at most clear pointers.
LEMMA AskedKept ==
    ASSUME TypeOK, AskedInv, ~disturbed' => ~disturbed,
           Cleared(table, table'), shallExit \subseteq shallExit',
           \A i \in Depth' : \/ i \in Depth /\ calls'[i] = calls[i]
                             \/ Remembered(calls'[i], table', shallExit'),
           \A t \in Threads : phase'[t] = "terminated" => phase[t] = "terminated" \/ t \in shallExit',
           \A t \in Threads : phase'[t] \in Active =>
               /\ phase[t] \in Active
               /\ Holds(table, t) => Holds(table', t) \/ InBox(t)'
               /\ InBox(t) => InBox(t)'
    PROVE  AskedInv'
  <1> SUFFICES ASSUME ~disturbed'
               PROVE  /\ \A i \in Depth' : Remembered(calls'[i], table', shallExit')
                      /\ NamesDiffer(table')
                      /\ \A t \in Threads : phase'[t] = "terminated" => t \in shallExit'
                      /\ \A t \in Threads : phase'[t] \in Active => Reachable(t)'
    BY DEF AskedInv, NamesDiffer
  <1>1. /\ \A i \in Depth : Remembered(calls[i], table, shallExit)
        /\ NamesDiffer(table)
        /\ \A t \in Threads : phase[t] = "terminated" => t \in shallExit
        /\ \A t \in Threads : phase[t] \in Active => Reachable(t)
    BY DEF AskedInv
  <1>2. \A i \in Depth' : Remembered(calls'[i], table', shallExit')
    <2>1. \A i \in Depth : Remembered(calls[i], table', shallExit')
      BY <1>1, CallTyped, RememberedKept
    <2> QED
      BY <2>1
  <1>3. NamesDiffer(table')
    BY <1>1, NamesCleared
  <1>4. \A t \in Threads : phase'[t] \in Active => Reachable(t)'
    BY <1>1 DEF Reachable, Holds
  <1> QED
    BY <1>1, <1>2, <1>3, <1>4

\* Steps that change rows outside of any call.
LEMMA AskedOutside ==
    ASSUME AskedInv, ~disturbed' => ~disturbed, ~disturbed' => Depth' = {},
           ~disturbed => NamesDiffer(table'), shallExit \subseteq shallExit',
           \A t \in Threads : phase'[t] = "terminated" => phase[t] = "terminated" \/ t \in shallExit',
           ~disturbed' =>
             \A t \in Threads : phase'[t] \in Active =>
               \/ Holds(table', t)
               \/ /\ phase[t] \in Active
                  /\ ~Holds(table, t) /\ ~InBox(t)
    PROVE  AskedInv'
  <1> SUFFICES ASSUME ~disturbed'
               PROVE  /\ \A i \in Depth' : Remembered(calls'[i], table', shallExit')
                      /\ NamesDiffer(table')
                      /\ \A t \in Threads : phase'[t] = "terminated" => t \in shallExit'
                      /\ \A t \in Threads : phase'[t] \in Active => Reachable(t)'
    BY DEF AskedInv, NamesDiffer
  <1>1. \A t \in Threads : phase'[t] \in Active => Reachable(t)'
    BY DEF AskedInv, Reachable, Holds
  <1> QED
    BY <1>1 DEF AskedInv

LEMMA AskedInit == Init => AskedInv
  <1> SUFFICES ASSUME Init PROVE AskedInv
    OBVIOUS
  <1>1. Depth = {}
    BY EmptySeq DEF Init, Depth
  <1> QED
    BY <1>1 DEF Init, AskedInv, NamesDiffer, Rows, Active
LEMMA Outside == ~Inside => Depth = {} /\ \A t : ~InBox(t)
  BY EmptySeq DEF Inside, Depth, InBox

\* Threads only move among the states in which they can be stopped, or end.
LEMMA AskedPhases ==
    ASSUME TypeOK, AskedInv, UNCHANGED <<calls, table, disturbed>>, shallExit \subseteq shallExit',
           \A t \in Threads : phase'[t] = "terminated" => phase[t] = "terminated",
           \A t \in Threads : phase'[t] \in Active => phase[t] \in Active
    PROVE  AskedInv'
  <1>1. Depth' = Depth /\ \A t : InBox(t)' = InBox(t)
    BY DEF Depth, InBox
  <1>2. Cleared(table, table')
    BY ClearedSame
  <1> QED
    BY <1>1, <1>2, AskedKept

LEMMA StartAsked ==
    ASSUME TypeLive, AskedInv, NEW r \in Rows, NEW ph \in [Threads -> Phases], NEW thenPause,
           StartScriptThread(r, ph, thenPause),
           \A t \in Threads : ph[t] # phase[t] => phase[t] = "calling" /\ ph[t] = "running",
           UNCHANGED <<calls, shallExit>>
    PROVE  AskedInv'
  <1> USE DEF TypeLive
  <1>1. CASE phase' = ph /\ UNCHANGED <<table, disturbed>>
    BY <1>1, AskedPhases DEF Active
  <1>2. ASSUME NEW t \in Threads, MayStart(r), phase' = [ph EXCEPT ![t] = "running"],
               SetPointer(r, t), disturbed' = (disturbed \/ Inside)
        PROVE  AskedInv'
    <2>1. /\ Len(table') = Len(table) /\ table'[r].thread = t
          /\ table'[r].script = table[r].script
          /\ \A i \in Rows : i # r => table'[i] = table[i]
      BY <1>2, SetPointerProperties
    <2>2. ~disturbed' => ~disturbed /\ Depth' = {} /\ \A u : ~InBox(u)
      BY <1>2, Outside DEF Depth
    <2>3. NamesDiffer(table) => NamesDiffer(table')
      BY <2>1 DEF NamesDiffer, Rows
    <2>4. Holds(table', t)
      BY <2>1 DEF Holds, Rows
    <2>5. \A u \in Threads : Holds(table, u) => Holds(table', u)
      <3>1. table[r].thread = NoThread
        BY <1>2 DEF MayStart
      <3> QED
        BY <2>1, <3>1, ScriptAssumption DEF Holds, Rows
    <2>6. \A u \in Threads : u # t => phase'[u] = ph[u]
      BY <1>2
    <2>7. \A u \in Threads : u # t /\ phase'[u] \in Active => phase[u] \in Active
      BY <2>6 DEF Active
    <2>8. \A u \in Threads : phase'[u] = "terminated" => phase[u] = "terminated"
      <3>1. phase'[t] = "running"
        BY <1>2
      <3> QED
        BY <2>6, <3>1
    <2> QED
      BY <2>2, <2>3, <2>4, <2>5, <2>7, <2>8, AskedOutside DEF AskedInv
  <1> QED
    BY <1>1, <1>2 DEF StartScriptThread

\* A stop begins: the row is the one whose script was asked.
LEMMA BeginAsked ==
    ASSUME TypeOK, AskedInv, NEW op \in Ops, NEW r \in Rows,
           NEW for \in Scripts \cup Threads \cup {NoThread}, BeginStop(op, r, for),
           op = "remove" => for = table[r].script,
           UNCHANGED <<table, phase, disturbed>>
    PROVE  AskedInv'
  <1> DEFINE f == Stop(op, r, table[r].thread, for)
  <1>1. /\ Len(calls) \in Nat /\ Len(calls') = Len(calls) + 1
        /\ \A i \in Depth : calls'[i] = calls[i]
        /\ calls'[Len(calls) + 1] = f
        /\ table[r].thread \in Threads /\ shallExit' = shallExit \cup {table[r].thread}
    BY BeginShape
  <1>2. Remembered(f, table', shallExit')
    <2>1. /\ f.op = op /\ f.at = "wait" /\ f.row = r
          /\ f.thread = table[r].thread /\ f.for = for
      BY DEF Stop
    <2> HIDE DEF f
    <2> QED
      BY <1>1, <2>1 DEF Remembered, Rows
  <1> HIDE DEF f
  <1>3. \A i \in Depth' : i \in Depth \/ i = Len(calls) + 1
    BY <1>1 DEF Depth
  <1>4. \A t : InBox(t) => InBox(t)'
    BY <1>1 DEF InBox, Depth
  <1>5. Cleared(table, table')
    BY ClearedSame
  <1> QED
    BY <1>1, <1>2, <1>3, <1>4, <1>5, AskedKept
\* stopAllScripts goes on, from the calls below that stay as they are.
LEMMA FurtherAsked ==
    ASSUME TypeOK, AskedInv, NEW below \in Seq(Calls), Keeps(below, calls', table', shallExit'),
           \A i \in 1..Len(below) : i \in Depth /\ below[i] = calls[i]
    PROVE  \A i \in Depth' : \/ i \in Depth /\ calls'[i] = calls[i]
                             \/ Remembered(calls'[i], table', shallExit')
  <1> SUFFICES ASSUME NEW i \in Depth'
               PROVE  \/ i \in Depth /\ calls'[i] = calls[i]
                      \/ Remembered(calls'[i], table', shallExit')
    OBVIOUS
  <1>1. i \in 1..Len(below) \/ NewFrame(calls'[i], table', shallExit')
    BY LenProperties DEF Keeps, Depth
  <1> QED
    BY <1>1, NewRemembered DEF Keeps

LEMMA MoveShape ==
    ASSUME TypeOK, NEW r \in Rows, r + 1 \in Rows,
           table' = [table EXCEPT ![r] = table[r + 1], ![r + 1] = table[r]]
    PROVE  /\ \A t : Holds(table, t) => Holds(table', t)
           /\ NamesDiffer(table) => NamesDiffer(table')
  <1> DEFINE n == Len(table)
             mid == [table EXCEPT ![r] = table[r + 1]]
             m == [i \in 1..n |-> IF i = r THEN r + 1 ELSE IF i = r + 1 THEN r ELSE i]
  <1>1. n \in Nat /\ r \in 1..n /\ r + 1 \in 1..n /\ r # r + 1
    BY Typed, LenProperties DEF Rows
  <1>2. /\ mid \in Seq(RowType) /\ Len(mid) = n
        /\ \A i \in 1..n : mid[i] = IF i = r THEN table[r + 1] ELSE table[i]
    BY ExceptSeq, Typed DEF Rows
  <1>3. table' = [mid EXCEPT ![r + 1] = table[r]]
    OBVIOUS
  <1> HIDE DEF mid
  <1>4. /\ Len(table') = n
        /\ \A i \in 1..n : table'[i] = IF i = r + 1 THEN table[r] ELSE mid[i]
    BY <1>1, <1>2, <1>3, ExceptSeq, Typed DEF Rows
  <1>5. m \in [1..n -> 1..n] /\ \A i, j \in 1..n : m[i] = m[j] => i = j
    BY <1>1
  <1>6. \A i \in 1..n : m[m[i]] = i
    BY <1>1
  <1>7. \A i \in 1..n : table'[i] = table[m[i]]
    BY <1>1, <1>2, <1>4
  <1> HIDE DEF m
  <1>8. \A i \in 1..n : m[i] \in 1..n /\ table'[m[i]] = table[i]
    BY <1>5, <1>6, <1>7
  <1> HIDE DEF n
  <1>9. \A i \in 1..n : m[i] \in 1..n
    BY <1>5
  <1>10. \A t : Holds(table, t) => Holds(table', t)
    BY <1>4, <1>8 DEF Holds, n
  <1>11. NamesDiffer(table) => NamesDiffer(table')
    BY <1>4, <1>5, <1>7, <1>9 DEF NamesDiffer, n
  <1> QED
    BY <1>10, <1>11

LEMMA UserAsked == TypeLive /\ AskedInv /\ User => AskedInv'
  <1> SUFFICES ASSUME TypeLive, AskedInv, User PROVE AskedInv'
    OBVIOUS
  <1> USE DEF TypeLive
  <1>0. TypeOK /\ table \in Seq(RowType) /\ calls \in Seq(Calls) /\ disturbed \in BOOLEAN
    BY Typed DEF TypeOK
  <1>1. ASSUME NEW r \in Rows, PressStart(r) PROVE AskedInv'
    BY <1>1, StartAsked, Typed DEF PressStart
  <1>2. ASSUME NEW r \in Rows, PressPause(r) PROVE AskedInv'
    BY <1>2, AskedPhases DEF PressPause
  <1>3. ASSUME NEW r \in Rows, PressStop(r) PROVE AskedInv'
    BY <1>3, BeginAsked DEF PressStop, Ops
  <1>4. ASSUME NEW r \in Rows, PressRemove(r) PROVE AskedInv'
    <2>1. CASE BeginStop("remove", r, table[r].script) /\ UNCHANGED <<table, disturbed>>
      <3>1. "remove" \in Ops /\ table[r].script \in Scripts \cup Threads \cup {NoThread}
        BY Typed DEF Ops
      <3> QED
        BY <1>4, <2>1, <3>1, BeginAsked DEF PressRemove
    <2>2. CASE /\ ~HasThread(r) /\ table' = WithoutRow(table, r)
               /\ disturbed' = (disturbed \/ Inside)
               /\ UNCHANGED <<calls, shallExit>>
      <3>1. /\ Thinner(table, table')
            /\ \A i \in 1..Len(table) : i # r => \E j \in 1..Len(table') : table'[j] = table[i]
        BY <1>0, <2>2, WithoutRowProperties DEF Rows
      <3>2. ~disturbed' => ~disturbed /\ Depth' = {} /\ \A u : ~InBox(u)
        BY <2>2, Outside DEF Depth
      <3>3. NamesDiffer(table) => NamesDiffer(table')
        BY <3>1, NamesThinner
      <3>4. \A t \in Threads : Holds(table, t) => Holds(table', t)
        BY <2>2, <3>1, ScriptAssumption DEF Holds, HasThread
      <3>5. phase' = phase
        BY <1>4 DEF PressRemove
      <3> QED
        BY <2>2, <3>2, <3>3, <3>4, <3>5, AskedOutside DEF AskedInv
    <2> QED
      BY <1>4, <2>1, <2>2 DEF PressRemove
  <1>5. ASSUME NEW s \in Scripts, PressAdd(s) PROVE AskedInv'
    <2>1. /\ \A r \in Rows : table[r].script # s
          /\ UNCHANGED <<phase, shallExit, calls>>
          /\ disturbed' = (disturbed \/ Inside) /\ table' = <<Row(s, NoThread)>> \o table
      BY <1>5 DEF PressAdd
    <2> DEFINE one == <<Row(s, NoThread)>>
    <2>2. one \in Seq(RowType) /\ Len(one) = 1 /\ one[1].script = s
      BY DEF Row, RowType
    <2> HIDE DEF one
    <2>3. Len(table) \in Nat
      BY <1>0, LenProperties
    <2>4. /\ Len(table') = 1 + Len(table)
          /\ \A i \in 1..Len(table') : table'[i] = IF i <= 1 THEN one[i] ELSE table[i - 1]
      BY <1>0, <2>1, <2>2, ConcatProperties DEF one
    <2>5. table'[1].script = s /\ \A i \in 1..Len(table) : table'[i + 1] = table[i]
      BY <2>2, <2>3, <2>4
    <2>6. \A i \in 1..Len(table') : i = 1 \/ (i - 1 \in 1..Len(table) /\ table'[i] = table[i - 1])
      BY <2>3, <2>4
    <2>7. NamesDiffer(table) => NamesDiffer(table')
      <3> SUFFICES ASSUME NamesDiffer(table), NEW i \in 1..Len(table'), NEW j \in 1..Len(table'),
                          table'[i].script = table'[j].script
                   PROVE  i = j
        BY DEF NamesDiffer
      <3>1. i = 1 <=> j = 1
        BY <2>1, <2>5, <2>6 DEF Rows
      <3>2. CASE i # 1 /\ j # 1
        <4>1. i - 1 = j - 1
          BY <2>6, <3>2 DEF NamesDiffer
        <4> QED
          BY <2>3, <2>4, <4>1
      <3> QED
        BY <3>1, <3>2
    <2>8. \A t : Holds(table, t) => Holds(table', t)
      <3>1. \A i \in 1..Len(table) : i + 1 \in 1..Len(table')
        BY <2>3, <2>4
      <3> QED
        BY <2>5, <3>1 DEF Holds
    <2>9. ~disturbed' => ~disturbed /\ Depth' = {} /\ \A u : ~InBox(u)
      BY <2>1, Outside DEF Depth
    <2> QED
      BY <2>1, <2>7, <2>8, <2>9, AskedOutside DEF AskedInv
  <1>6. ASSUME NEW r \in Rows, PressMove(r) PROVE AskedInv'
    <2>1. /\ UNCHANGED <<phase, shallExit, calls>>
          /\ disturbed' = (disturbed \/ Inside) /\ r + 1 \in Rows
          /\ table' = [table EXCEPT ![r] = table[r + 1], ![r + 1] = table[r]]
      BY <1>6 DEF PressMove
    <2>2. /\ \A t : Holds(table, t) => Holds(table', t)
          /\ NamesDiffer(table) => NamesDiffer(table')
      BY <2>1, MoveShape
    <2>3. ~disturbed' => ~disturbed /\ Depth' = {} /\ \A u : ~InBox(u)
      BY <2>1, Outside DEF Depth
    <2> QED
      BY <2>1, <2>2, <2>3, AskedOutside DEF AskedInv
  <1>7. ASSUME NEW op \in {"unload", "close"}, PressStopAll(op) PROVE AskedInv'
    <2>1. fault = "none" /\ StopFurther(op, 0, table, calls) /\ phase' = phase
      BY <1>7 DEF PressStopAll, Press
    <2>2. /\ Keeps(calls, calls', table', shallExit') /\ shallExit \subseteq shallExit'
          /\ table' = table \/ (~Occupied(table) /\ calls' = calls /\ (disturbed' \/ calls = <<>>))
          /\ Thinner(table, table')
          /\ disturbed => disturbed'
      <3>1. 0 \in Nat /\ shallExit \subseteq Threads
        BY DEF TypeOK
      <3> QED
        BY <1>0, <2>1, <3>1, FurtherShape
    <2>3. CASE table' = table
      <3>1. \A i \in Depth' : \/ i \in Depth /\ calls'[i] = calls[i]
                              \/ Remembered(calls'[i], table', shallExit')
        BY <1>0, <2>2, FurtherAsked DEF Depth
      <3>2. Cleared(table, table')
        BY <2>3, ClearedSame
      <3>3. \A t : InBox(t) => InBox(t)'
        <4>1. \A i \in Depth : i \in Depth' /\ calls'[i] = calls[i]
          BY <1>0, <2>2, LenProperties DEF Keeps, Depth
        <4> QED
          BY <4>1 DEF InBox, Depth
      <3> QED
        BY <2>1, <2>2, <2>3, <3>1, <3>2, <3>3, AskedKept
    <2>4. CASE ~Occupied(table) /\ calls' = calls /\ (disturbed' \/ calls = <<>>)
      <3>1. \A t \in Threads : ~Holds(table, t)
        BY <2>4, ScriptAssumption DEF Occupied, Holds
      <3>2. ~disturbed' => ~disturbed /\ Depth' = {} /\ \A u : ~InBox(u)
        BY <2>2, <2>4, Outside DEF Depth, Inside
      <3>3. NamesDiffer(table) => NamesDiffer(table')
        BY <2>2, NamesThinner
      <3> QED
        BY <2>1, <2>2, <3>1, <3>2, <3>3, AskedOutside DEF AskedInv
    <2> QED
      BY <2>2, <2>3, <2>4
  <1> QED
    BY <1>1, <1>2, <1>3, <1>4, <1>5, <1>6, <1>7 DEF User
LEMMA BoxesBelow ==
    ASSUME TypeOK, Inside, Keeps(Below, calls', table', shallExit')
    PROVE  /\ \A i \in Depth' : \/ i \in Depth /\ calls'[i] = calls[i]
                                \/ Remembered(calls'[i], table', shallExit')
           /\ \A t : InBox(t) => InBox(t)' \/ (Top.at = "box" /\ Top.thread = t)
           /\ Below = <<>> => \A t : InBox(t) => Top.at = "box" /\ Top.thread = t
  <1>1. /\ Below \in Seq(Calls) /\ 1..Len(Below) = Depth \ {Len(calls)}
        /\ \A i \in 1..Len(Below) : Below[i] = calls[i]
        /\ Top = calls[Len(calls)]
    BY BelowCalls, TopCall, Typed
  <1>2. \A i \in Depth' : i \in 1..Len(Below) \/ NewFrame(calls'[i], table', shallExit')
    BY <1>1, LenProperties DEF Keeps, Depth
  <1>3. \A i \in 1..Len(Below) : i \in Depth' /\ calls'[i] = calls[i] /\ i \in Depth
    BY <1>1, LenProperties DEF Keeps, Depth
  <1>4. \A i \in Depth : i \in 1..Len(Below) \/ calls[i] = Top
    BY <1>1
  <1>5. \A t : InBox(t) => InBox(t)' \/ (Top.at = "box" /\ Top.thread = t)
    BY <1>3, <1>4 DEF InBox, Depth
  <1>6. Below = <<>> => \A i \in Depth : calls[i] = Top
    BY <1>4, EmptySeq
  <1> QED
    BY <1>2, <1>3, <1>5, <1>6, NewRemembered DEF InBox, Depth

\* stopScriptThread returns: its row is the one it was, without a thread.
LEMMA ReturnAsked ==
    ASSUME TypeLive, AskedInv, Inside, fault = "none", Top.at # "drain",
           NEW ph \in [Threads -> Phases], NEW tab \in Seq(RowType), Cleared(table, tab),
           ~disturbed => Top.row \in 1..Len(table) /\ tab[Top.row].thread = NoThread,
           \A t \in Threads :
               ph[t] = "terminated" => phase[t] = "terminated" \/ t \in shallExit \/ disturbed,
           \A t \in Threads : ph[t] \in Active =>
               /\ phase[t] \in Active /\ (Holds(table, t) => Holds(tab, t))
               /\ ~(Top.at = "box" /\ Top.thread = t),
           Return(ph, tab)
    PROVE  AskedInv'
  <1> USE DEF TypeLive
  <1>1. CASE UNCHANGED <<table, phase, shallExit, calls, disturbed>>
    BY <1>1, AskedPhases
  <1>2. CASE ~ UNCHANGED <<table, phase, shallExit, calls, disturbed>>
    <2> SUFFICES ASSUME ~disturbed' PROVE AskedInv'
      BY DEF AskedInv
    <2>1. /\ Keeps(Below, calls', table', shallExit')
          /\ phase' = ph \/ /\ Top.op = "order" /\ Top.for \in Threads
                            /\ ph[Top.for] = "calling"
                            /\ phase' = [ph EXCEPT ![Top.for] = "running"]
          /\ shallExit \subseteq shallExit' /\ Thinner(tab, table')
          /\ \/ table' = tab
             \/ ~Occupied(tab) /\ calls' = Below /\ (disturbed' \/ Below = <<>>)
             \/ /\ Top.op = "remove" /\ calls' = Below /\ (disturbed' \/ Below = <<>>)
                /\ \E r \in Named(Top.for) : table' = WithoutRow(tab, r)
          /\ disturbed => disturbed'
      <3>1. Len(tab) = Len(table)
        BY DEF Cleared
      <3> QED
        BY <1>2, <3>1, ReturnShape
    <2>2. ~disturbed /\ Top.row \in 1..Len(table) /\ tab[Top.row].thread = NoThread
      BY <2>1
    <2>3. /\ \A t \in Threads :
                phase'[t] = "terminated" => phase[t] = "terminated" \/ t \in shallExit'
          /\ \A t \in Threads : phase'[t] \in Active => ph[t] \in Active
      BY <2>1, <2>2 DEF Active
    <2>4. /\ \A i \in Depth' : \/ i \in Depth /\ calls'[i] = calls[i]
                               \/ Remembered(calls'[i], table', shallExit')
          /\ \A t : InBox(t) => InBox(t)' \/ (Top.at = "box" /\ Top.thread = t)
          /\ Below = <<>> => \A t : InBox(t) => Top.at = "box" /\ Top.thread = t
      BY <2>1, BoxesBelow
    <2>5. CASE table' = tab
      BY <2>1, <2>2, <2>3, <2>4, <2>5, AskedKept
    <2>6. NamesDiffer(table')
      BY <2>1, <2>2, NamesCleared, NamesThinner DEF AskedInv
    <2>7. ASSUME calls' = Below, Below = <<>>,
                 \A t \in Threads : Holds(tab, t) => Holds(table', t)
          PROVE  AskedInv'
      <3>1. Depth' = {}
        BY <2>7, EmptySeq DEF Depth
      <3> QED
        BY <2>1, <2>2, <2>3, <2>4, <2>6, <2>7, <3>1, AskedOutside
    <2>8. CASE ~Occupied(tab) /\ calls' = Below /\ Below = <<>>
      <3>1. \A t \in Threads : ~Holds(tab, t)
        BY <2>8, ScriptAssumption DEF Occupied, Holds
      <3> QED
        BY <2>7, <2>8, <3>1
    <2>9. ASSUME Top.op = "remove", calls' = Below, Below = <<>>,
                 NEW r \in Named(Top.for), table' = WithoutRow(tab, r)
          PROVE  AskedInv'
      <3>1. Remembered(Top, table, shallExit)
        BY <2>2, TopCall, Typed DEF AskedInv
      <3>2. r \in 1..Len(table) /\ table[r].script = Top.for
        BY DEF Named, Rows
      <3>3. r = Top.row
        BY <2>2, <2>9, <3>1, <3>2 DEF Remembered, AskedInv, NamesDiffer
      <3>4. \A i \in 1..Len(tab) : i # r => \E j \in 1..Len(table') : table'[j] = tab[i]
        <4>1. r \in 1..Len(tab)
          BY <3>2 DEF Cleared
        <4> QED
          BY <2>9, <4>1, WithoutRowProperties
      <3>5. \A t \in Threads : Holds(tab, t) => Holds(table', t)
        BY <2>2, <3>3, <3>4, ScriptAssumption DEF Holds
      <3> QED
        BY <2>7, <2>9, <3>5
    <2> QED
      BY <2>1, <2>5, <2>8, <2>9
  <1> QED
    BY <1>1, <1>2

LEMMA WaitingAsked == TypeLive /\ AskedInv /\ Waiting => AskedInv'
  <1> SUFFICES ASSUME TypeLive, AskedInv, Waiting, ~disturbed' PROVE AskedInv'
    BY DEF AskedInv
  <1> USE DEF TypeLive
  <1>0. /\ table \in Seq(RowType) /\ calls \in Seq(Calls) /\ phase \in [Threads -> Phases]
        /\ shallExit \subseteq Threads
    BY Typed DEF TypeOK
  <1>a. ASSUME Inside, ~disturbed PROVE Remembered(Top, table, shallExit)
    BY <1>0, <1>a, TopCall DEF AskedInv
  <1>b. ASSUME Inside, Top.row \in Rows
        PROVE  /\ Clear \in Seq(RowType) /\ Cleared(table, Clear)
               /\ Clear[Top.row].thread = NoThread
               /\ \A i \in Rows : i # Top.row => Clear[i] = table[i]
    <2>1. Top.row \in 1..Len(table)
      BY <1>b DEF Rows
    <2>2. /\ Clear \in Seq(RowType) /\ Len(Clear) = Len(table)
          /\ Clear[Top.row].thread = NoThread /\ Clear[Top.row].script = table[Top.row].script
          /\ \A i \in 1..Len(table) : i # Top.row => Clear[i] = table[i]
      BY <1>0, <2>1, ClearProperties DEF Clear
    <2> QED
      BY <2>1, <2>2 DEF Cleared, Rows
  <1>1. CASE RowIsGone
    BY <1>1, AskedPhases DEF RowIsGone, Undefined
  <1>2. CASE StopSeesEnd
    <2>1. /\ Inside /\ fault = "none" /\ Top.row \in Rows /\ Return(phase, Clear)
          /\ ~StillRuns(Top.row) /\ Top.at = "wait"
      BY <1>2 DEF StopSeesEnd, Waits
    <2>2. \A t \in Threads : phase[t] \in Active /\ Holds(table, t) => Holds(Clear, t)
      <3>1. \A t \in Threads : phase[t] \in Active => table[Top.row].thread # t
        BY <2>1 DEF StillRuns, Active, Running
      <3> QED
        BY <1>b, <2>1, <3>1 DEF Holds, Rows, Cleared
    <2> HIDE DEF Clear
    <2> QED
      BY <1>0, <1>b, <2>1, <2>2, ReturnAsked DEF Rows
  <1>3. CASE StopTimesOut
    <2>0. PICK t \in Threads : t = table[Top.row].thread
      BY <1>3 DEF StopTimesOut, StillRuns
    <2> DEFINE box == [Top EXCEPT !.at = "box", !.thread = t]
    <2>1. /\ Inside /\ Top.row \in Rows /\ StillRuns(Top.row) /\ Top.at = "wait"
          /\ calls' = Append(Below, box) /\ table' = Clear
          /\ UNCHANGED <<phase, shallExit, disturbed>>
      BY <1>3, <2>0 DEF StopTimesOut, Waits
    <2>2. t \in Threads /\ t # NoThread
      BY ScriptAssumption
    <2>3. Top \in Calls
      BY <1>0, <2>1, TopCall
    <2>4. /\ box \in Calls /\ box.at = "box" /\ box.thread = t /\ box.row = Top.row
          /\ box.op = Top.op /\ box.for = Top.for
      BY <2>2, <2>3 DEF Calls
    <2> HIDE DEF box
    <2>5. /\ Clear \in Seq(RowType) /\ Cleared(table, Clear)
          /\ Clear[Top.row].thread = NoThread
          /\ \A i \in Rows : i # Top.row => Clear[i] = table[i]
      BY <1>b, <2>1
    <2>6. Remembered(box, table', shallExit')
      <3>1. Remembered(Top, table, shallExit)
        BY <1>a, <2>1
      <3>2. t \in shallExit
        BY <2>0, <2>1, <2>2, <3>1 DEF Remembered
      <3> QED
        BY <2>1, <2>4, <2>5, <3>1, <3>2 DEF Remembered, Cleared, Rows
    <2>7. /\ Len(calls') = Len(calls) /\ calls'[Len(calls)] = box /\ Len(calls) \in Depth
          /\ \A i \in Depth \ {Len(calls)} : calls'[i] = calls[i]
          /\ calls[Len(calls)] = Top
      <3>1. /\ Below \in Seq(Calls) /\ Len(Below) = Len(calls) - 1 /\ Len(calls) \in Nat
            /\ 1..Len(Below) = Depth \ {Len(calls)}
            /\ \A i \in 1..Len(Below) : Below[i] = calls[i]
            /\ calls[Len(calls)] = Top /\ Len(calls) \in Depth
        BY <1>0, <2>1, BelowCalls, TopCall
      <3>2. /\ Len(calls') = Len(Below) + 1
            /\ calls'[Len(Below) + 1] = box
            /\ \A i \in 1..Len(Below) : calls'[i] = Below[i]
        BY <2>1, <2>4, <3>1, AppendProperties
      <3> QED
        BY <3>1, <3>2
    <2>8. Depth' = Depth
      BY <2>7 DEF Depth
    <2>9. \A i \in Depth' : \/ i \in Depth /\ calls'[i] = calls[i]
                            \/ Remembered(calls'[i], table', shallExit')
      BY <2>6, <2>7, <2>8
    <2>10. InBox(t)' /\ \A u : InBox(u) => InBox(u)'
      <3>1. \A i \in Depth : calls[i].at = "box" => i # Len(calls)
        BY <2>1, <2>7
      <3> QED
        BY <2>1, <2>4, <2>7, <2>8, <3>1 DEF InBox, Depth
    <2>11. \A u : Holds(table, u) => Holds(table', u) \/ u = t
      BY <2>0, <2>1, <2>5 DEF Holds, Rows, Cleared
    <2> QED
      BY <2>1, <2>5, <2>9, <2>10, <2>11, AskedKept
  <1>4. CASE BoxConfirmed
    <2>1. Inside /\ fault = "none" /\ Top.at = "box"
      BY <1>4 DEF BoxConfirmed, Waits
    <2>2. CASE Undefined("useAfterDelete")
      BY <2>2, AskedPhases DEF Undefined
    <2>3. CASE Return(Terminated(Top.thread), table)
      <3> DEFINE ph == Terminated(Top.thread)
      <3>1. Top.thread \in Threads /\ ~Holds(table, Top.thread)
        BY <1>0, <2>1, TopCall DEF LiveInv, BoxInv
      <3>2. /\ ph \in [Threads -> Phases] /\ ph[Top.thread] \notin Active
            /\ \A u \in Threads : u # Top.thread => ph[u] = phase[u]
        BY <1>0, <3>1 DEF Terminated, Phases, Running, Active
      <3>3. ~disturbed => /\ Top.row \in 1..Len(table) /\ table[Top.row].thread = NoThread
                          /\ Top.thread \in shallExit
        BY <1>a, <2>1 DEF Remembered
      <3> HIDE DEF ph
      <3>4. Return(ph, table)
        BY <2>3 DEF ph
      <3>5. Cleared(table, table)
        BY ClearedSame
      <3>6. /\ \A u \in Threads :
                   ph[u] = "terminated" => phase[u] = "terminated" \/ u \in shallExit \/ disturbed
            /\ \A u \in Threads : ph[u] \in Active => phase[u] \in Active /\ Top.thread # u
        BY <3>2, <3>3
      <3> QED
        BY <1>0, <2>1, <3>2, <3>3, <3>4, <3>5, <3>6, ReturnAsked
    <2> QED
      BY <1>4, <2>2, <2>3 DEF BoxConfirmed
  <1>5. CASE DrainEnds
    <2>1. /\ Inside /\ Top.at = "drain" /\ phase' = phase /\ ~Occupied(table)
          /\ calls' = Below /\ shallExit' = shallExit /\ table' \in {<<>>, table}
          /\ disturbed' = (disturbed \/ Below # <<>>)
      BY <1>5 DEF DrainEnds, Waits, AllStopped
    <2>2. Below = <<>> /\ ~disturbed
      BY <2>1
    <2>3. Depth' = {}
      BY <2>1, <2>2, EmptySeq DEF Depth
    <2>4. \A u : ~InBox(u)
      <3>1. Keeps(Below, calls', table', shallExit')
        BY <1>0, <2>1, BelowCalls, KeepsItself
      <3> QED
        BY <2>1, <2>2, <3>1, BoxesBelow
    <2>5. \A u \in Threads : ~Holds(table, u)
      BY <2>1, ScriptAssumption DEF Occupied, Holds
    <2>6. NamesDiffer(table) => NamesDiffer(table')
      <3>1. Thinner(table, table')
        BY <1>0, <2>1, ThinnerSame, ThinnerEmpty
      <3> QED
        BY <3>1, NamesThinner
    <2> QED
      BY <2>1, <2>2, <2>3, <2>4, <2>5, <2>6, AskedOutside DEF AskedInv
  <1> QED
    BY <1>1, <1>2, <1>3, <1>4, <1>5 DEF Waiting
LEMMA HandleAsked == TypeLive /\ AskedInv /\ Handle => AskedInv'
  <1> SUFFICES ASSUME TypeLive, AskedInv, Handle PROVE AskedInv'
    OBVIOUS
  <1> USE DEF TypeLive
  <1>1. ASSUME ServeOrder, phase' = Served(phase, Sender),
               UNCHANGED <<table, shallExit, calls, disturbed>>
        PROVE  AskedInv'
    <2>1. /\ \A t \in Threads : phase'[t] = "terminated" => phase[t] = "terminated"
          /\ \A t \in Threads : phase'[t] \in Active => phase[t] \in Active
      BY <1>1, OrderType DEF Active
    <2> QED
      BY <1>1, <2>1, AskedPhases
  <1>2. CASE HandleExited
    <2> DEFINE t == Head(events).thread
    <2>0. t \in Threads /\ UNCHANGED <<shallExit, calls, disturbed>>
      BY <1>2, NextEventType DEF HandleExited
    <2>1. CASE UNCHANGED <<table, phase>>
      BY <2>0, <2>1, AskedPhases
    <2>2. CASE ClearPointersTo(t) /\ phase' = [phase EXCEPT ![t] = "deleted"]
      <3>1. /\ phase'[t] = "deleted"
            /\ \A u \in Threads : u # t => phase'[u] = phase[u]
        BY <2>0, <2>2, Typed
      <3>2. table' = [r \in Rows |-> IF table[r].thread = t THEN Row(table[r].script, NoThread)
                                     ELSE table[r]]
        BY <2>2 DEF ClearPointersTo
      <3>3. Len(table) \in Nat
        BY Typed, LenProperties
      <3>4. Len(table') = Len(table)
        <4> DEFINE n == Len(table)
        <4>1. \A r \in Rows : Row(table[r].script, NoThread) \in RowType /\ table[r] \in RowType
          BY Typed DEF Row, RowType
        <4>2. Rows = 1..n /\ n \in Nat
          BY <3>3 DEF Rows
        <4> HIDE DEF n
        <4>3. table' \in [1..n -> RowType]
          BY <3>2, <4>1, <4>2
        <4> QED
          BY <4>2, <4>3 DEF n
      <3>5. Cleared(table, table')
        BY <3>2, <3>4 DEF Cleared, Rows, Row
      <3>6. \A u \in Threads : u # t /\ Holds(table, u) => Holds(table', u)
        BY <3>2, <3>4 DEF Holds, Rows
      <3>7. Depth' = Depth /\ \A u : InBox(u)' = InBox(u)
        BY <2>0 DEF Depth, InBox
      <3>8. \A u \in Threads : phase'[u] \in Active => u # t
        BY <3>1 DEF Active
      <3>9. \A u \in Threads : phase'[u] = "terminated" => phase[u] = "terminated"
        BY <3>1
      <3> QED
        BY <2>0, <3>1, <3>5, <3>6, <3>7, <3>8, <3>9, AskedKept
    <2> QED
      BY <1>2, <2>1, <2>2 DEF HandleExited
  <1>3. CASE HandleNoRow
    BY <1>1, <1>3 DEF HandleNoRow
  <1>4. CASE HandleStart
    <2>1. ServeOrder /\ UNCHANGED <<shallExit, calls, fault>>
      BY <1>4 DEF HandleStart
    <2>2. PICK r \in Rows :
              StartScriptThread(r, Served(phase, Sender), Head(events).state = 1)
      BY <1>4 DEF HandleStart, Addressed, Named
    <2>3. /\ Served(phase, Sender) \in [Threads -> Phases]
          /\ \A t \in Threads : Served(phase, Sender)[t] # phase[t] =>
                                   phase[t] = "calling" /\ Served(phase, Sender)[t] = "running"
      BY <2>1, OrderType
    <2> QED
      BY <2>1, <2>2, <2>3, StartAsked
  <1>5. CASE HandlePause
    BY <1>1, <1>5 DEF HandlePause
  <1>6. CASE HandleStop
    <2>1. ServeOrder /\ UNCHANGED <<table, disturbed>> /\ Sender \in Threads
      BY <1>6, OrderType DEF HandleStop
    <2>2. ASSUME NEW r \in Rows, BeginStop("order", r, Sender), UNCHANGED phase PROVE AskedInv'
      <3>1. "order" \in Ops /\ Sender \in Scripts \cup Threads \cup {NoThread}
        BY <2>1 DEF Ops
      <3> QED
        BY <2>1, <2>2, <3>1, BeginAsked
    <2>3. CASE phase' = Served(phase, Sender) /\ UNCHANGED <<shallExit, calls>>
      BY <1>1, <2>1, <2>3
    <2> QED
      BY <1>6, <2>2, <2>3 DEF HandleStop, Addressed, Named
  <1>7. CASE HandleOrderOfTerminated
    BY <1>7, AskedPhases DEF HandleOrderOfTerminated
  <1> QED
    BY <1>2, <1>3, <1>4, <1>5, <1>6, <1>7 DEF Handle

LEMMA ScriptAsked == ASSUME TypeLive, AskedInv, NEW t \in Threads, Script(t) PROVE AskedInv'
  <1> USE DEF TypeLive
  <1>1. /\ UNCHANGED <<calls, table, disturbed>> /\ shallExit \subseteq shallExit'
        /\ phase[t] # "leaving" => phase[t] \in Active
        /\ \E q \in Active \cup {"leaving", "finished"} :
              /\ phase' = [phase EXCEPT ![t] = q]
              /\ phase[t] = "leaving" => q = "finished"
    BY DEF Script, Leave, Finish, Pause, Resume, SetScriptState, Acts, AskToExit, Active
  <1>2. PICK q \in Active \cup {"leaving", "finished"} :
              /\ phase' = [phase EXCEPT ![t] = q]
              /\ phase[t] = "leaving" => q = "finished"
    BY <1>1
  <1>3. phase'[t] = q /\ \A u \in Threads : u # t => phase'[u] = phase[u]
    BY <1>2, Typed
  <1>4. /\ \A u \in Threads : phase'[u] = "terminated" => phase[u] = "terminated"
        /\ \A u \in Threads : phase'[u] \in Active => phase[u] \in Active
    BY <1>1, <1>2, <1>3 DEF Active
  <1> QED
    BY <1>1, <1>4, AskedPhases

LEMMA AskedStep == TypeLive /\ AskedInv /\ [Next]_vars => AskedInv'
  <1> SUFFICES ASSUME TypeLive, AskedInv, [Next]_vars PROVE AskedInv'
    OBVIOUS
  <1>1. CASE UNCHANGED vars
    BY <1>1, AskedPhases DEF vars, TypeLive
  <1> QED
    BY <1>1, UserAsked, WaitingAsked, HandleAsked, ScriptAsked DEF Next, Over, Idle

LEMMA AskedAlways == SafeSpec => []AskedInv
  BY AskedInit, AskedStep, LiveAlways, PTL DEF SafeSpec

(***************************************************************************)
(* As long as no row changed, and no script was started, while a stop      *)
(* waited, only scripts that were asked to exit are terminated.            *)
(***************************************************************************)
THEOREM RightOneTerminated == SafeSpec => []TerminatesTheRightOne
  <1>1. AskedInv => TerminatesTheRightOne
    BY DEF AskedInv, TerminatesTheRightOne, TerminatedWereAsked
  <1> QED
    BY <1>1, AskedAlways, PTL

(***************************************************************************)
(* Under the same condition a script that runs is in the table, or was     *)
(* asked to exit, or is in a message box: it can be stopped.               *)
(***************************************************************************)
THEOREM NobodyLost == SafeSpec => []NoOrphans
  <1>1. AskedInv => NoOrphans
    BY DEF AskedInv, NoOrphans, Active, Reachable, Holds, InTable, Rows
  <1> QED
    BY <1>1, AskedAlways, PTL
-----------------------------------------------------------------------------
(***************************************************************************)
(* Scripts that wait in setScriptState.                                    *)
(***************************************************************************)
Queued(t) == \E i \in 1..Len(events) : events[i].kind = "order" /\ events[i].thread = t
Carried(t) == \E i \in Depth : calls[i].op = "order" /\ calls[i].for = t

CallersInv ==
    /\ CallersRemembered
    /\ \A i \in Depth : calls[i].at = "drain" => calls[i].op \in {"unload", "close"}

\* The queue of events, when its first one is taken.
LEMMA QueueKept ==
    ASSUME TypeOK, events # <<>>, events' = Tail(events), NEW t, Queued(t),
           Head(events).kind = "order" => Head(events).thread # t
    PROVE  Queued(t)'
  <1> DEFINE n == Len(events)
  <1>1. /\ n \in Nat \ {0} /\ Head(events) = events[1] /\ Len(events') = n - 1
        /\ \A i \in 1..(n - 1) : events'[i] = events[i + 1]
    BY Typed, HeadTailProperties, EmptySeq, LenProperties
  <1>2. PICK i \in 1..n : events[i].kind = "order" /\ events[i].thread = t
    BY DEF Queued
  <1>3. i # 1
    BY <1>1, <1>2
  <1> HIDE DEF n
  <1>4. i - 1 \in 1..(n - 1) /\ i - 1 + 1 = i
    BY <1>1, <1>2, <1>3
  <1> QED
    BY <1>1, <1>2, <1>4 DEF Queued

LEMMA QueueGrows ==
    ASSUME TypeOK, NEW e \in Events, events' = Append(events, e)
    PROVE  /\ \A t : Queued(t) => Queued(t)'
           /\ e.kind = "order" => Queued(e.thread)'
  <1>1. /\ Len(events) \in Nat /\ Len(events') = Len(events) + 1 /\ events'[Len(events) + 1] = e
        /\ \A i \in 1..Len(events) : events'[i] = events[i]
    BY Typed, AppendProperties, LenProperties
  <1>2. Len(events) + 1 \in 1..Len(events') /\ \A i \in 1..Len(events) : i \in 1..Len(events')
    BY <1>1
  <1> QED
    BY <1>1, <1>2 DEF Queued

LEMMA CallersKept ==
    ASSUME CallersInv,
           \A i \in Depth' : \/ i \in Depth /\ calls'[i] = calls[i]
                             \/ calls'[i].at = "drain" => calls'[i].op \in {"unload", "close"},
           \A t \in Threads : phase'[t] = "calling" =>
               \/ InService(t)'
               \/ /\ phase[t] = "calling"
                  /\ Queued(t) => Queued(t)'
                  /\ Carried(t) => Carried(t)'
    PROVE  CallersInv'
  <1>1. \A t : (InService(t) <=> Queued(t) \/ Carried(t)) /\ (InService(t)' <=> Queued(t)' \/ Carried(t)')
    BY DEF InService, Queued, Carried, Depth
  <1>2. CallersRemembered'
    BY <1>1 DEF CallersInv, CallersRemembered
  <1> QED
    BY <1>2 DEF CallersInv

\* Steps after which no other script waits, and all calls are still there.
LEMMA CallersSame ==
    ASSUME CallersInv, UNCHANGED <<events, calls>>,
           \A t \in Threads : phase'[t] = "calling" => phase[t] = "calling"
    PROVE  CallersInv'
  <1>1. Depth' = Depth /\ \A t : Queued(t)' = Queued(t) /\ Carried(t)' = Carried(t)
    BY DEF Depth, Queued, Carried
  <1> QED
    BY <1>1, CallersKept

LEMMA StartCallers ==
    ASSUME TypeOK, NEW r, NEW ph \in [Threads -> Phases], NEW thenPause,
           StartScriptThread(r, ph, thenPause)
    PROVE  \A t \in Threads : phase'[t] = "calling" => ph[t] = "calling"
  <1>1. \/ phase' = ph
        \/ \E t \in Threads : phase' = [ph EXCEPT ![t] = "running"]
    BY DEF StartScriptThread
  <1> QED
    BY <1>1

LEMMA BeginCallers ==
    ASSUME TypeOK, NEW op \in Ops, NEW r \in Rows,
           NEW for \in Scripts \cup Threads \cup {NoThread}, BeginStop(op, r, for)
    PROVE  /\ \A i \in Depth' : \/ i \in Depth /\ calls'[i] = calls[i]
                                \/ calls'[i].at = "drain" => calls'[i].op \in {"unload", "close"}
           /\ \A t : Carried(t) => Carried(t)'
           /\ op = "order" => Carried(for)'
  <1> DEFINE f == Stop(op, r, table[r].thread, for)
  <1>1. /\ Len(calls) \in Nat /\ Len(calls') = Len(calls) + 1
        /\ \A i \in Depth : calls'[i] = calls[i]
        /\ calls'[Len(calls) + 1] = f
    BY BeginShape
  <1>2. f.at = "wait" /\ f.op = op /\ f.for = for
    BY DEF Stop
  <1> HIDE DEF f
  <1>3. \A i \in Depth' : i \in Depth \/ i = Len(calls) + 1
    BY <1>1 DEF Depth
  <1>4. Len(calls) + 1 \in Depth' /\ \A i \in Depth : i \in Depth'
    BY <1>1 DEF Depth
  <1> QED
    BY <1>1, <1>2, <1>3, <1>4 DEF Carried

LEMMA UserCallers == TypeLive /\ CallersInv /\ User => CallersInv'
  <1> SUFFICES ASSUME TypeLive, CallersInv, User PROVE CallersInv'
    OBVIOUS
  <1> USE DEF TypeLive
  <1>0. events' = events /\ \A t : Queued(t)' = Queued(t)
    BY DEF User, PressStart, PressPause, PressStop, PressRemove, PressMove, PressAdd,
           PressStopAll, Press, Queued
  <1>1. ASSUME NEW r \in Rows, PressStart(r) PROVE CallersInv'
    BY <1>0, <1>1, StartCallers, CallersSame, Typed DEF PressStart
  <1>2. ASSUME NEW op \in Ops, NEW r \in Rows, NEW for \in Scripts \cup Threads \cup {NoThread},
               BeginStop(op, r, for), phase' = phase
        PROVE  CallersInv'
    BY <1>0, <1>2, BeginCallers, CallersKept
  <1>3. ASSUME NEW r \in Rows, PressPause(r) \/ PressMove(r) PROVE CallersInv'
    BY <1>0, <1>3, CallersSame DEF PressPause, PressMove
  <1>4. ASSUME NEW r \in Rows, PressStop(r) PROVE CallersInv'
    BY <1>2, <1>4 DEF PressStop, Ops
  <1>5. ASSUME NEW r \in Rows, PressRemove(r) PROVE CallersInv'
    <2>1. CASE BeginStop("remove", r, table[r].script)
      <3>1. "remove" \in Ops /\ table[r].script \in Scripts \cup Threads \cup {NoThread}
        BY Typed DEF Ops
      <3> QED
        BY <1>2, <1>5, <2>1, <3>1 DEF PressRemove
    <2>2. CASE calls' = calls
      BY <1>0, <1>5, <2>2, CallersSame DEF PressRemove
    <2> QED
      BY <1>5, <2>1, <2>2 DEF PressRemove
  <1>6. ASSUME NEW s \in Scripts, PressAdd(s) PROVE CallersInv'
    BY <1>0, <1>6, CallersSame DEF PressAdd
  <1>7. ASSUME NEW op \in {"unload", "close"}, PressStopAll(op) PROVE CallersInv'
    <2>1. fault = "none" /\ StopFurther(op, 0, table, calls) /\ phase' = phase
      BY <1>7 DEF PressStopAll, Press
    <2>2. Keeps(calls, calls', table', shallExit')
      <3>1. /\ 0 \in Nat /\ shallExit \subseteq Threads /\ calls \in Seq(Calls)
            /\ table \in Seq(RowType) /\ disturbed \in BOOLEAN
        BY Typed DEF TypeOK
      <3> QED
        BY <2>1, <3>1, FurtherShape
    <2>3. /\ \A i \in Depth' : \/ i \in Depth /\ calls'[i] = calls[i]
                               \/ NewFrame(calls'[i], table', shallExit')
          /\ \A i \in Depth : i \in Depth' /\ calls'[i] = calls[i]
      BY <2>2, Typed, LenProperties DEF Keeps, Depth
    <2>4. \A t : Carried(t) => Carried(t)'
      BY <2>3 DEF Carried
    <2> QED
      BY <1>0, <2>1, <2>3, <2>4, CallersKept DEF NewFrame
  <1> QED
    BY <1>1, <1>3, <1>4, <1>5, <1>6, <1>7 DEF User
\* The innermost call ends: if it carried out an order, its script goes on.
LEMMA PopCallers ==
    ASSUME TypeOK, CallersInv, Inside, events' = events,
           Keeps(Below, calls', table', shallExit'),
           \A t \in Threads : phase'[t] = "calling" =>
               phase[t] = "calling" /\ ~(Top.op = "order" /\ Top.for = t)
    PROVE  CallersInv'
  <1>1. /\ Below \in Seq(Calls) /\ 1..Len(Below) = Depth \ {Len(calls)}
        /\ \A i \in 1..Len(Below) : Below[i] = calls[i]
        /\ Top = calls[Len(calls)]
    BY BelowCalls, TopCall, Typed
  <1>2. \A i \in Depth' : i \in 1..Len(Below) \/ NewFrame(calls'[i], table', shallExit')
    BY <1>1, LenProperties DEF Keeps, Depth
  <1>3. \A i \in 1..Len(Below) : i \in Depth' /\ calls'[i] = calls[i] /\ i \in Depth
    BY <1>1, LenProperties DEF Keeps, Depth
  <1>4. \A i \in Depth : i \in 1..Len(Below) \/ calls[i] = Top
    BY <1>1
  <1>5. \A t \in Threads : phase'[t] = "calling" /\ Carried(t) => Carried(t)'
    BY <1>3, <1>4 DEF Carried
  <1>6. \A t : Queued(t) => Queued(t)'
    BY DEF Queued
  <1> QED
    BY <1>2, <1>3, <1>5, <1>6, CallersKept DEF NewFrame

LEMMA ReturnCallers ==
    ASSUME TypeOK, CallersInv, Inside, fault = "none", events' = events,
           NEW ph \in [Threads -> Phases], NEW tab \in Seq(RowType), Len(tab) = Len(table),
           \A t \in Threads : ph[t] = "calling" => phase[t] = "calling",
           Return(ph, tab)
    PROVE  CallersInv'
  <1>1. CASE UNCHANGED <<table, phase, shallExit, calls, disturbed>>
    BY <1>1, CallersSame
  <1>2. CASE ~ UNCHANGED <<table, phase, shallExit, calls, disturbed>>
    <2>1. /\ Keeps(Below, calls', table', shallExit')
          /\ phase' = ph \/ /\ Top.op = "order" /\ Top.for \in Threads
                            /\ phase' = [ph EXCEPT ![Top.for] = "running"]
          /\ Top.op = "order" => phase' = [ph EXCEPT ![Top.for] = "running"]
      BY <1>2, ReturnShape
    <2>2. \A t \in Threads : phase'[t] = "calling" =>
              phase[t] = "calling" /\ ~(Top.op = "order" /\ Top.for = t)
      BY <2>1
    <2> QED
      BY <2>1, <2>2, PopCallers
  <1> QED
    BY <1>1, <1>2

LEMMA WaitingCallers == TypeLive /\ CallersInv /\ Waiting => CallersInv'
  <1> SUFFICES ASSUME TypeLive, CallersInv, Waiting PROVE CallersInv'
    OBVIOUS
  <1> USE DEF TypeLive
  <1>0. /\ table \in Seq(RowType) /\ calls \in Seq(Calls) /\ phase \in [Threads -> Phases]
        /\ events' = events
    BY Typed DEF Waiting, RowIsGone, Undefined, StopSeesEnd, StopTimesOut, BoxConfirmed, DrainEnds
  <1>1. CASE RowIsGone
    BY <1>1, <1>0, CallersSame DEF RowIsGone, Undefined
  <1>2. CASE StopSeesEnd
    <2>1. /\ Inside /\ fault = "none" /\ Top.row \in 1..Len(table) /\ Return(phase, Clear)
      BY <1>2 DEF StopSeesEnd, Waits, Rows
    <2>2. Clear \in Seq(RowType) /\ Len(Clear) = Len(table)
      BY <1>0, <2>1, ClearProperties DEF Clear
    <2> HIDE DEF Clear
    <2> QED
      BY <1>0, <2>1, <2>2, ReturnCallers
  <1>3. CASE StopTimesOut
    <2>0. PICK t \in Threads : t = table[Top.row].thread
      BY <1>3 DEF StopTimesOut, StillRuns
    <2> DEFINE box == [Top EXCEPT !.at = "box", !.thread = t]
    <2>1. Inside /\ calls' = Append(Below, box) /\ phase' = phase
      BY <1>3, <2>0 DEF StopTimesOut, Waits
    <2>2. Top \in Calls
      BY <1>0, <2>1, TopCall
    <2>3. box \in Calls /\ box.at = "box" /\ box.op = Top.op /\ box.for = Top.for
      BY <2>2 DEF Calls
    <2> HIDE DEF box
    <2>4. /\ Below \in Seq(Calls) /\ Len(Below) = Len(calls) - 1 /\ Len(calls) \in Nat
          /\ 1..Len(Below) = Depth \ {Len(calls)}
          /\ \A i \in 1..Len(Below) : Below[i] = calls[i]
          /\ calls[Len(calls)] = Top /\ Len(calls) \in Depth
      BY <1>0, <2>1, BelowCalls, TopCall
    <2>5. /\ Len(calls') = Len(Below) + 1
          /\ calls'[Len(Below) + 1] = box
          /\ \A i \in 1..Len(Below) : calls'[i] = Below[i]
      BY <2>1, <2>3, <2>4, AppendProperties
    <2>6. /\ Depth' = Depth /\ calls'[Len(calls)] = box
          /\ \A i \in Depth : i # Len(calls) => calls'[i] = calls[i]
      BY <2>4, <2>5 DEF Depth
    <2>7. \A u : Carried(u) => Carried(u)'
      BY <2>3, <2>4, <2>6 DEF Carried
    <2>8. \A u : Queued(u) => Queued(u)'
      BY <1>0 DEF Queued
    <2> QED
      BY <2>1, <2>3, <2>6, <2>7, <2>8, CallersKept
  <1>4. CASE BoxConfirmed
    <2>1. Inside /\ fault = "none" /\ Top.at = "box"
      BY <1>4 DEF BoxConfirmed, Waits
    <2>2. CASE Undefined("useAfterDelete")
      BY <1>0, <2>2, CallersSame DEF Undefined
    <2>3. CASE Return(Terminated(Top.thread), table)
      <3> DEFINE ph == Terminated(Top.thread)
      <3>1. ph \in [Threads -> Phases] /\ \A u \in Threads : ph[u] = "calling" => phase[u] = "calling"
        BY <1>0 DEF Terminated, Phases
      <3> HIDE DEF ph
      <3>2. Return(ph, table)
        BY <2>3 DEF ph
      <3> QED
        BY <1>0, <2>1, <3>1, <3>2, ReturnCallers
    <2> QED
      BY <1>4, <2>2, <2>3 DEF BoxConfirmed
  <1>5. CASE DrainEnds
    <2>1. Inside /\ Top.at = "drain" /\ phase' = phase /\ calls' = Below
      BY <1>5 DEF DrainEnds, Waits, AllStopped
    <2>2. Keeps(Below, calls', table', shallExit')
      BY <1>0, <2>1, BelowCalls, KeepsItself
    <2>3. Top.op # "order"
      BY <1>0, <2>1, TopCall DEF CallersInv
    <2> QED
      BY <1>0, <2>1, <2>2, <2>3, PopCallers
  <1> QED
    BY <1>1, <1>2, <1>3, <1>4, <1>5 DEF Waiting

LEMMA HandleCallers == TypeLive /\ CallersInv /\ Handle => CallersInv'
  <1> SUFFICES ASSUME TypeLive, CallersInv, Handle PROVE CallersInv'
    OBVIOUS
  <1> USE DEF TypeLive
  <1>1. ASSUME events # <<>>, events' = Tail(events), calls' = calls,
               \A t \in Threads : phase'[t] = "calling" =>
                   phase[t] = "calling" /\ ~(Head(events).kind = "order" /\ Head(events).thread = t)
        PROVE  CallersInv'
    <2>1. Depth' = Depth /\ \A t : Carried(t)' = Carried(t)
      BY <1>1 DEF Depth, Carried
    <2>2. \A t \in Threads : phase'[t] = "calling" => phase[t] = "calling" /\ (Queued(t) => Queued(t)')
      BY <1>1, QueueKept
    <2> QED
      BY <1>1, <2>1, <2>2, CallersKept
  <1>2. CASE HandleExited
    <2>1. /\ events # <<>> /\ events' = Tail(events) /\ calls' = calls /\ Head(events).kind = "exited"
          /\ phase' = phase \/ phase' = [phase EXCEPT ![Head(events).thread] = "deleted"]
      BY <1>2 DEF HandleExited, NextEvent
    <2>2. phase \in [Threads -> Phases]
      BY Typed
    <2> QED
      BY <1>1, <2>1, <2>2
  <1>3. ASSUME ServeOrder, calls' = calls,
               \A t \in Threads : phase'[t] = "calling" => Served(phase, Sender)[t] = "calling"
        PROVE  CallersInv'
    <2>1. /\ events # <<>> /\ events' = Tail(events) /\ Sender \in Threads
          /\ Served(phase, Sender) = [phase EXCEPT ![Sender] = "running"]
          /\ phase \in [Threads -> Phases]
      BY <1>3, OrderType, Typed DEF Served
    <2>2. \A t \in Threads : phase'[t] = "calling" => phase[t] = "calling" /\ t # Sender
      <3>1. Served(phase, Sender)[Sender] = "running"
        BY <2>1
      <3>2. \A t \in Threads : t # Sender => Served(phase, Sender)[t] = phase[t]
        BY <2>1
      <3> QED
        BY <1>3, <3>1, <3>2
    <2> QED
      BY <1>1, <1>3, <2>1, <2>2 DEF Sender
  <1>4. CASE HandleNoRow \/ HandlePause
    BY <1>3, <1>4 DEF HandleNoRow, HandlePause
  <1>5. CASE HandleStart
    <2>1. ServeOrder /\ calls' = calls
      BY <1>5 DEF HandleStart
    <2>2. PICK r \in Rows :
              StartScriptThread(r, Served(phase, Sender), Head(events).state = 1)
      BY <1>5 DEF HandleStart, Addressed, Named
    <2> QED
      BY <1>3, <2>1, <2>2, OrderType, StartCallers
  <1>6. CASE HandleStop
    <2>1. /\ ServeOrder /\ Sender \in Threads /\ events # <<>> /\ events' = Tail(events)
      BY <1>6, OrderType DEF HandleStop
    <2>2. ASSUME NEW r \in Rows, BeginStop("order", r, Sender), UNCHANGED phase PROVE CallersInv'
      <3>0. PICK t \in Threads : t = Sender
        BY <2>1
      <3>1. /\ "order" \in Ops /\ t \in Scripts \cup Threads \cup {NoThread}
            /\ BeginStop("order", r, t)
        BY <2>2, <3>0 DEF Ops
      <3>2. /\ \A i \in Depth' : \/ i \in Depth /\ calls'[i] = calls[i]
                                 \/ calls'[i].at = "drain" => calls'[i].op \in {"unload", "close"}
            /\ \A u : Carried(u) => Carried(u)'
            /\ Carried(t)'
        BY <3>1, BeginCallers
      <3>3. \A u \in Threads : u # t => (Queued(u) => Queued(u)')
        BY <2>1, <3>0, QueueKept DEF Sender
      <3>4. InService(t)'
        BY <3>2 DEF InService, Carried, Depth
      <3> QED
        BY <2>2, <3>2, <3>3, <3>4, CallersKept
    <2>3. CASE phase' = Served(phase, Sender) /\ calls' = calls
      BY <1>3, <2>1, <2>3
    <2> QED
      BY <1>6, <2>2, <2>3 DEF HandleStop, Addressed, Named
  <1>7. CASE HandleOrderOfTerminated
    <2>1. /\ events # <<>> /\ events' = Tail(events) /\ calls' = calls
          /\ phase' = phase /\ phase[Sender] # "calling"
      BY <1>7 DEF HandleOrderOfTerminated, NextEvent
    <2> QED
      BY <1>1, <2>1 DEF Sender
  <1> QED
    BY <1>2, <1>4, <1>5, <1>6, <1>7 DEF Handle

LEMMA ScriptCallers == ASSUME TypeLive, CallersInv, NEW t \in Threads, Script(t) PROVE CallersInv'
  <1> USE DEF TypeLive
  <1>1. calls' = calls /\ Depth' = Depth /\ \A u : Carried(u)' = Carried(u)
    BY DEF Script, Leave, Finish, Pause, Resume, SetScriptState, Acts, Depth, Carried
  <1>2. CASE Leave(t)
    <2>1. events' = Append(events, Exited(t)) /\ phase' = [phase EXCEPT ![t] = "leaving"]
      BY <1>2 DEF Leave, Acts
    <2>2. Exited(t) \in Events
      BY DEF Exited, Events
    <2> QED
      BY <1>1, <2>1, <2>2, QueueGrows, CallersKept, Typed
  <1>3. ASSUME NEW state \in 0..2, NEW s \in Scripts, SetScriptState(t, state, s)
        PROVE  CallersInv'
    <2>1. events' = Append(events, Order(t, state, s)) /\ phase' = [phase EXCEPT ![t] = "calling"]
      BY <1>3 DEF SetScriptState, Acts
    <2>2. /\ Order(t, state, s) \in Events /\ Order(t, state, s).kind = "order"
          /\ Order(t, state, s).thread = t
      BY DEF Order, Orders, Events
    <2>3. Queued(t)' /\ \A u : Queued(u) => Queued(u)'
      BY <2>1, <2>2, QueueGrows
    <2>4. InService(t)'
      BY <2>3 DEF InService, Queued
    <2> QED
      BY <1>1, <2>1, <2>3, <2>4, CallersKept
  <1>4. CASE Finish(t) \/ Pause(t) \/ Resume(t)
    <2>1. /\ events' = events
          /\ \E q \in {"finished", "paused", "running"} : phase' = [phase EXCEPT ![t] = q]
      BY <1>4 DEF Finish, Pause, Resume, Acts
    <2> QED
      BY <1>1, <2>1, CallersSame
  <1> QED
    BY <1>2, <1>3, <1>4 DEF Script

LEMMA CallersAlways == SafeSpec => []CallersInv
  <1>1. Init => CallersInv
    <2> SUFFICES ASSUME Init PROVE CallersInv
      OBVIOUS
    <2>1. Depth = {}
      BY EmptySeq DEF Init, Depth
    <2> QED
      BY <2>1 DEF Init, CallersInv, CallersRemembered
  <1>2. TypeLive /\ CallersInv /\ [Next]_vars => CallersInv'
    <2> SUFFICES ASSUME TypeLive, CallersInv, [Next]_vars PROVE CallersInv'
      OBVIOUS
    <2>1. CASE UNCHANGED vars
      BY <2>1, CallersSame DEF vars
    <2> QED
      BY <2>1, UserCallers, WaitingCallers, HandleCallers, ScriptCallers DEF Next, Over, Idle
  <1> QED
    BY <1>1, <1>2, LiveAlways, PTL DEF SafeSpec

(***************************************************************************)
(* A script that waits in setScriptState is remembered by the window: its  *)
(* order is queued, or a call that will release it carries it out, also    *)
(* when the rows change meanwhile.                                         *)
(***************************************************************************)
THEOREM NobodyForgotten == SafeSpec => []CallersRemembered
  <1>1. CallersInv => CallersRemembered
    BY DEF CallersInv
  <1> QED
    BY <1>1, CallersAlways, PTL
=============================================================================

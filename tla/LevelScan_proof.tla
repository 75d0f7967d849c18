-------------------------- MODULE LevelScan_proof --------------------------
(***************************************************************************)
(* What the loop of LevelScan keeps true, whatever is done with an         *)
(* operation: the proofs about DelegationSync and RewardSync rest on these *)
(* lemmas.  Each of them takes one step of the loop.                       *)
(***************************************************************************)
EXTENDS LevelScan, SequenceTheorems, FiniteSetTheorems, TLAPS

-----------------------------------------------------------------------------
(* The inductive invariant of the loop                                     *)

\* The feed: the ids up to Upto(below, l) are the operations at levels <= l.
FeedInv ==
  \A l \in 0..head :
    /\ Upto(below, l) \in 0..Len(ops)
    /\ \A i \in DOMAIN ops : i <= Upto(below, l) <=> ops[i].level <= l

LevelsInv ==
  /\ Len(ops) \in Nat /\ DOMAIN ops = 1..Len(ops)
  /\ \A i \in DOMAIN ops : ops[i].level \in 1..head

\* A run in progress scans from lastSeen to a level that was the head, and its
\* cursor is inside the page.
RunInv ==
  /\ pc = "idle" => offset = 0
  /\ pc # "idle" => from = lastSeen /\ from < to /\ to <= head
  /\ pc \in {"find", "update"} =>
       /\ PageFirst(below, from, offset) <= cursor
       /\ cursor <= pageEnd
       /\ pageEnd = PageLast(below, from, to, offset)

\* How many operations of the window the pages had, so far and at the end.
WindowSize == WindowEnd(below, from, to) - WindowStart(below, from)

CountInv ==
  /\ pc = "idle" => scanned = 0
  /\ pc = "page" => scanned = offset /\ offset <= WindowSize
  /\ pc \in {"find", "update"} => scanned = pageEnd - WindowStart(below, from)
  /\ pc = "finish" => scanned = WindowSize

ScanInv == ScanTypeOK /\ FeedInv /\ LevelsInv /\ RunInv /\ CountInv

\* Of the operations dealt with, those below the frontier are in Done.
Swept(Done) ==
  \A i \in DOMAIN ops : Handled(i) => i \in Done \/ Frontier <= ops[i].level

-----------------------------------------------------------------------------
(* Sequences: what a new block does to ops and below                       *)

\* A block's operations form a sequence (AddBlock draws them as a function).
LEMMA BlockIsSeq ==
  ASSUME NEW S, NEW n \in Nat, NEW es \in [1..n -> S]
  PROVE  es \in Seq(S) /\ Len(es) = n
  BY SeqDef, LenProperties

\* Levels that exist keep their operations when a block is added.
LEMMA UptoStable ==
  ASSUME NEW b \in Seq(Nat), NEW m \in Nat, NEW l \in 0..Len(b)
  PROVE  Upto(Append(b, m), l) = Upto(b, l)
  BY AppendProperties DEF Upto

\* The window and its pages are the same after a block is added: the levels
\* of a run in progress are not above the head it saw.
LEMMA PagesStable ==
  ASSUME NEW b \in Seq(Nat), NEW m \in Nat, NEW f \in 0..Len(b), NEW t \in 0..Len(b),
         NEW o \in Nat
  PROVE  /\ WindowStart(Append(b, m), f) = WindowStart(b, f)
         /\ WindowEnd(Append(b, m), f, t) = WindowEnd(b, f, t)
         /\ PageFirst(Append(b, m), f, o) = PageFirst(b, f, o)
         /\ PageLast(Append(b, m), f, t, o) = PageLast(b, f, t, o)
  <1>1. \A l \in 0..Len(b) : Upto(Append(b, m), l) = Upto(b, l)
    BY UptoStable
  <1>2. WindowStart(Append(b, m), f) = WindowStart(b, f)
    BY <1>1, LenProperties DEF WindowStart
  <1>3. WindowEnd(Append(b, m), f, t) = WindowEnd(b, f, t)
    BY <1>1 DEF WindowEnd
  <1> QED BY <1>2, <1>3 DEF PageFirst, PageLast

\* What a new block does: the operations of the old levels keep their ids,
\* the new ones are all at the new head.
LEMMA BlockAdded ==
  ASSUME ScanInv, NEW S, ops \in Seq(S),
         NEW Content, Content \subseteq S, \A c \in Content : c.level = head + 1,
         AddBlock(Content)
  PROVE  /\ ops' \in Seq(S) /\ below' \in Seq(Nat)
         /\ \E m \in Nat : below' = Append(below, m)
         /\ Len(below') = head + 1 /\ head \in Nat
         /\ Len(ops) \in Nat /\ Len(ops') \in Nat /\ Len(ops) <= Len(ops')
         /\ DOMAIN ops = 1..Len(ops) /\ DOMAIN ops' = 1..Len(ops')
         /\ \A i \in DOMAIN ops : ops'[i] = ops[i]
         /\ \A i \in DOMAIN ops' \ DOMAIN ops : ops'[i] \in Content
         /\ Upto(below', head + 1) = Len(ops')
         /\ \A l \in 0..head : Upto(below', l) = Upto(below, l)
  <1>1. PICK n \in 0..MaxPerBlock :
          \E es \in [1..n -> Content] :
            ops' = ops \o es /\ below' = Append(below, Len(ops) + n)
    BY DEF AddBlock
  <1>2. PICK es \in [1..n -> Content] :
            ops' = ops \o es /\ below' = Append(below, Len(ops) + n)
    BY <1>1
  <1>3. below \in Seq(Nat) /\ n \in Nat /\ Len(ops) \in Nat /\ head \in Nat
    BY LenProperties DEF ScanInv, ScanTypeOK, head
  <1>4. es \in Seq(Content) /\ Len(es) = n /\ es \in Seq(S)
    BY <1>2, <1>3, BlockIsSeq
  <1>5. /\ ops' \in Seq(S) /\ Len(ops') = Len(ops) + n
        /\ \A i \in 1..Len(ops) + n :
             ops'[i] = IF i <= Len(ops) THEN ops[i] ELSE es[i - Len(ops)]
    BY <1>2, <1>3, <1>4, ConcatProperties
  <1>6. DOMAIN ops = 1..Len(ops) /\ DOMAIN ops' = 1..Len(ops')
    BY <1>3, <1>5, LenProperties
  <1>7. /\ below' \in Seq(Nat) /\ Len(below') = head + 1
        /\ Upto(below', head + 1) = Len(ops')
        /\ \A l \in 0..head : Upto(below', l) = Upto(below, l)
        /\ \E m \in Nat : below' = Append(below, m)
    <2>1. Len(ops) + n \in Nat
      BY <1>3
    <2>2. /\ below' \in Seq(Nat) /\ Len(below') = head + 1
          /\ below'[head + 1] = Len(ops) + n
      BY <1>2, <1>3, <2>1, AppendProperties DEF head
    <2> QED
      BY <1>2, <1>3, <1>5, <2>1, <2>2, UptoStable DEF Upto, head
  <1>8. \A i \in DOMAIN ops' \ DOMAIN ops : ops'[i] \in Content
    BY <1>2, <1>3, <1>5, <1>6
  <1> QED
    BY <1>3, <1>5, <1>6, <1>7, <1>8

-----------------------------------------------------------------------------
(* The window and its pages                                                *)

\* The bounds of the window are ids, and it does not end before it starts,
\* however TzKT reads "level".
LEMMA WindowBounds ==
  ASSUME ScanInv, pc # "idle"
  PROVE  /\ from \in 0..head /\ to \in 0..head /\ head \in Nat /\ offset \in Nat
         /\ WindowStart(below, from) \in 0..Len(ops)
         /\ WindowEnd(below, from, to) \in 0..Len(ops)
         /\ WindowStart(below, from) <= WindowEnd(below, from, to)
         /\ WindowSize \in Nat
         /\ PageFirst(below, from, offset) \in Nat \ {0}
         /\ PageLast(below, from, to, offset) \in Nat
  <1>1. from \in 0..head /\ to \in 0..head /\ head \in Nat /\ from < to
        /\ offset \in Nat
    BY LenProperties DEF ScanInv, ScanTypeOK, RunInv, head
  <1>2. Len(ops) \in Nat /\ \A l \in 0..head : Upto(below, l) \in 0..Len(ops)
    BY DEF ScanInv, FeedInv, LevelsInv
  <1>3. ASSUME NEW k \in 0..head, NEW l \in 0..head, k <= l
        PROVE  Upto(below, k) <= Upto(below, l)
    <2>1. SUFFICES ASSUME Upto(below, l) < Upto(below, k) PROVE FALSE
      BY <1>2
    <2>2. Upto(below, k) \in DOMAIN ops
      BY <1>2, <2>1 DEF ScanInv, LevelsInv
    <2>3. ops[Upto(below, k)].level <= k /\ ~(ops[Upto(below, k)].level <= l)
          /\ ops[Upto(below, k)].level \in Nat
      BY <1>2, <2>1, <2>2 DEF ScanInv, FeedInv, LevelsInv
    <2> QED
      BY <1>1, <1>3, <2>3
  <1>4. /\ WindowStart(below, from) \in 0..Len(ops)
        /\ from # 0 => from - 1 \in 0..head /\ from - 1 <= to
        /\ WindowStart(below, from) = IF from = 0 THEN 0 ELSE Upto(below, from - 1)
    BY <1>1, <1>2 DEF WindowStart
  <1>5. WindowEnd(below, from, to) \in 0..Len(ops)
    BY <1>1, <1>2 DEF WindowEnd
  <1>6. WindowStart(below, from) <= WindowEnd(below, from, to)
    <2>1. CASE from = 0
      BY <1>4, <1>5, <2>1
    <2>2. CASE from # 0
      <3>1. Upto(below, from - 1) <= Upto(below, to)
        BY <1>1, <1>3, <1>4, <2>2
      <3>2. Upto(below, from - 1) <= Upto(below, from)
        BY <1>1, <1>3, <1>4, <2>2
      <3> QED
        BY <1>4, <2>2, <3>1, <3>2 DEF WindowEnd
    <2> QED
      BY <2>1, <2>2
  <1>7. /\ PageFirst(below, from, offset) \in Nat \ {0}
        /\ PageLast(below, from, to, offset) \in Nat
    BY <1>1, <1>2, <1>4, <1>5, BatchAssumption DEF PageFirst, PageLast
  <1> QED
    BY <1>1, <1>2, <1>4, <1>5, <1>6, <1>7 DEF WindowSize

\* Inside a page there are operations: the cursor of a run denotes one.
LEMMA CursorInFeed ==
  ASSUME ScanInv, pc \in {"find", "update"}
  PROVE  cursor \in DOMAIN ops
  <1>1. pageEnd <= Len(ops) /\ 1 <= cursor /\ cursor <= pageEnd
        /\ cursor \in Nat /\ pageEnd \in Nat /\ Len(ops) \in Nat
    BY WindowBounds, BatchAssumption
       DEF ScanInv, RunInv, LevelsInv, ScanTypeOK, PageFirst, PageLast
  <1> QED
    BY <1>1 DEF ScanInv, LevelsInv

\* The operations of the window, when "level" is its lower bound.
LEMMA WindowIsInterval ==
  ASSUME ScanInv, pc # "idle", LevelParam = "ge"
  PROVE  {i \in DOMAIN ops : from <= ops[i].level /\ ops[i].level <= to}
           = WindowStart(below, from) + 1 .. WindowEnd(below, from, to)
  <1> DEFINE ws == WindowStart(below, from)
             we == WindowEnd(below, from, to)
  <1>1. /\ from \in 0..head /\ to \in 0..head /\ head \in Nat
        /\ ws \in 0..Len(ops) /\ we \in 0..Len(ops)
        /\ Len(ops) \in Nat /\ DOMAIN ops = 1..Len(ops)
    BY WindowBounds DEF ScanInv, LevelsInv
  <1>2. ASSUME NEW i \in DOMAIN ops
        PROVE  /\ ops[i].level \in Nat \ {0} /\ i \in Nat \ {0}
               /\ ops[i].level <= to <=> i <= we
               /\ from <= ops[i].level <=> ws + 1 <= i
    <2>1. ops[i].level \in Nat \ {0} /\ i \in Nat \ {0}
      BY <1>1 DEF ScanInv, LevelsInv
    <2>2. ops[i].level <= to <=> i <= we
      BY <1>1 DEF ScanInv, FeedInv, WindowEnd
    <2>3. CASE from = 0
      BY <1>1, <2>1, <2>2, <2>3 DEF WindowStart
    <2>4. CASE from # 0
      <3>1. from - 1 \in 0..head /\ ws = Upto(below, from - 1)
        BY <1>1, <2>4 DEF WindowStart
      <3>2. i <= ws <=> ops[i].level <= from - 1
        BY <3>1 DEF ScanInv, FeedInv
      <3> QED
        BY <1>1, <2>1, <2>2, <2>4, <3>2
    <2> QED
      BY <2>3, <2>4
  <1> HIDE DEF ws, we
  <1>3. ws + 1 .. we \subseteq DOMAIN ops
    BY <1>1
  <1>4. {i \in DOMAIN ops : from <= ops[i].level /\ ops[i].level <= to} = ws + 1 .. we
    BY <1>1, <1>2, <1>3
  <1> QED
    BY <1>4 DEF ws, we

\* When TzKT reads "level" as the lower bound of the window, a run that ends
\* has scanned each operation of its window, and each of them once.
LEMMA WindowCovered ==
  ASSUME ScanInv, LevelParam = "ge"
  PROVE  ScanCoversWindow
  <1> SUFFICES ASSUME pc = "finish"
               PROVE  scanned = Cardinality({i \in DOMAIN ops :
                                  from <= ops[i].level /\ ops[i].level <= to})
    BY DEF ScanCoversWindow
  <1> DEFINE ws == WindowStart(below, from)
             we == WindowEnd(below, from, to)
  <1>1. ws \in Nat /\ we \in Nat /\ ws <= we /\ scanned = we - ws
    BY WindowBounds DEF ScanInv, CountInv, WindowSize, LevelsInv
  <1>2. {i \in DOMAIN ops : from <= ops[i].level /\ ops[i].level <= to} = ws + 1 .. we
    BY WindowIsInterval
  <1> HIDE DEF ws, we
  <1>3. Cardinality(ws + 1 .. we) = IF ws + 1 > we THEN 0 ELSE we - (ws + 1) + 1
    BY <1>1, FS_Interval
  <1>4. Cardinality(ws + 1 .. we) = scanned
    BY <1>1, <1>3
  <1> QED
    BY <1>2, <1>4

-----------------------------------------------------------------------------
(* Every step of the loop keeps the invariant                              *)

\* The empty chain, and no run in progress.
LEMMA ScanInitInv == ASSUME ScanInit PROVE ScanInv
  <1>1. head = 0 /\ Len(ops) = 0 /\ DOMAIN ops = {} /\ below \in Seq(Nat)
    BY DEF ScanInit, head
  <1>2. ScanTypeOK
    BY <1>1 DEF ScanInit, ScanTypeOK
  <1>3. FeedInv /\ LevelsInv /\ RunInv /\ CountInv
    BY <1>1 DEF ScanInit, FeedInv, LevelsInv, RunInv, CountInv, Upto
  <1> QED
    BY <1>2, <1>3 DEF ScanInv

\* A step that leaves the loop alone.
LEMMA ScanStutter ==
  ASSUME ScanInv, UNCHANGED <<feedVars, lastSeen, scanVars>>
  PROVE  ScanInv' /\ (\A D : Swept(D) => Swept(D)')
  BY DEF ScanInv, ScanTypeOK, FeedInv, LevelsInv, RunInv, CountInv, WindowSize,
         Swept, Handled, Frontier, feedVars, scanVars, head

\* The window of a run in progress is not touched by a new block.
LEMMA WindowStable ==
  ASSUME ScanInv, UNCHANGED <<lastSeen, scanVars>>, pc # "idle",
         NEW m \in Nat, below' = Append(below, m)
  PROVE  /\ PageFirst(below, from, offset)' = PageFirst(below, from, offset)
         /\ PageLast(below, from, to, offset)' = PageLast(below, from, to, offset)
         /\ WindowStart(below, from)' = WindowStart(below, from)
         /\ WindowSize' = WindowSize
  <1>1. from \in 0..Len(below) /\ to \in 0..Len(below) /\ offset \in Nat
        /\ below \in Seq(Nat)
    BY WindowBounds DEF head, ScanInv, ScanTypeOK
  <1>2. /\ WindowStart(below', from) = WindowStart(below, from)
        /\ WindowEnd(below', from, to) = WindowEnd(below, from, to)
        /\ PageFirst(below', from, offset) = PageFirst(below, from, offset)
        /\ PageLast(below', from, to, offset) = PageLast(below, from, to, offset)
    BY <1>1, PagesStable
  <1> QED
    BY <1>2 DEF scanVars, WindowSize

\* A new block: the scan goes on in the window it began with.
LEMMA BlockKeepsScanInv ==
  ASSUME ScanInv, NEW S, ops \in Seq(S),
         NEW Content, Content \subseteq S, \A c \in Content : c.level = head + 1,
         AddBlock(Content), UNCHANGED <<lastSeen, scanVars>>
  PROVE  ScanInv'
  <1>1. /\ below' \in Seq(Nat) /\ head' = head + 1 /\ head \in Nat
        /\ \E m \in Nat : below' = Append(below, m)
        /\ Len(ops) \in Nat /\ Len(ops') \in Nat /\ Len(ops) <= Len(ops')
        /\ DOMAIN ops = 1..Len(ops) /\ DOMAIN ops' = 1..Len(ops')
        /\ \A i \in DOMAIN ops : ops'[i] = ops[i]
        /\ \A i \in DOMAIN ops' \ DOMAIN ops : ops'[i].level = head + 1
        /\ Upto(below', head + 1) = Len(ops')
        /\ \A l \in 0..head : Upto(below', l) = Upto(below, l)
    BY BlockAdded DEF head
  <1>2. LevelsInv'
    <2>1. \A i \in DOMAIN ops : ops[i].level \in 1..head
      BY DEF ScanInv, LevelsInv
    <2>2. ASSUME NEW i \in DOMAIN ops' PROVE ops'[i].level \in 1..head + 1
      BY <1>1, <2>1, <2>2
    <2> QED
      BY <1>1, <2>2 DEF LevelsInv
  <1>3. FeedInv'
    <2>1. SUFFICES ASSUME NEW l \in 0..head'
                   PROVE  /\ Upto(below', l) \in 0..Len(ops')
                          /\ \A i \in DOMAIN ops' :
                               i <= Upto(below', l) <=> ops'[i].level <= l
      BY DEF FeedInv
    <2>2. CASE l = head + 1
      BY <1>1, <1>2, <2>2 DEF LevelsInv
    <2>3. CASE l \in 0..head
      <3>1. /\ Upto(below', l) = Upto(below, l) /\ Upto(below, l) \in 0..Len(ops)
            /\ \A i \in DOMAIN ops : i <= Upto(below, l) <=> ops[i].level <= l
        BY <1>1, <2>3 DEF ScanInv, FeedInv
      <3>2. ASSUME NEW i \in DOMAIN ops', i \notin DOMAIN ops
            PROVE  ~(i <= Upto(below', l)) /\ ~(ops'[i].level <= l)
        BY <1>1, <2>3, <3>1, <3>2
      <3> QED
        BY <1>1, <3>1, <3>2
    <2> QED
      BY <1>1, <2>2, <2>3
  <1>4. RunInv' /\ CountInv'
    <2>1. CASE pc = "idle"
      BY <2>1 DEF ScanInv, RunInv, CountInv, scanVars
    <2>2. CASE pc # "idle"
      <3>1. /\ PageFirst(below, from, offset)' = PageFirst(below, from, offset)
            /\ PageLast(below, from, to, offset)' = PageLast(below, from, to, offset)
            /\ WindowStart(below, from)' = WindowStart(below, from)
            /\ WindowSize' = WindowSize
        BY <1>1, <2>2, WindowStable
      <3>2. to \in 0..head
        BY <2>2, WindowBounds
      <3>3. UNCHANGED <<lastSeen, pc, from, to, offset, scanned, cursor, pageEnd>>
        BY DEF scanVars
      <3>4. RunInv'
        BY <1>1, <2>2, <3>1, <3>2, <3>3 DEF ScanInv, RunInv
      <3>5. CountInv'
        BY <2>2, <3>1, <3>3 DEF ScanInv, CountInv
      <3> QED
        BY <3>4, <3>5
    <2> QED
      BY <2>1, <2>2
  <1>5. ScanTypeOK'
    BY <1>1 DEF ScanInv, ScanTypeOK, scanVars
  <1> QED
    BY <1>2, <1>3, <1>4, <1>5 DEF ScanInv

\* A new block brings work above the frontier only.
LEMMA BlockKeepsSwept ==
  ASSUME ScanInv, NEW S, ops \in Seq(S),
         NEW Content, Content \subseteq S, \A c \in Content : c.level = head + 1,
         AddBlock(Content), UNCHANGED <<lastSeen, scanVars>>,
         NEW Done, Swept(Done)
  PROVE  Swept(Done)'
  <1> SUFFICES ASSUME NEW i \in DOMAIN ops', Handled(i)'
               PROVE  i \in Done \/ Frontier' <= ops'[i].level
    BY DEF Swept
  <1>1. Frontier' = Frontier /\ Frontier \in 0..head /\ head \in Nat
    BY LenProperties DEF Frontier, ScanInv, ScanTypeOK, RunInv, head, scanVars
  <1>2. /\ \E m \in Nat : below' = Append(below, m)
        /\ \A j \in DOMAIN ops : ops'[j] = ops[j]
        /\ \A j \in DOMAIN ops' \ DOMAIN ops : ops'[j].level = head + 1
    BY BlockAdded
  <1>3. CASE i \in DOMAIN ops
    <2>1. Handled(i)
      <3>1. CASE pc = "page"
        BY <1>2, <3>1, WindowStable DEF Handled, scanVars
      <3>2. CASE pc # "page"
        BY <3>2 DEF Handled, scanVars
      <3> QED
        BY <3>1, <3>2
    <2> QED
      BY <1>1, <1>2, <1>3, <2>1 DEF Swept
  <1>4. CASE i \notin DOMAIN ops
    BY <1>1, <1>2, <1>4
  <1> QED
    BY <1>3, <1>4

\* The first page of a window is still to be read.
LEMMA BeginKeepsScanInv ==
  ASSUME ScanInv, BeginScan, UNCHANGED <<feedVars, lastSeen>>
  PROVE  ScanInv'
  <1>1. head \in Nat /\ lastSeen \in 0..head /\ lastSeen < head /\ pc = "idle"
        /\ pc' = "page" /\ from' = lastSeen /\ to' = head /\ head' = head
        /\ offset = 0 /\ scanned = 0
        /\ UNCHANGED <<ops, below, lastSeen, offset, scanned, cursor, pageEnd>>
    BY LenProperties
       DEF BeginScan, ScanInv, ScanTypeOK, RunInv, CountInv, head, feedVars
  <1>2. ScanTypeOK' /\ FeedInv' /\ LevelsInv' /\ RunInv'
    BY <1>1 DEF ScanInv, ScanTypeOK, FeedInv, LevelsInv, RunInv
  <1>3. WindowSize' \in Nat
    <2>1. Len(ops) \in Nat /\ \A l \in 0..head : Upto(below, l) \in 0..Len(ops)
      BY DEF ScanInv, FeedInv, LevelsInv
    <2> DEFINE k == IF LevelParam = "eq" THEN lastSeen ELSE head
    <2>2. k \in 0..head /\ lastSeen <= k
      BY <1>1
    <2>3. WindowEnd(below, lastSeen, head) = Upto(below, k)
      BY DEF WindowEnd
    <2> HIDE DEF k
    <2>4. CASE lastSeen = 0
      BY <1>1, <2>1, <2>2, <2>3, <2>4 DEF WindowSize, WindowStart
    <2>5. CASE lastSeen # 0
      <3>1. lastSeen - 1 \in 0..head
        BY <1>1, <2>5
      <3>2. Upto(below, lastSeen - 1) <= Upto(below, k)
        <4>1. SUFFICES ASSUME Upto(below, k) < Upto(below, lastSeen - 1) PROVE FALSE
          BY <2>1, <2>2, <3>1
        <4> DEFINE i == Upto(below, lastSeen - 1)
        <4>2. i \in DOMAIN ops /\ ops[i].level \in Nat
          BY <2>1, <2>2, <3>1, <4>1 DEF ScanInv, LevelsInv
        <4>3. ops[i].level <= lastSeen - 1
          BY <2>1, <3>1, <4>2 DEF ScanInv, FeedInv
        <4>4. ~(ops[i].level <= k)
          BY <2>1, <2>2, <3>1, <4>1, <4>2 DEF ScanInv, FeedInv
        <4> QED
          BY <1>1, <2>2, <4>2, <4>3, <4>4
      <3> QED
        BY <1>1, <2>1, <2>2, <2>3, <2>5, <3>1, <3>2 DEF WindowSize, WindowStart
    <2> QED
      BY <2>4, <2>5
  <1>4. CountInv'
    BY <1>1, <1>3 DEF CountInv
  <1> QED
    BY <1>2, <1>4 DEF ScanInv

\* What lies before the window is below lastSeen, and was dealt with by the
\* runs before this one.
LEMMA BelowLastSeenHandled ==
  ASSUME ScanInv, NEW i \in DOMAIN ops, ops[i].level < lastSeen
  PROVE  Handled(i)
  <1>1. i \in Nat /\ ops[i].level \in Nat \ {0} /\ lastSeen \in 0..head
        /\ head \in Nat /\ offset \in Nat /\ cursor \in Nat
    BY LenProperties DEF ScanInv, ScanTypeOK, LevelsInv, head
  <1>2. CASE pc \notin {"page", "find", "update"}
    BY <1>2 DEF Handled
  <1>3. CASE pc \in {"page", "find", "update"}
    <2>1. from = lastSeen /\ from \in 1..head /\ from - 1 \in 0..head
      BY <1>1, <1>3 DEF ScanInv, RunInv
    <2>2. ops[i].level <= from - 1
      BY <1>1, <2>1
    <2>3. i <= Upto(below, from - 1) /\ Upto(below, from - 1) \in Nat
      BY <2>1, <2>2 DEF ScanInv, FeedInv, LevelsInv
    <2>4. i < PageFirst(below, from, offset)
          /\ PageFirst(below, from, offset) \in Nat
      BY <1>1, <2>1, <2>3 DEF PageFirst, WindowStart
    <2> QED
      BY <1>1, <1>3, <2>4 DEF Handled, ScanInv, RunInv
  <1> QED
    BY <1>2, <1>3

\* An operation after the end of the window is above the level it ends at.
LEMMA AboveWindow ==
  ASSUME ScanInv, pc # "idle", LevelParam = "ge",
         NEW i \in DOMAIN ops, WindowEnd(below, from, to) < i
  PROVE  to < ops[i].level
  <1>1. to \in 0..head /\ i \in Nat /\ ops[i].level \in Nat
    BY WindowBounds DEF ScanInv, LevelsInv
  <1>2. Upto(below, to) \in Nat /\ ~(i <= Upto(below, to))
    BY <1>1 DEF ScanInv, LevelsInv, FeedInv, WindowEnd
  <1> QED
    BY <1>1, <1>2 DEF ScanInv, FeedInv

\* A run begins where the last one ended: nothing below its window is left.
LEMMA BeginKeepsSwept ==
  ASSUME ScanInv, BeginScan, UNCHANGED <<feedVars, lastSeen>>,
         NEW Done, Swept(Done)
  PROVE  Swept(Done)'
  <1>1. SUFFICES ASSUME NEW i \in DOMAIN ops, Handled(i)'
                 PROVE  i \in Done \/ Frontier' <= ops[i].level
    BY DEF Swept, feedVars
  <1>2. /\ lastSeen \in Nat /\ i \in Nat \ {0} /\ ops[i].level \in Nat \ {0}
        /\ lastSeen <= head /\ head \in Nat /\ offset = 0
    BY LenProperties DEF BeginScan, ScanInv, ScanTypeOK, LevelsInv, RunInv, head
  <1>3. i < PageFirst(below, lastSeen, 0)
    BY <1>1, <1>2 DEF Handled, BeginScan, feedVars
  <1>4. ops[i].level < lastSeen
    <2>1. lastSeen # 0 /\ lastSeen - 1 \in 0..head
      BY <1>2, <1>3 DEF PageFirst, WindowStart, head
    <2>2. i <= Upto(below, lastSeen - 1)
      BY <1>2, <1>3, <2>1 DEF PageFirst, WindowStart, ScanInv, FeedInv, LevelsInv
    <2> QED
      BY <1>2, <2>1, <2>2 DEF ScanInv, FeedInv
  <1>5. Handled(i) /\ Frontier = lastSeen
    BY <1>4, BelowLastSeenHandled DEF BeginScan, Frontier
  <1> QED
    BY <1>2, <1>4, <1>5 DEF Swept

\* An empty page: the scan is at the end of its window.  Another one: the
\* cursor is at its first operation.
LEMMA PageKeepsScanInv ==
  ASSUME ScanInv, GetPage, UNCHANGED <<feedVars, lastSeen>>
  PROVE  ScanInv'
  <1> DEFINE ws == WindowStart(below, from)
             we == WindowEnd(below, from, to)
             first == PageFirst(below, from, offset)
             last == PageLast(below, from, to, offset)
  <1>1. pc = "page" /\ UNCHANGED <<ops, below, lastSeen, from, to, offset, head>>
    BY DEF GetPage, feedVars, head
  <1>2. /\ first \in Nat \ {0} /\ last \in Nat /\ ws \in Nat /\ we \in Nat
        /\ offset \in Nat /\ scanned = offset /\ offset <= we - ws
        /\ WindowSize = we - ws /\ Batch \in Nat \ {0}
    BY <1>1, WindowBounds, BatchAssumption
       DEF ScanInv, CountInv, WindowSize, LevelsInv
  <1>3. /\ first = ws + offset + 1
        /\ last = IF ws + offset + Batch <= we THEN ws + offset + Batch ELSE we
    BY DEF PageFirst, PageLast
  <1>4. FeedInv' /\ LevelsInv'
    BY <1>1 DEF ScanInv, FeedInv, LevelsInv
  <1>5. CASE last < first
    <2>1. pc' = "finish" /\ UNCHANGED <<scanned, cursor, pageEnd>>
      BY <1>2, <1>5 DEF GetPage
    <2>2. scanned = WindowSize
      BY <1>2, <1>3, <1>5
    <2> QED
      BY <1>1, <1>4, <2>1, <2>2
         DEF ScanInv, ScanTypeOK, RunInv, CountInv, WindowSize
  <1>6. CASE first <= last
    <2>1. /\ pc' = "find" /\ scanned' = scanned + (last - first + 1)
          /\ cursor' = first /\ pageEnd' = last
      BY <1>2, <1>6 DEF GetPage
    <2>2. scanned' = last - ws /\ scanned' \in Nat
      BY <1>2, <1>3, <1>6, <2>1
    <2>3. ScanTypeOK' /\ RunInv'
      BY <1>1, <1>2, <1>6, <2>1, <2>2 DEF ScanInv, ScanTypeOK, RunInv
    <2>4. CountInv'
      BY <1>1, <2>1, <2>2 DEF CountInv
    <2> QED
      BY <1>4, <2>3, <2>4 DEF ScanInv
  <1> QED
    BY <1>2, <1>5, <1>6

\* After an empty page the operations that are left are above the window.
LEMMA PageKeepsSwept ==
  ASSUME ScanInv, LevelParam = "ge", GetPage, UNCHANGED <<feedVars, lastSeen>>,
         NEW Done, Swept(Done)
  PROVE  Swept(Done)'
  <1> DEFINE first == PageFirst(below, from, offset)
             last  == PageLast(below, from, to, offset)
  <1>1. pc = "page" /\ Frontier = to /\ to \in Nat
        /\ UNCHANGED <<ops, below, from, to, offset, Frontier>>
    BY DEF GetPage, feedVars, Frontier, ScanInv, ScanTypeOK
  <1>2. SUFFICES ASSUME NEW i \in DOMAIN ops, Handled(i)'
                 PROVE  i \in Done \/ to <= ops[i].level
    BY <1>1 DEF Swept
  <1>3. CASE i < first
    BY <1>1, <1>3 DEF Swept, Handled
  <1>4. CASE ~(i < first)
    <2>1. last < first
      BY <1>2, <1>4 DEF GetPage, Handled
    <2>2. WindowEnd(below, from, to) < i
      <3>1. /\ first \in Nat /\ last \in Nat /\ WindowStart(below, from) \in Nat
            /\ WindowEnd(below, from, to) \in Nat /\ i \in Nat
            /\ offset \in Nat /\ Batch \in Nat \ {0}
        BY <1>1, WindowBounds, BatchAssumption DEF ScanInv, LevelsInv
      <3>2. ~(WindowStart(below, from) + offset + Batch < first)
        BY <3>1 DEF PageFirst
      <3>3. last = WindowEnd(below, from, to)
        BY <2>1, <3>1, <3>2 DEF PageLast
      <3> QED
        BY <1>4, <2>1, <3>1, <3>3
    <2>3. to < ops[i].level /\ ops[i].level \in Nat
      BY <1>1, <2>2, AboveWindow DEF ScanInv, LevelsInv
    <2> QED
      BY <1>1, <2>3
  <1> QED
    BY <1>3, <1>4

\* The body of the loop goes on to its second await.
LEMMA UpdateKeepsScanInv ==
  ASSUME ScanInv, pc = "find", pc' = "update",
         UNCHANGED <<feedVars, lastSeen, from, to, offset, scanned, cursor, pageEnd>>
  PROVE  ScanInv' /\ (\A D : Swept(D) => Swept(D)')
  BY DEF ScanInv, ScanTypeOK, FeedInv, LevelsInv, RunInv, CountInv, WindowSize,
         Swept, Handled, Frontier, feedVars, head

\* The outcomes of NextOp: the next operation of the page, the end after the
\* page that ends the window, the next page after a full one.
Turn ==
  LET ws == WindowStart(below, from)
      we == WindowEnd(below, from, to)
  IN \/ /\ cursor < pageEnd /\ pc' = "find" /\ cursor' = cursor + 1
        /\ UNCHANGED <<offset, pageEnd>>
     \/ /\ cursor = pageEnd /\ pageEnd = we /\ pc' = "finish"
        /\ cursor' = 0 /\ pageEnd' = 0 /\ UNCHANGED offset
     \/ /\ cursor = pageEnd /\ pageEnd = ws + offset + Batch /\ pageEnd <= we
        /\ pc' = "page" /\ cursor' = 0 /\ pageEnd' = 0 /\ offset' = offset + Batch

\* What holds in the body of the loop.
InBody ==
  /\ cursor \in Nat /\ pageEnd \in Nat /\ offset \in Nat /\ Batch \in Nat \ {0}
  /\ from = lastSeen /\ from < to /\ to <= head
  /\ PageFirst(below, from, offset) <= cursor /\ cursor <= pageEnd
  /\ pageEnd = PageLast(below, from, to, offset)
  /\ PageFirst(below, from, offset) \in Nat
  /\ WindowStart(below, from) \in Nat /\ WindowEnd(below, from, to) \in Nat
  /\ WindowSize = WindowEnd(below, from, to) - WindowStart(below, from)
  /\ scanned = pageEnd - WindowStart(below, from)

\* A short page is the last one of the window, and a full one is inside it.
LEMMA NextOpCases ==
  ASSUME ScanInv, pc \in {"find", "update"}, NextOp
  PROVE  Turn /\ InBody /\ UNCHANGED <<from, to, scanned>>
  <1> DEFINE ws == WindowStart(below, from)
             we == WindowEnd(below, from, to)
  <1>1. InBody
    BY WindowBounds, BatchAssumption
       DEF ScanInv, ScanTypeOK, RunInv, CountInv, WindowSize, LevelsInv, InBody
  <1>2. /\ pageEnd = IF ws + offset + Batch <= we THEN ws + offset + Batch ELSE we
        /\ LastPage <=> pageEnd - (ws + offset + 1) + 1 < Batch
    BY <1>1 DEF PageLast, LastPage, PageFirst, InBody
  <1>3. UNCHANGED <<from, to, scanned>>
    BY DEF NextOp
  <1>4. CASE cursor < pageEnd
    BY <1>1, <1>3, <1>4 DEF NextOp, Turn, InBody
  <1> HIDE DEF ws, we
  <1>5. LastPage => pageEnd = we
    BY <1>1, <1>2 DEF InBody, ws, we
  <1>6. ~LastPage => pageEnd = ws + offset + Batch /\ pageEnd <= we
    BY <1>1, <1>2 DEF InBody, ws, we
  <1>7. CASE cursor = pageEnd /\ LastPage
    <2>1. pc' = "finish" /\ LeavePage /\ UNCHANGED offset
      BY <1>1, <1>7 DEF NextOp, InBody
    <2> QED
      BY <1>1, <1>3, <1>5, <1>7, <2>1 DEF LeavePage, Turn, ws, we
  <1>8. CASE cursor = pageEnd /\ ~LastPage
    <2>1. pc' = "page" /\ LeavePage /\ offset' = offset + Batch
      BY <1>1, <1>8 DEF NextOp, InBody
    <2> QED
      BY <1>1, <1>3, <1>6, <1>8, <2>1 DEF LeavePage, Turn, ws, we
  <1> QED
    BY <1>1, <1>3, <1>4, <1>7, <1>8 DEF InBody

\* The next operation of the page, the next page, or the end of the window.
LEMMA NextOpKeepsScanInv ==
  ASSUME ScanInv, pc \in {"find", "update"}, NextOp, UNCHANGED <<feedVars, lastSeen>>
  PROVE  ScanInv'
  <1>1. Turn /\ InBody /\ UNCHANGED <<from, to, scanned>>
    BY NextOpCases
  <1>2. UNCHANGED <<ops, below, lastSeen, head>>
    BY DEF feedVars, head
  <1>3. UNCHANGED <<WindowStart(below, from), WindowSize>>
    BY <1>1, <1>2 DEF WindowSize
  <1>4. FeedInv' /\ LevelsInv'
    BY <1>2 DEF ScanInv, FeedInv, LevelsInv
  <1>5. ScanTypeOK'
    <2>1. cursor' \in Nat /\ pageEnd' \in Nat /\ offset' \in Nat
          /\ pc' \in {"find", "finish", "page"}
      BY <1>1 DEF Turn, InBody
    <2> QED
      BY <1>1, <1>2, <2>1 DEF ScanInv, ScanTypeOK
  <1>6. RunInv' /\ CountInv'
    <2>1. CASE pc' = "find"
      <3>1. cursor < pageEnd /\ cursor' = cursor + 1 /\ UNCHANGED <<offset, pageEnd>>
        BY <1>1, <2>1 DEF Turn
      <3> QED
        BY <1>1, <1>2, <1>3, <2>1, <3>1 DEF RunInv, CountInv, InBody
    <2>2. CASE pc' # "find"
      BY <1>1, <1>2, <1>3, <2>2 DEF RunInv, CountInv, Turn, InBody
    <2> QED
      BY <2>1, <2>2
  <1> QED
    BY <1>4, <1>5, <1>6 DEF ScanInv

\* When the operation under the cursor is done too, the scan may go on.
LEMMA NextOpKeepsSwept ==
  ASSUME ScanInv, LevelParam = "ge", pc \in {"find", "update"}, NextOp,
         UNCHANGED <<feedVars, lastSeen>>,
         NEW Done, Swept(Done), NEW c, c = cursor, NEW Done2, c \in Done2,
         \A i \in DOMAIN ops : i \in Done => i \in Done2
  PROVE  Swept(Done2)'
  <1>1. Turn /\ InBody /\ UNCHANGED <<from, to>>
    BY NextOpCases
  <1>2. /\ UNCHANGED <<ops, below>> /\ Frontier = to /\ Frontier' = to
        /\ to \in Nat /\ DOMAIN ops \subseteq Nat
        /\ \A i \in DOMAIN ops : ops[i].level \in Nat
    BY <1>1 DEF feedVars, Frontier, Turn, ScanInv, ScanTypeOK, LevelsInv
  <1> SUFFICES ASSUME NEW i \in DOMAIN ops, Handled(i)'
               PROVE  i \in Done2 \/ to <= ops[i].level
    BY <1>2 DEF Swept
  <1>3. CASE i < cursor
    BY <1>2, <1>3 DEF Swept, Handled
  <1>4. CASE i = cursor
    BY <1>4
  <1>5. CASE cursor < i
    <2>1. pc' = "finish" /\ pageEnd = WindowEnd(below, from, to) /\ cursor = pageEnd
      <3>1. CASE pc' = "find"
        BY <1>1, <1>2, <1>5, <3>1 DEF Handled, Turn, InBody
      <3>2. CASE pc' = "page"
        <4>1. i < PageFirst(below, from, offset + Batch)
          BY <1>1, <1>2, <3>2 DEF Handled, Turn
        <4>2. PageFirst(below, from, offset + Batch)
                = WindowStart(below, from) + (offset + Batch) + 1
          BY DEF PageFirst
        <4> QED
          BY <1>1, <1>2, <1>5, <3>2, <4>1, <4>2 DEF Turn, InBody
      <3> QED
        BY <1>1, <3>1, <3>2 DEF Turn
    <2>2. to < ops[i].level
      BY <1>5, <2>1, AboveWindow
    <2> QED
      BY <1>2, <2>2
  <1> QED
    BY <1>1, <1>2, <1>3, <1>4, <1>5 DEF InBody

\* A run that fails leaves lastSeen where it was.
LEMMA EndKeepsScanInv ==
  ASSUME ScanInv, EndScan, UNCHANGED <<feedVars, lastSeen>>
  PROVE  ScanInv'
  BY DEF EndScan, ScanInv, ScanTypeOK, FeedInv, LevelsInv, RunInv, CountInv,
         feedVars, head

\* It hands back every operation below lastSeen as done: the levels below
\* lastSeen were before its window.
LEMMA EndKeepsSwept ==
  ASSUME ScanInv, pc # "idle", EndScan, UNCHANGED <<feedVars, lastSeen>>,
         NEW Done, Swept(Done)
  PROVE  Swept(Done)'
  <1> SUFFICES ASSUME NEW i \in DOMAIN ops, ops[i].level < lastSeen
               PROVE  i \in Done
    <2>1. Frontier' = lastSeen /\ lastSeen \in Nat /\ ops' = ops
      BY DEF EndScan, Frontier, ScanInv, ScanTypeOK, feedVars
    <2>2. \A i \in DOMAIN ops : ops[i].level \in Nat
      BY DEF ScanInv, LevelsInv
    <2> QED
      BY <2>1, <2>2 DEF Swept
  <1>1. Frontier = to /\ lastSeen < to /\ to \in Nat /\ lastSeen \in Nat
        /\ ops[i].level \in Nat
    BY DEF Frontier, ScanInv, RunInv, ScanTypeOK, LevelsInv
  <1>2. Handled(i)
    BY BelowLastSeenHandled
  <1> QED
    BY <1>1, <1>2 DEF Swept

\* setLastSeen moves lastSeen to the end of a window that has been scanned.
LEMMA SaveKeepsScanInv ==
  ASSUME ScanInv, SaveLevel, UNCHANGED feedVars
  PROVE  ScanInv' /\ (\A D : Swept(D) => Swept(D)')
  <1>1. head \in Nat /\ lastSeen \in 0..head /\ to \in 0..head /\ lastSeen < to
        /\ pc = "finish" /\ lastSeen' \in {lastSeen, to}
        /\ pc' = "idle" /\ UNCHANGED <<ops, below, head>>
    BY LenProperties DEF SaveLevel, EndScan, ScanInv, ScanTypeOK, RunInv, feedVars, head
  <1>2. ScanInv'
    BY <1>1 DEF SaveLevel, EndScan, ScanInv, ScanTypeOK, FeedInv, LevelsInv,
                RunInv, CountInv
  <1>3. \A D : Swept(D) => Swept(D)'
    <2>1. Frontier = to /\ Frontier' = lastSeen'
      BY <1>1 DEF Frontier
    <2>2. \A i \in DOMAIN ops : Handled(i) /\ ops[i].level \in Nat
      BY <1>1 DEF Handled, ScanInv, LevelsInv
    <2> QED
      BY <1>1, <2>1, <2>2 DEF Swept
  <1> QED
    BY <1>2, <1>3

\* What a run leaves behind at the levels below lastSeen is done.
LEMMA SweptBelowLastSeen ==
  ASSUME ScanInv, NEW Done, Swept(Done),
         NEW i \in DOMAIN ops, ops[i].level < lastSeen
  PROVE  i \in Done
  <1>1. Handled(i)
    BY BelowLastSeenHandled
  <1>2. lastSeen <= Frontier /\ lastSeen \in Nat /\ Frontier \in Nat
        /\ ops[i].level \in Nat
    BY DEF ScanInv, ScanTypeOK, RunInv, LevelsInv, Frontier
  <1> QED
    BY <1>1, <1>2 DEF Swept
=============================================================================

----------------------------- MODULE LoggerProofs -----------------------------
(***************************************************************************)
(* Proofs about Logger, for any number of goroutines, buffers, lines and   *)
(* midnights, and any size of the writer.                                  *)
(***************************************************************************)
EXTENDS Logger, SequenceTheorems, TLAPS

-----------------------------------------------------------------------------
(***************************************************************************)
(* Facts about sequences of lines.                                         *)
(***************************************************************************)

\* What a sequence of lines has.
LEMMA ElementsAreLines == \A s \in Seq(Nat) : Elements(s) \subseteq Nat
  BY DEF Elements

\* The lines of a sequence that is longer by one, ...
LEMMA ElementsAppend ==
    ASSUME NEW s \in Seq(Nat), NEW x \in Nat
    PROVE  Elements(Append(s, x)) = Elements(s) \cup {x}
  <1>1. /\ DOMAIN Append(s, x) = 1 .. (Len(s) + 1) /\ DOMAIN s = 1 .. Len(s) /\ Len(s) \in Nat
        /\ \A i \in 1 .. Len(s) : Append(s, x)[i] = s[i]
        /\ Append(s, x)[Len(s) + 1] = x
    BY AppendProperties, LenProperties
  <1>2. 1 .. (Len(s) + 1) = 1 .. Len(s) \cup {Len(s) + 1}
    BY <1>1
  <1> QED  BY <1>1, <1>2 DEF Elements

\* ... of one after the other, ...
LEMMA ElementsConcat ==
    ASSUME NEW s \in Seq(Nat), NEW t \in Seq(Nat)
    PROVE  Elements(s \o t) = Elements(s) \cup Elements(t)
  <1>1. /\ DOMAIN (s \o t) = 1 .. (Len(s) + Len(t)) /\ DOMAIN s = 1 .. Len(s)
        /\ DOMAIN t = 1 .. Len(t) /\ Len(s) \in Nat /\ Len(t) \in Nat
        /\ \A i \in 1 .. Len(s) + Len(t) :
              (s \o t)[i] = IF i <= Len(s) THEN s[i] ELSE t[i - Len(s)]
    BY ConcatProperties, LenProperties
  <1>2. ASSUME NEW i \in 1 .. Len(s) PROVE s[i] \in Elements(s \o t)
    BY <1>1, <1>2 DEF Elements
  <1>3. ASSUME NEW i \in 1 .. Len(t) PROVE t[i] \in Elements(s \o t)
    <2>1. Len(s) + i \in 1 .. Len(s) + Len(t) /\ (s \o t)[Len(s) + i] = t[i]
      BY <1>1
    <2> QED  BY <1>1, <2>1 DEF Elements
  <1>4. ASSUME NEW i \in 1 .. Len(s) + Len(t)
        PROVE  (s \o t)[i] \in Elements(s) \cup Elements(t)
    <2>1. CASE i <= Len(s)
      <3>1. i \in 1 .. Len(s)
        BY <1>1, <2>1
      <3>2. (s \o t)[i] = s[i]
        BY <1>1, <2>1
      <3> QED  BY <1>1, <3>1, <3>2, Zenon DEF Elements
    <2>2. CASE ~(i <= Len(s))
      <3>1. i - Len(s) \in 1 .. Len(t)
        BY <1>1, <2>2
      <3> QED  BY <1>1, <2>2, <3>1 DEF Elements
    <2> QED  BY <2>1, <2>2
  <1> QED  BY <1>1, <1>2, <1>3, <1>4 DEF Elements

\* ... and of none.
LEMMA ElementsEmpty ==
    /\ Elements(<<>>) = {}
    /\ \A s \in Seq(Nat) : s # <<>> => Elements(s) # {}
  <1>1. Elements(<<>>) = {}
    BY DEF Elements
  <1>2. ASSUME NEW s \in Seq(Nat), s # <<>> PROVE Elements(s) # {}
    <2>1. 1 \in DOMAIN s
      BY <1>2, EmptySeq, LenProperties
    <2> QED  BY <2>1 DEF Elements
  <1> QED  BY <1>1, <1>2

\* A flush cuts what the writer holds in two.
LEMMA Cut ==
    ASSUME NEW s \in Seq(Nat), NEW n \in 0 .. Len(s)
    PROVE  /\ SubSeq(s, 1, n) \in Seq(Nat) /\ SubSeq(s, n + 1, Len(s)) \in Seq(Nat)
           /\ SubSeq(s, 1, n) \o SubSeq(s, n + 1, Len(s)) = s
           /\ Len(SubSeq(s, n + 1, Len(s))) = Len(s) - n
           /\ n = Len(s) => SubSeq(s, 1, n) = s /\ SubSeq(s, n + 1, Len(s)) = <<>>
           /\ n < Len(s) => SubSeq(s, n + 1, Len(s)) # <<>>
  <1>1. Len(s) \in Nat /\ \A i \in 1 .. Len(s) : s[i] \in Nat
    BY LenProperties, ElementOfSeq
  <1>2. SubSeq(s, 1, n) \in Seq(Nat)
    BY <1>1, SubSeqProperties
  <1>3. /\ SubSeq(s, n + 1, Len(s)) \in Seq(Nat)
        /\ Len(SubSeq(s, n + 1, Len(s))) = Len(s) - n
    <2>1. n + 1 \in Int /\ Len(s) \in Int /\ \A i \in (n + 1) .. Len(s) : s[i] \in Nat
      BY <1>1
    <2> QED  BY <1>1, <2>1, SubSeqProperties
  <1>4. SubSeq(s, 1, n) \o SubSeq(s, n + 1, Len(s)) = s
    <2>1. /\ 1 \in 1 .. Len(s) + 1 /\ n \in 1 - 1 .. Len(s) /\ Len(s) \in n .. Len(s)
      BY <1>1
    <2> QED  BY <2>1, ConcatAdjacentSubSeq, SubSeqFull
  <1>5. n = Len(s) => SubSeq(s, 1, n) = s /\ SubSeq(s, n + 1, Len(s)) = <<>>
    BY <1>1, SubSeqFull, SubSeqEmpty
  <1>6. n < Len(s) => SubSeq(s, n + 1, Len(s)) # <<>>
    <2>1. Len(<<>>) = 0
      BY EmptySeq
    <2>2. n < Len(s) => Len(SubSeq(s, n + 1, Len(s))) # 0
      BY <1>1, <1>3
    <2> QED  BY <2>1, <2>2
  <1> QED  BY <1>2, <1>3, <1>4, <1>5, <1>6

\* What begins with certain lines still does when lines are added.
LEMMA PrefixKept ==
    ASSUME NEW a \in Seq(Nat), NEW d \in Seq(Nat), NEW t \in Seq(Nat),
           Len(a) <= Len(d), SubSeq(d, 1, Len(a)) = a
    PROVE  Len(a) <= Len(d \o t) /\ SubSeq(d \o t, 1, Len(a)) = a
  <1>1. Len(a) \in Nat /\ Len(d) \in Nat /\ Len(t) \in Nat /\ Len(d \o t) = Len(d) + Len(t)
    BY LenProperties, ConcatProperties
  <1>2. CASE Len(a) = 0
    BY <1>1, <1>2, SubSeqEmpty, EmptySeq
  <1>3. CASE Len(a) # 0
    <2>1. 1 \in 1 .. Len(d) /\ Len(a) \in 1 .. Len(d)
      BY <1>1, <1>3
    <2> QED  BY <1>1, <2>1, SubSeqOfConcat1
  <1> QED  BY <1>1, <1>2, <1>3

\* What a flush of the writer may do: write all, or fail after some of it.
LEMMA FlushFacts ==
    ASSUME failed \in BOOLEAN, NEW s \in Seq(Nat), NEW o \in FlushOutcomes(s)
    PROVE  /\ o.n \in 0 .. Len(s) /\ o.bad \in BOOLEAN
           /\ ~o.bad => o.n = Len(s) /\ ~failed
           /\ o.bad => failed \/ o.n < Len(s)
           /\ failed => o.n = 0 /\ o.bad
  <1>1. Len(s) \in Nat
    BY LenProperties
  <1>2. CASE failed
    <2>1. o = [n |-> 0, bad |-> TRUE]
      BY <1>2 DEF FlushOutcomes
    <2> QED  BY <1>1, <1>2, <2>1
  <1>3. CASE ~failed
    <2>1. \/ o = [n |-> Len(s), bad |-> FALSE]
          \/ \E k \in 0 .. (Len(s) - 1) : o = [n |-> k, bad |-> TRUE]
      BY <1>3 DEF FlushOutcomes
    <2>2. CASE o = [n |-> Len(s), bad |-> FALSE]
      BY <1>1, <1>3, <2>2
    <2>3. CASE \E k \in 0 .. (Len(s) - 1) : o = [n |-> k, bad |-> TRUE]
      BY <1>1, <1>3, <2>3
    <2> QED  BY <2>1, <2>2, <2>3
  <1> QED  BY <1>2, <1>3

-----------------------------------------------------------------------------
(***************************************************************************)
(* The writer: what holds of it, and what a step may do to it.             *)
(***************************************************************************)

WriterOK ==
    /\ disk \in Seq(Nat) /\ buf \in Seq(Nat) /\ accepted \in Seq(Nat)
    /\ failed \in BOOLEAN /\ dropped \subseteq Nat
    /\ Len(buf) <= BufSize /\ FailInv /\ LinesKept

\* Files only grow, no accepted line is forgotten, and a writer that failed
\* is replaced only at the price of lines.
WriterMoves ==
    /\ \E t \in Seq(Nat) : disk' = disk \o t
    /\ Elements(accepted) \subseteq Elements(accepted')
    /\ dropped \subseteq dropped'
    /\ failed /\ ~failed' => dropped' # {}

\* What is known of the writer, with its definitions expanded.
LEMMA WriterFacts ==
    ASSUME WriterOK
    PROVE  /\ disk \in Seq(Nat) /\ buf \in Seq(Nat) /\ accepted \in Seq(Nat)
           /\ failed \in BOOLEAN /\ dropped \subseteq Nat
           /\ Len(buf) \in Nat /\ Len(buf) <= BufSize /\ BufSize \in Nat /\ 1 <= BufSize
           /\ failed => buf # <<>>
           /\ dropped = {} => accepted = disk \o buf
           /\ Elements(accepted) = Elements(disk) \cup Elements(buf) \cup dropped
  <1>1. BufSize \in Nat /\ 1 <= BufSize
    BY LoggerAssumption
  <1>2. /\ disk \in Seq(Nat) /\ buf \in Seq(Nat) /\ accepted \in Seq(Nat)
        /\ failed \in BOOLEAN /\ dropped \subseteq Nat
        /\ Len(buf) <= BufSize
    BY DEF WriterOK
  <1>3. Len(buf) \in Nat
    BY <1>2, LenProperties
  <1> QED  BY <1>1, <1>2, <1>3 DEF WriterOK, FailInv, LinesKept

\* A step that does not touch the writer.
LEMMA WriterRests ==
    ASSUME WriterOK, UNCHANGED writerVars
    PROVE  WriterOK' /\ WriterMoves
  <1>1. UNCHANGED <<disk, buf, failed, accepted, dropped>>
    BY DEF writerVars
  <1>2. disk' = disk \o <<>> /\ <<>> \in Seq(Nat)
    BY <1>1, ConcatEmptySeq, EmptySeq DEF WriterOK
  <1>3. WriterMoves
    BY <1>1, <1>2 DEF WriterMoves
  <1> QED  BY <1>1, <1>3 DEF WriterOK, FailInv, LinesKept

\* A flush writes the lines the writer holds up to some point.  It fails
\* exactly when lines are left.
LEMMA FlushSplits ==
    ASSUME WriterOK, NEW o \in FlushOutcomes(buf)
    PROVE  \E front, back \in Seq(Nat) :
              /\ SubSeq(buf, 1, o.n) = front /\ SubSeq(buf, o.n + 1, Len(buf)) = back
              /\ front \o back = buf /\ Len(back) <= Len(buf)
              /\ o.bad \in BOOLEAN
              /\ o.bad <=> back # <<>>
              /\ failed => o.bad
  <1> DEFINE front == SubSeq(buf, 1, o.n)
             back == SubSeq(buf, o.n + 1, Len(buf))
  <1>1. buf \in Seq(Nat) /\ Len(buf) \in Nat /\ failed \in BOOLEAN /\ (failed => buf # <<>>)
    BY WriterFacts
  <1>2. /\ o.n \in 0 .. Len(buf) /\ o.bad \in BOOLEAN
        /\ ~o.bad => o.n = Len(buf) /\ ~failed
        /\ o.bad => failed \/ o.n < Len(buf)
        /\ failed => o.n = 0 /\ o.bad
    BY <1>1, FlushFacts
  <1>3. /\ front \in Seq(Nat) /\ back \in Seq(Nat) /\ front \o back = buf
        /\ Len(back) = Len(buf) - o.n
        /\ o.n = Len(buf) => back = <<>>
        /\ o.n < Len(buf) => back # <<>>
    BY <1>1, <1>2, Cut
  <1> HIDE DEF front, back
  <1>4. Len(back) <= Len(buf)
    BY <1>1, <1>2, <1>3
  <1>5. failed => o.n < Len(buf)
    <2>1. failed => Len(buf) # 0
      BY <1>1, EmptySeq
    <2> QED  BY <1>1, <1>2, <2>1
  <1>6. o.bad <=> back # <<>>
    BY <1>2, <1>3, <1>5
  <1>7. /\ SubSeq(buf, 1, o.n) = front /\ SubSeq(buf, o.n + 1, Len(buf)) = back
    BY DEF front, back
  <1> QED  BY <1>2, <1>3, <1>4, <1>6, <1>7

\* Lines put one after the other, in either grouping.
LEMMA Associates ==
    \A a, b, c \in Seq(Nat) : (a \o b) \o c = a \o (b \o c)
  BY ConcatAssociative, SMTT(30)

\* Nothing put after lines.
LEMMA EmptyAfter == \A a \in Seq(Nat) : a \o <<>> = a
  BY ConcatEmptySeq

\* Where the lines are after a flush.
LEMMA SplitFacts ==
    ASSUME WriterOK, NEW front \in Seq(Nat), NEW back \in Seq(Nat)
    PROVE  front \o back = buf =>
           /\ disk \o front \in Seq(Nat)
           /\ Elements(disk \o front) = Elements(disk) \cup Elements(front)
           /\ Elements(buf) = Elements(front) \cup Elements(back)
           /\ (disk \o front) \o back = disk \o buf
           /\ back = <<>> => front = buf
  <1>1. disk \in Seq(Nat) /\ buf \in Seq(Nat)
    BY WriterFacts
  <1>2. disk \o front \in Seq(Nat)
    BY <1>1, ConcatProperties
  <1>3. Elements(disk \o front) = Elements(disk) \cup Elements(front)
    BY <1>1, ElementsConcat
  <1>4. Elements(front \o back) = Elements(front) \cup Elements(back)
    BY ElementsConcat
  <1>5. (disk \o front) \o back = disk \o (front \o back)
    BY <1>1, Associates, ZenonT(60)
  <1>6. back = <<>> => front \o back = front
    BY ConcatEmptySeq
  <1> QED  BY <1>2, <1>3, <1>4, <1>5, <1>6

\* A sequence of one line.
LEMMA OneLine ==
    ASSUME NEW s \in Seq(Nat), NEW line \in Nat
    PROVE  /\ <<line>> \in Seq(Nat) /\ Len(<<line>>) = 1 /\ Elements(<<line>>) = {line}
           /\ Append(s, line) = s \o <<line>>
  <1>1. <<line>> \in Seq(Nat) /\ Len(<<line>>) = 1 /\ DOMAIN <<line>> = {1} /\ <<line>>[1] = line
    OBVIOUS
  <1>2. Elements(<<line>>) = {line}
    BY <1>1 DEF Elements
  <1>3. Append(s, line) = s \o <<line>>
    BY AppendIsConcat
  <1> QED  BY <1>1, <1>2, <1>3

\* writer.Write(line) when there is room: the line goes behind the lines
\* the writer holds.
LEMMA WriteBuffers ==
    ASSUME WriterOK, NEW line \in Nat,
           accepted' = Append(accepted, line), Len(buf) < BufSize, ~failed,
           buf' = Append(buf, line), UNCHANGED <<disk, failed, dropped>>
    PROVE  WriterOK' /\ WriterMoves
  <1>1. /\ disk \in Seq(Nat) /\ buf \in Seq(Nat) /\ accepted \in Seq(Nat)
        /\ failed \in BOOLEAN /\ dropped \subseteq Nat
        /\ Len(buf) \in Nat /\ BufSize \in Nat
        /\ dropped = {} => accepted = disk \o buf
        /\ Elements(accepted) = Elements(disk) \cup Elements(buf) \cup dropped
    BY WriterFacts
  <1>2. /\ accepted' \in Seq(Nat) /\ Elements(accepted') = Elements(accepted) \cup {line}
    BY <1>1, AppendProperties, ElementsAppend
  <1>3. /\ buf' \in Seq(Nat) /\ Len(buf') = Len(buf) + 1
        /\ Elements(buf') = Elements(buf) \cup {line}
    BY <1>1, AppendProperties, ElementsAppend
  <1>4. Append(disk \o buf, line) = disk \o Append(buf, line)
    <2>1. disk \o buf \in Seq(Nat) /\ <<line>> \in Seq(Nat)
      BY <1>1, ConcatProperties, OneLine
    <2>2. Append(disk \o buf, line) = (disk \o buf) \o <<line>>
      BY <2>1, OneLine
    <2>3. Append(buf, line) = buf \o <<line>>
      BY <1>1, OneLine
    <2>4. (disk \o buf) \o <<line>> = disk \o (buf \o <<line>>)
      BY <1>1, <2>1, Associates, ZenonT(60)
    <2> QED  BY <2>2, <2>3, <2>4
  <1>5. LinesKept'
    BY <1>1, <1>2, <1>3, <1>4 DEF LinesKept
  <1>6. disk' = disk \o <<>> /\ <<>> \in Seq(Nat)
    BY <1>1, ConcatEmptySeq, EmptySeq
  <1>7. WriterMoves
    BY <1>2, <1>6 DEF WriterMoves
  <1>8. Len(buf') <= BufSize
    BY <1>1, <1>3
  <1>9. FailInv'
    BY DEF FailInv
  <1> QED  BY <1>1, <1>2, <1>3, <1>5, <1>7, <1>8, <1>9 DEF WriterOK

\* writer.Write(line) when it flushes, and the flush fails: the line is lost.
LEMMA WriteFails ==
    ASSUME WriterOK, NEW line \in Nat, accepted' = Append(accepted, line),
           NEW front \in Seq(Nat), NEW back \in Seq(Nat), front \o back = buf,
           back # <<>>, Len(back) <= Len(buf),
           disk' = disk \o front, buf' = back, failed' = TRUE, dropped' = dropped \cup {line}
    PROVE  WriterOK' /\ WriterMoves
  <1>1. /\ disk \in Seq(Nat) /\ buf \in Seq(Nat) /\ accepted \in Seq(Nat)
        /\ dropped \subseteq Nat
        /\ Len(buf) \in Nat /\ Len(buf) <= BufSize /\ BufSize \in Nat
        /\ Elements(accepted) = Elements(disk) \cup Elements(buf) \cup dropped
    BY WriterFacts
  <1>2. /\ accepted' \in Seq(Nat) /\ Elements(accepted') = Elements(accepted) \cup {line}
    BY <1>1, AppendProperties, ElementsAppend
  <1>3. /\ disk' \in Seq(Nat) /\ Elements(disk') = Elements(disk) \cup Elements(front)
        /\ Elements(buf) = Elements(front) \cup Elements(buf')
    BY SplitFacts
  <1>4. LinesKept'
    BY <1>1, <1>2, <1>3 DEF LinesKept
  <1>5. WriterMoves
    BY <1>2 DEF WriterMoves
  <1>6. Len(buf') <= BufSize
    <2>1. Len(back) \in Nat
      BY LenProperties
    <2> QED  BY <1>1, <2>1
  <1>7. FailInv' /\ failed' \in BOOLEAN /\ buf' \in Seq(Nat) /\ dropped' \subseteq Nat
    BY <1>1 DEF FailInv
  <1> QED  BY <1>2, <1>3, <1>4, <1>5, <1>6, <1>7 DEF WriterOK

\* ... and when the flush makes room for it.
LEMMA WriteFlushes ==
    ASSUME WriterOK, NEW line \in Nat, accepted' = Append(accepted, line), ~failed,
           disk' = disk \o buf, buf' = <<line>>, failed' = FALSE, dropped' = dropped
    PROVE  WriterOK' /\ WriterMoves
  <1>1. /\ disk \in Seq(Nat) /\ buf \in Seq(Nat) /\ accepted \in Seq(Nat)
        /\ dropped \subseteq Nat /\ BufSize \in Nat /\ 1 <= BufSize
        /\ dropped = {} => accepted = disk \o buf
        /\ Elements(accepted) = Elements(disk) \cup Elements(buf) \cup dropped
    BY WriterFacts
  <1>2. /\ accepted' \in Seq(Nat) /\ Elements(accepted') = Elements(accepted) \cup {line}
        /\ accepted' = accepted \o <<line>>
    BY <1>1, AppendProperties, ElementsAppend, OneLine
  <1>3. Elements(buf') = {line} /\ Len(buf') = 1 /\ buf' \in Seq(Nat)
    BY <1>1, OneLine
  <1>4. Elements(disk') = Elements(disk) \cup Elements(buf) /\ disk' \in Seq(Nat)
    BY <1>1, ElementsConcat, ConcatProperties
  <1>5. LinesKept'
    BY <1>1, <1>2, <1>3, <1>4 DEF LinesKept
  <1>6. WriterMoves
    BY <1>1, <1>2 DEF WriterMoves
  <1>7. Len(buf') <= BufSize
    BY <1>1, <1>3
  <1>8. FailInv' /\ failed' \in BOOLEAN
    BY DEF FailInv
  <1> QED  BY <1>1, <1>2, <1>3, <1>4, <1>5, <1>6, <1>7, <1>8 DEF WriterOK

\* writer.Write(line), all of it.
LEMMA WriteLineKeeps ==
    ASSUME WriterOK, NEW line \in Nat, WriteLine(line)
    PROVE  WriterOK' /\ WriterMoves /\ line \in Elements(accepted')
  <1>1. accepted' = Append(accepted, line) /\ accepted \in Seq(Nat) /\ buf \in Seq(Nat)
    BY WriterFacts DEF WriteLine
  <1>2. line \in Elements(accepted')
    BY <1>1, ElementsAppend
  <1>3. CASE /\ ~failed /\ Len(buf) < BufSize
             /\ buf' = Append(buf, line) /\ UNCHANGED <<disk, failed, dropped>>
    BY <1>1, <1>2, <1>3, WriteBuffers
  <1>4. ASSUME NEW o \in FlushOutcomes(buf),
               disk' = disk \o SubSeq(buf, 1, o.n), failed' = o.bad,
               buf' = IF o.bad THEN SubSeq(buf, o.n + 1, Len(buf)) ELSE <<line>>,
               dropped' = IF o.bad THEN dropped \cup {line} ELSE dropped
        PROVE  WriterOK' /\ WriterMoves
    <2>1. PICK front, back \in Seq(Nat) :
              /\ SubSeq(buf, 1, o.n) = front /\ SubSeq(buf, o.n + 1, Len(buf)) = back
              /\ front \o back = buf /\ Len(back) <= Len(buf)
              /\ o.bad \in BOOLEAN
              /\ o.bad <=> back # <<>>
              /\ failed => o.bad
      BY FlushSplits
    <2>2. CASE o.bad
      <3>1. /\ disk' = disk \o front /\ buf' = back /\ failed' = TRUE
            /\ dropped' = dropped \cup {line} /\ back # <<>>
        BY <1>4, <2>1, <2>2
      <3> QED  BY <1>1, <2>1, <3>1, WriteFails
    <2>3. CASE ~o.bad
      <3>1. front = buf
        BY <2>1, <2>3, SplitFacts
      <3>2. /\ disk' = disk \o buf /\ buf' = <<line>> /\ failed' = FALSE
            /\ dropped' = dropped /\ ~failed
        BY <1>4, <2>1, <2>3, <3>1
      <3> QED  BY <1>1, <3>2, WriteFlushes
    <2> QED  BY <2>1, <2>2, <2>3
  <1> QED  BY <1>2, <1>3, <1>4 DEF WriteLine

\* A flush without a new writer: logging.Flush and the failed rotation.
LEMMA FlushKeeps ==
    ASSUME WriterOK, NEW o \in FlushOutcomes(buf),
           disk' = disk \o SubSeq(buf, 1, o.n), failed' = o.bad,
           buf' = SubSeq(buf, o.n + 1, Len(buf)), UNCHANGED <<accepted, dropped>>
    PROVE  /\ WriterOK' /\ WriterMoves
           /\ ~failed' => disk' = disk \o buf
  <1>1. /\ disk \in Seq(Nat) /\ buf \in Seq(Nat) /\ accepted \in Seq(Nat)
        /\ failed \in BOOLEAN /\ dropped \subseteq Nat
        /\ Len(buf) \in Nat /\ Len(buf) <= BufSize /\ BufSize \in Nat
        /\ dropped = {} => accepted = disk \o buf
        /\ Elements(accepted) = Elements(disk) \cup Elements(buf) \cup dropped
    BY WriterFacts
  <1>2. PICK front, back \in Seq(Nat) :
            /\ SubSeq(buf, 1, o.n) = front /\ SubSeq(buf, o.n + 1, Len(buf)) = back
            /\ front \o back = buf /\ Len(back) <= Len(buf)
            /\ o.bad \in BOOLEAN
            /\ o.bad <=> back # <<>>
            /\ failed => o.bad
    BY FlushSplits
  <1>3. /\ disk' = disk \o front /\ buf' = back /\ failed' \in BOOLEAN
        /\ failed' => back # <<>>
        /\ ~failed' => back = <<>>
        /\ failed => failed'
    BY <1>2
  <1>4. /\ disk \o front \in Seq(Nat)
        /\ Elements(disk \o front) = Elements(disk) \cup Elements(front)
        /\ Elements(buf) = Elements(front) \cup Elements(back)
        /\ (disk \o front) \o back = disk \o buf
        /\ back = <<>> => front = buf
    BY <1>2, SplitFacts
  <1>5. accepted' = accepted /\ dropped' = dropped
    OBVIOUS
  <1>6. LinesKept'
    <2>1. dropped' = {} => accepted' = disk' \o buf'
      BY <1>1, <1>3, <1>4, <1>5, Zenon
    <2>2. Elements(accepted') = Elements(disk') \cup Elements(buf') \cup dropped'
      <3>1. Elements(disk') = Elements(disk) \cup Elements(front) /\ Elements(buf') = Elements(back)
        BY <1>3, <1>4, Zenon
      <3> QED  BY <1>1, <1>4, <1>5, <3>1, Zenon
    <2> QED  BY <2>1, <2>2 DEF LinesKept
  <1>7. WriterMoves
    <2>1. \E t \in Seq(Nat) : disk' = disk \o t
      BY <1>2, <1>3, Zenon
    <2>2. Elements(accepted) \subseteq Elements(accepted') /\ dropped \subseteq dropped'
      BY <1>5, Zenon
    <2> QED  BY <1>3, <2>1, <2>2, Zenon DEF WriterMoves
  <1>8. Len(buf') <= BufSize
    <2>1. Len(back) \in Nat /\ Len(back) <= BufSize
      <3>1. Len(back) \in Nat
        BY <1>2, LenProperties
      <3> QED  BY <1>1, <1>2, <3>1
    <2> QED  BY <1>3, <2>1
  <1>9. FailInv'
    BY <1>3, Zenon DEF FailInv
  <1>10. ~failed' => disk' = disk \o buf
    BY <1>3, <1>4, Zenon
  <1>11. disk' \in Seq(Nat) /\ buf' \in Seq(Nat) /\ accepted' \in Seq(Nat) /\ dropped' \subseteq Nat
    BY <1>1, <1>2, <1>3, <1>4, <1>5, Zenon
  <1> QED
    BY <1>3, <1>6, <1>7, <1>8, <1>9, <1>10, <1>11, Zenon DEF WriterOK

\* A rotation: what the old writer could not write is dropped with it.
LEMMA RotateKeeps ==
    ASSUME WriterOK, NEW o \in FlushOutcomes(buf),
           disk' = disk \o SubSeq(buf, 1, o.n), buf' = <<>>, failed' = FALSE,
           dropped' = dropped \cup Elements(SubSeq(buf, o.n + 1, Len(buf))),
           UNCHANGED accepted
    PROVE  WriterOK' /\ WriterMoves
  <1>1. /\ disk \in Seq(Nat) /\ buf \in Seq(Nat) /\ accepted \in Seq(Nat)
        /\ dropped \subseteq Nat /\ BufSize \in Nat
        /\ dropped = {} => accepted = disk \o buf
        /\ Elements(accepted) = Elements(disk) \cup Elements(buf) \cup dropped
    BY WriterFacts
  <1>2. PICK front, back \in Seq(Nat) :
            /\ SubSeq(buf, 1, o.n) = front /\ SubSeq(buf, o.n + 1, Len(buf)) = back
            /\ front \o back = buf /\ Len(back) <= Len(buf)
            /\ o.bad \in BOOLEAN
            /\ o.bad <=> back # <<>>
            /\ failed => o.bad
    BY FlushSplits
  <1>3. /\ disk' = disk \o front /\ dropped' = dropped \cup Elements(back)
        /\ accepted' = accepted
        /\ failed => back # <<>>
    BY <1>2
  <1>4. /\ disk \o front \in Seq(Nat)
        /\ Elements(disk \o front) = Elements(disk) \cup Elements(front)
        /\ Elements(buf) = Elements(front) \cup Elements(back)
        /\ back = <<>> => front = buf
    BY <1>2, SplitFacts
  <1>5. Elements(back) \subseteq Nat
    BY ElementsAreLines
  <1>6. /\ back # <<>> => Elements(back) # {}
        /\ Elements(<<>>) = {} /\ <<>> \in Seq(Nat) /\ Len(<<>>) = 0
        /\ (disk \o front) \o <<>> = disk \o front
    <2>1. disk \o front \in Seq(Nat)
      BY <1>4
    <2>2. (disk \o front) \o <<>> = disk \o front
      BY <2>1, EmptyAfter, Zenon
    <2> QED  BY <1>2, <2>2, ElementsEmpty, EmptySeq
  <1>7. LinesKept'
    <2>1. dropped' = {} => accepted' = disk' \o buf'
      <3>1. dropped' = {} => dropped = {} /\ back = <<>>
        BY <1>3, <1>6, Zenon
      <3> QED  BY <1>1, <1>3, <1>4, <1>6, <3>1, Zenon
    <2>2. Elements(accepted') = Elements(disk') \cup Elements(buf') \cup dropped'
      <3>1. Elements(disk') = Elements(disk) \cup Elements(front) /\ Elements(buf') = {}
        BY <1>3, <1>4, <1>6, Zenon
      <3> QED  BY <1>1, <1>3, <1>4, <3>1, Zenon
    <2> QED  BY <2>1, <2>2 DEF LinesKept
  <1>8. WriterMoves
    <2>1. \E t \in Seq(Nat) : disk' = disk \o t
      BY <1>2, <1>3, Zenon
    <2>2. failed => dropped' # {}
      BY <1>3, <1>6, Zenon
    <2> QED  BY <1>3, <2>1, <2>2, Zenon DEF WriterMoves
  <1>9. Len(buf') <= BufSize
    <2>1. Len(buf') = 0
      BY <1>6
    <2> QED  BY <1>1, <2>1
  <1>10. FailInv' /\ failed' \in BOOLEAN
    BY DEF FailInv
  <1>11. disk' \in Seq(Nat) /\ buf' \in Seq(Nat) /\ accepted' \in Seq(Nat) /\ dropped' \subseteq Nat
    BY <1>1, <1>3, <1>4, <1>5, <1>6, Zenon
  <1> QED
    BY <1>7, <1>8, <1>9, <1>10, <1>11, Zenon DEF WriterOK

-----------------------------------------------------------------------------
(***************************************************************************)
(* The steps of Logger.                                                    *)
(***************************************************************************)

\* A step that leaves the writer alone.
Quiet ==
    \/ \E p \in Goroutines : Call(p)
    \/ \E p \in Procs : LockOut(p) \/ StdoutFails(p)
    \/ TlsError \/ NextDay \/ Tick \/ LockMu \/ SameDay \/ SetOutput \/ Report
    \/ SigTerm
    \/ UNCHANGED vars

\* Every other step is one of these.
LEMMA Steps ==
    ASSUME [Next]_vars
    PROVE  \/ Quiet
           \/ \E p \in Procs : Write(p)
           \/ \E b \in Buffers : WriteToFile(b)
           \/ Rotate \/ RotateFails \/ Flush
  BY Zenon DEF Next, LogCall, Rotation, Quiet

\* Steps of callers, clocks and main outside the writer leave the writer alone.
LEMMA QuietRests ==
    ASSUME Quiet
    PROVE  UNCHANGED writerVars
  <1>1. ASSUME NEW p \in Goroutines, Call(p) PROVE UNCHANGED writerVars
    BY <1>1 DEF Call
  <1>2. ASSUME NEW p \in Procs, LockOut(p) \/ StdoutFails(p) PROVE UNCHANGED writerVars
    BY <1>2 DEF LockOut, StdoutFails
  <1>3. CASE TlsError \/ NextDay \/ Tick \/ LockMu
    BY <1>3 DEF TlsError, NextDay, Tick, LockMu
  <1>4. CASE SameDay \/ SetOutput \/ Report \/ SigTerm
    BY <1>4 DEF SameDay, SetOutput, Report, SigTerm
  <1>5. CASE UNCHANGED vars
    BY <1>5 DEF vars
  <1> QED  BY <1>1, <1>2, <1>3, <1>4, <1>5, Zenon DEF Quiet

\* What is not about the writer: the rest of TypeOK, and who has which buffer.
RestOK ==
    /\ on \in BOOLEAN
    /\ outMu \in Procs \cup {"rotator", Nil} /\ mu \in {"rotator", Nil}
    /\ atFlush \in Seq(Nat)
    /\ today \in Nat /\ fileDay \in Nat /\ rday \in Nat /\ lines \in Nat
    /\ returned \subseteq Nat /\ handshake \subseteq Nat /\ overwritten \subseteq Nat
    /\ call \in [Procs -> {"none", "lockOut", "write", "direct"}]
    /\ text \in [Buffers -> Nat] /\ late \in [Buffers -> Nat]
    /\ held \in [Procs -> Buffers \cup {Nil}] /\ own \in [Procs -> Nat]
    /\ \A p \in Procs : call[p] # "none" => held[p] # Nil
    /\ BufferInv
    /\ rpc \in {"wait", "lock", "compare", "setOutput", "report", "reportWrite"}
    /\ mpc \in {"run", "shutting", "shutdown", "stopping", "exit"}

\* The types come in two halves, those of the writer with what it keeps, and the rest.
LEMMA TypeSplits ==
    /\ TypeOK /\ FailInv /\ LinesKept /\ BufferInv => WriterOK /\ RestOK
    /\ WriterOK /\ RestOK => TypeOK /\ FailInv /\ LinesKept /\ BufferInv
  BY Zenon DEF TypeOK, WriterOK, RestOK

\* A line a call or a goroutine is about to write is a line.
LEMMA LineOfCall ==
    ASSUME RestOK, NEW p \in Procs, call[p] \in {"write", "direct"}
    PROVE  text[held[p]] \in Nat /\ text[held[p]] = own[p]
  <1>1. call[p] # "none"
    OBVIOUS
  <1>2. held[p] \in Buffers
    BY <1>1 DEF RestOK
  <1> QED  BY <1>1, <1>2 DEF RestOK, BufferInv

\* What every step does to the writer.
LEMMA WriterStep ==
    ASSUME WriterOK, RestOK, [Next]_vars
    PROVE  WriterOK' /\ WriterMoves
  <1>1. CASE Quiet
    BY <1>1, QuietRests, WriterRests
  <1>2. ASSUME NEW p \in Procs, Write(p) PROVE WriterOK' /\ WriterMoves
    <2>1. \/ WriteLine(text[held[p]]) \/ UNCHANGED writerVars
      BY <1>2 DEF Write
    <2>2. text[held[p]] \in Nat
      <3>1. call[p] \in {"write", "direct"}
        BY <1>2 DEF Write
      <3> QED  BY <3>1, LineOfCall
    <2> QED  BY <2>1, <2>2, WriteLineKeeps, WriterRests
  <1>3. ASSUME NEW b \in Buffers, WriteToFile(b) PROVE WriterOK' /\ WriterMoves
    <2>1. \/ WriteLine(text[b]) \/ UNCHANGED writerVars
      BY <1>3 DEF WriteToFile
    <2>2. text[b] \in Nat
      BY DEF RestOK
    <2> QED  BY <2>1, <2>2, WriteLineKeeps, WriterRests
  <1>4. CASE Rotate
    <2>1. PICK o \in FlushOutcomes(buf) :
              /\ disk' = disk \o SubSeq(buf, 1, o.n)
              /\ dropped' = dropped \cup Elements(SubSeq(buf, o.n + 1, Len(buf)))
      BY <1>4 DEF Rotate
    <2>2. buf' = <<>> /\ failed' = FALSE /\ UNCHANGED accepted
      BY <1>4 DEF Rotate
    <2> QED  BY <2>1, <2>2, RotateKeeps
  <1>5. CASE RotateFails
    <2>1. PICK o \in FlushOutcomes(buf) :
              /\ disk' = disk \o SubSeq(buf, 1, o.n)
              /\ buf' = SubSeq(buf, o.n + 1, Len(buf))
              /\ failed' = o.bad
      BY <1>5 DEF RotateFails
    <2>2. UNCHANGED <<accepted, dropped>>
      BY <1>5 DEF RotateFails
    <2> QED  BY <2>1, <2>2, FlushKeeps
  <1>6. CASE Flush
    <2>1. PICK o \in FlushOutcomes(buf) :
              /\ disk' = disk \o SubSeq(buf, 1, o.n)
              /\ buf' = SubSeq(buf, o.n + 1, Len(buf))
              /\ failed' = o.bad
      BY <1>6 DEF Flush
    <2>2. UNCHANGED <<accepted, dropped>>
      BY <1>6 DEF Flush
    <2> QED  BY <2>1, <2>2, FlushKeeps
  <1> QED  BY Steps, <1>1, <1>2, <1>3, <1>4, <1>5, <1>6, Zenon

\* What a call that begins, and a call that ends, leave of the calls.
CallsOK ==
    /\ call \in [Procs -> {"none", "lockOut", "write", "direct"}]
    /\ text \in [Buffers -> Nat] /\ lines \in Nat /\ overwritten \subseteq Nat
    /\ held \in [Procs -> Buffers \cup {Nil}] /\ own \in [Procs -> Nat]
    /\ \A p \in Procs : call[p] # "none" => held[p] # Nil
    /\ BufferInv

\* A new line goes into a buffer that no call holds, so that the lines of the
\* calls stay.
LEMMA FormatInKeeps ==
    ASSUME CallsOK, NEW b \in Buffers, FormatIn(b)
    PROVE  /\ text' \in [Buffers -> Nat] /\ lines' \in Nat /\ overwritten' \subseteq Nat
           /\ text'[b] = lines + 1
           /\ \A q \in Procs : held[q] # b
           /\ \A q \in Procs : call[q] # "none" => text'[held[q]] = own[q]
  <1>1. text' = [text EXCEPT ![b] = lines + 1] /\ lines' = lines + 1 /\ lines \in Nat
    BY DEF FormatIn, CallsOK
  <1>2. \A q \in Procs : held[q] # b
    BY DEF FormatIn
  <1>3. overwritten' \subseteq Nat
    BY DEF FormatIn, CallsOK
  <1>4. \A q \in Procs : call[q] # "none" => text'[held[q]] = own[q]
    BY <1>1, <1>2 DEF CallsOK, BufferInv
  <1> QED  BY <1>1, <1>2, <1>3, <1>4 DEF CallsOK

\* A call that begins has a buffer to itself.
LEMMA FormatKeeps ==
    ASSUME CallsOK, NEW p \in Procs, NEW where \in {"lockOut", "direct"}, Format(p, where)
    PROVE  CallsOK'
  <1>1. PICK b \in Buffers : FormatIn(b) /\ held' = [held EXCEPT ![p] = b]
    BY DEF Format
  <1>2. own' = [own EXCEPT ![p] = lines + 1] /\ call' = [call EXCEPT ![p] = where]
    BY DEF Format
  <1>3. b # Nil /\ where # "none" /\ lines + 1 \in Nat
    BY LoggerAssumption DEF CallsOK
  <1>4. /\ text' \in [Buffers -> Nat] /\ lines' \in Nat /\ overwritten' \subseteq Nat
        /\ text'[b] = lines + 1 /\ \A q \in Procs : held[q] # b
        /\ \A q \in Procs : call[q] # "none" => text'[held[q]] = own[q]
    BY <1>1, FormatInKeeps
  <1>5. BufferInv'
    <2>1. \A q \in Procs : /\ held'[q] = IF q = p THEN b ELSE held[q]
                           /\ own'[q] = IF q = p THEN lines + 1 ELSE own[q]
                           /\ call'[q] = IF q = p THEN where ELSE call[q]
      BY <1>1, <1>2 DEF CallsOK
    <2> QED  BY <1>4, <2>1 DEF BufferInv, CallsOK
  <1> QED  BY <1>1, <1>2, <1>3, <1>4, <1>5 DEF CallsOK

\* A call that ends gives its buffer back.
LEMMA EndCallKeeps ==
    ASSUME CallsOK, NEW p \in Procs, EndCall(p), UNCHANGED <<text, lines, overwritten>>
    PROVE  CallsOK'
  <1>1. /\ call' = [call EXCEPT ![p] = "none"] /\ held' = [held EXCEPT ![p] = Nil]
        /\ own' = [own EXCEPT ![p] = 0]
    BY DEF EndCall
  <1>2. BufferInv'
    <2>1. \A q \in Procs : /\ held'[q] = IF q = p THEN Nil ELSE held[q]
                           /\ own'[q] = IF q = p THEN 0 ELSE own[q]
                           /\ call'[q] = IF q = p THEN "none" ELSE call[q]
      BY <1>1 DEF CallsOK
    <2> QED  BY <2>1 DEF BufferInv, CallsOK
  <1> QED  BY <1>1, <1>2 DEF CallsOK

\* A step that leaves the calls alone leaves their buffers alone.
LEMMA CallsRest == BufferInv /\ UNCHANGED callVars => BufferInv'
  BY DEF BufferInv, callVars

\* The rest of the type invariant is kept by every step.
LEMMA RestStep ==
    ASSUME WriterOK, RestOK, [Next]_vars
    PROVE  RestOK'
  <1> USE DEF RestOK
  <1>0. CallsOK /\ accepted \in Seq(Nat)
    BY DEF CallsOK, WriterOK
  <1>1. ASSUME NEW p \in Goroutines, Call(p) PROVE RestOK'
    <2>1. PICK where \in {"lockOut", "direct"} : Format(p, where)
      BY <1>1 DEF Call
    <2>2. CallsOK'
      BY <1>0, <2>1, FormatKeeps DEF Procs
    <2> QED  BY <1>1, <2>2 DEF Call, CallsOK, rotateVars
  <1>2. ASSUME NEW p \in Procs, LockOut(p) PROVE RestOK'
    <2>1. BufferInv'
      BY <1>2 DEF LockOut, BufferInv
    <2> QED  BY <1>2, <2>1 DEF LockOut, rotateVars
  <1>3. ASSUME NEW p \in Procs, EndCall(p), UNCHANGED <<text, lines, overwritten>>
        PROVE  CallsOK' /\ outMu' \in Procs \cup {"rotator", Nil}
               /\ mpc' \in {"run", "shutting", "shutdown", "stopping", "exit"}
    <2>1. CallsOK'
      BY <1>0, <1>3, EndCallKeeps
    <2>2. outMu' \in Procs \cup {"rotator", Nil}
      BY <1>3 DEF EndCall
    <2>3. mpc' \in {"run", "shutting", "shutdown", "stopping", "exit"}
      BY <1>3 DEF EndCall, AfterCall
    <2> QED  BY <2>1, <2>2, <2>3
  <1>4. ASSUME NEW p \in Procs, StdoutFails(p) PROVE RestOK'
    <2>1. EndCall(p) /\ UNCHANGED <<on, mu, today, text, late, lines, returned, handshake,
                                   overwritten, rotateVars, atFlush>>
      BY <1>4 DEF StdoutFails
    <2>2. /\ CallsOK' /\ outMu' \in Procs \cup {"rotator", Nil}
          /\ mpc' \in {"run", "shutting", "shutdown", "stopping", "exit"}
      BY <1>3, <2>1
    <2> QED  BY <2>1, <2>2 DEF CallsOK, rotateVars
  <1>5. ASSUME NEW p \in Procs, Write(p) PROVE RestOK'
    <2>1. /\ EndCall(p) /\ UNCHANGED <<on, mu, today, text, late, lines, handshake,
                                      overwritten, rotateVars, atFlush>>
          /\ call[p] \in {"write", "direct"} /\ returned' = returned \cup {own[p]}
      BY <1>5 DEF Write
    <2>2. /\ CallsOK' /\ outMu' \in Procs \cup {"rotator", Nil}
          /\ mpc' \in {"run", "shutting", "shutdown", "stopping", "exit"}
      BY <1>3, <2>1
    <2>3. returned' \subseteq Nat
      BY <2>1 DEF RestOK
    <2> QED  BY <2>1, <2>2, <2>3 DEF CallsOK, rotateVars
  <1>6. CASE TlsError
    <2>1. PICK b \in Buffers : FormatIn(b) /\ late' = [late EXCEPT ![b] = @ + 1]
      BY <1>6 DEF TlsError
    <2>2. /\ text' \in [Buffers -> Nat] /\ lines' \in Nat /\ overwritten' \subseteq Nat
          /\ \A q \in Procs : call[q] # "none" => text'[held[q]] = own[q]
      BY <1>0, <2>1, FormatInKeeps
    <2>3. late' \in [Buffers -> Nat]
      BY <2>1
    <2>4. UNCHANGED <<call, held, own>>
      BY <1>6 DEF TlsError
    <2>5. BufferInv'
      BY <2>2, <2>4 DEF BufferInv
    <2>6. returned' \subseteq Nat /\ handshake' \subseteq Nat
      BY <1>6 DEF TlsError
    <2> QED  BY <1>6, <2>2, <2>3, <2>4, <2>5, <2>6 DEF TlsError, rotateVars
  <1>7. ASSUME NEW b \in Buffers, WriteToFile(b) PROVE RestOK'
    <2>1. late[b] \in Nat /\ late[b] > 0 /\ late' = [late EXCEPT ![b] = late[b] - 1]
      BY <1>7 DEF WriteToFile
    <2>2. late' \in [Buffers -> Nat]
      BY <2>1
    <2>3. UNCHANGED <<on, outMu, mu, today, call, text, held, own, lines, returned,
                      handshake, overwritten, rotateVars, mpc, atFlush>>
      BY <1>7 DEF WriteToFile
    <2>4. BufferInv'
      BY <2>3 DEF BufferInv
    <2> QED  BY <2>2, <2>3, <2>4 DEF rotateVars
  <1>8. CASE NextDay
    BY <1>8, CallsRest DEF NextDay, callVars, rotateVars
  <1>9. CASE Tick
    BY <1>9, CallsRest DEF Tick, callVars
  <1>10. CASE LockMu
    BY <1>10, CallsRest DEF LockMu, callVars
  <1>11. CASE SameDay
    BY <1>11, CallsRest DEF SameDay, callVars
  <1>12. CASE Rotate
    BY <1>12, CallsRest DEF Rotate, callVars
  <1>13. CASE SetOutput
    BY <1>13, CallsRest DEF SetOutput, callVars
  <1>14. CASE RotateFails
    BY <1>14, CallsRest DEF RotateFails, callVars
  <1>15. CASE Report
    BY <1>15, CallsRest DEF Report, callVars
  <1>16. CASE SigTerm
    <2>1. CallsOK'
      BY <1>0, <1>16, FormatKeeps DEF SigTerm, Procs
    <2> QED  BY <1>16, <2>1 DEF SigTerm, CallsOK, rotateVars
  <1>17. CASE Flush
    <2>1. CallsOK'
      BY <1>0, <1>17, FormatKeeps DEF Flush, Procs
    <2>2. atFlush' \in Seq(Nat) /\ mpc' = "stopping"
      BY <1>0, <1>17 DEF Flush
    <2>3. UNCHANGED <<on, outMu, mu, today, late, returned, handshake, fileDay, rpc, rday>>
      BY <1>17 DEF Flush, rotateVars
    <2> QED  BY <2>1, <2>2, <2>3 DEF CallsOK
  <1>18. CASE UNCHANGED vars
    BY <1>18, CallsRest DEF vars, callVars, rotateVars
  <1> QED
    BY Zenon, <1>1, <1>2, <1>4, <1>5, <1>6, <1>7, <1>8, <1>9, <1>10, <1>11, <1>12,
       <1>13, <1>14, <1>15, <1>16, <1>17, <1>18 DEF Next, LogCall, Rotation

\* main is inside package log only while it shuts down.
LEMMA MainStep ==
    ASSUME RestOK, MainInv, [Next]_vars
    PROVE  MainInv'
  <1>0. /\ "main" \in Procs /\ \A p \in Goroutines : p # "main" /\ p \in Procs
        /\ call \in [Procs -> {"none", "lockOut", "write", "direct"}]
    BY LoggerAssumption DEF Procs, RestOK
  <1>1. ASSUME NEW p \in Goroutines, Call(p) PROVE MainInv'
    <2>1. call'["main"] = call["main"] /\ mpc' = mpc
      BY <1>0, <1>1 DEF Call, Format
    <2> QED  BY <2>1 DEF MainInv
  <1>2. ASSUME NEW p \in Procs, LockOut(p) PROVE MainInv'
    <2>1. mpc' = mpc /\ (call'["main"] # "none" => call["main"] # "none")
      BY <1>0, <1>2 DEF LockOut
    <2> QED  BY <2>1 DEF MainInv
  <1>3. ASSUME NEW p \in Procs, Write(p) \/ StdoutFails(p) PROVE MainInv'
    <2>1. EndCall(p)
      BY <1>3 DEF Write, StdoutFails
    <2>2. call'["main"] # "none" => call["main"] # "none" /\ p # "main"
      BY <1>0, <2>1 DEF EndCall
    <2>3. p # "main" => mpc' = mpc
      BY <2>1 DEF EndCall, AfterCall
    <2> QED  BY <2>2, <2>3 DEF MainInv
  <1>4. CASE UNCHANGED <<call, mpc>>
    BY <1>4 DEF MainInv
  <1>5. CASE SigTerm \/ Flush
    BY <1>5 DEF SigTerm, Flush, MainInv
  <1>6. ASSUME NEW b \in Buffers, WriteToFile(b) PROVE UNCHANGED <<call, mpc>>
    BY <1>6 DEF WriteToFile
  <1>7. \/ TlsError \/ NextDay \/ Tick \/ LockMu \/ SameDay \/ Rotate \/ RotateFails
        \/ SetOutput \/ Report \/ UNCHANGED vars
        => UNCHANGED <<call, mpc>>
    BY DEF TlsError, NextDay, Tick, LockMu, SameDay, Rotate, RotateFails, SetOutput, Report,
           vars, callVars
  <1> QED
    BY Zenon, <1>1, <1>2, <1>3, <1>4, <1>5, <1>6, <1>7 DEF Next, LogCall, Rotation

\* Where line n is, if its call has returned.
Accounted(n) ==
    \/ n \in Elements(accepted)
    \/ n \in handshake /\ (Pending(n) \/ n \in overwritten)

\* A line that is replaced in its buffer before it was written is one that is
\* overwritten; the others stay where they are.
LEMMA FormatAccounts ==
    ASSUME RestOK, NEW b \in Buffers, FormatIn(b),
           \A c \in Buffers : late[c] > 0 => late'[c] > 0,
           handshake \subseteq handshake', accepted' = accepted,
           NEW n, Accounted(n)
    PROVE  Accounted(n)'
  <1>1. text' = [text EXCEPT ![b] = lines + 1] /\ text \in [Buffers -> Nat]
    BY DEF FormatIn, RestOK
  <1>2. overwritten \subseteq overwritten' /\ (late[b] > 0 => text[b] \in overwritten')
    BY DEF FormatIn
  <1>3. ASSUME Pending(n) PROVE Pending(n)' \/ n \in overwritten'
    <2>1. PICK c \in Buffers : late[c] > 0 /\ text[c] = n
      BY <1>3 DEF Pending
    <2>2. CASE c = b
      BY <1>2, <2>1, <2>2
    <2>3. CASE c # b
      BY <1>1, <2>1, <2>3 DEF Pending
    <2> QED  BY <2>2, <2>3
  <1> QED  BY <1>2, <1>3, Zenon DEF Accounted

\* A step that touches no buffer.
LEMMA OthersAccount ==
    ASSUME UNCHANGED <<text, late, handshake, overwritten>>,
           Elements(accepted) \subseteq Elements(accepted'), NEW n, Accounted(n)
    PROVE  Accounted(n)'
  BY Zenon DEF Accounted, Pending

\* Every line whose call has returned stays accounted for.  A call writes the
\* line it formatted, which is still in its buffer, and the writer never
\* forgets one.
LEMMA ReturnedStep ==
    ASSUME WriterOK, RestOK, OnlyReusedLinesLost, [Next]_vars
    PROVE  OnlyReusedLinesLost'
  <1>1. Elements(accepted) \subseteq Elements(accepted')
    BY WriterStep DEF WriterMoves
  <1> DEFINE Kept == \A n \in returned' : Accounted(n)'
  <1>2. on' => on
    <2>1. ASSUME NEW p \in Procs, LogCall(p) \/ StdoutFails(p) \/ (p \in Goroutines /\ Call(p))
          PROVE  on' = on
      BY <2>1 DEF LogCall, LockOut, Write, StdoutFails, Call
    <2>2. ASSUME NEW b \in Buffers, WriteToFile(b) PROVE on' = on
      BY <2>2 DEF WriteToFile
    <2>3. TlsError \/ NextDay \/ Tick \/ SigTerm \/ Flush => on' = on
      BY DEF TlsError, NextDay, Tick, SigTerm, Flush
    <2>4. Rotation \/ UNCHANGED vars => on' = on
      BY DEF Rotation, LockMu, SameDay, Rotate, RotateFails, SetOutput, Report, vars
    <2> QED  BY <2>1, <2>2, <2>3, <2>4, Zenon DEF Next, Procs
  <1> SUFFICES ASSUME on' PROVE Kept
    BY Zenon DEF OnlyReusedLinesLost, Accounted
  <1>3. on /\ \A n \in returned : Accounted(n)
    BY <1>2, Zenon DEF OnlyReusedLinesLost, Accounted
  <1> HIDE DEF Kept
  <1>4. ASSUME UNCHANGED <<text, late, handshake, overwritten, returned>> PROVE Kept
    BY <1>1, <1>3, <1>4, OthersAccount DEF Kept
  <1>5. ASSUME NEW p \in Procs, NEW where, Format(p, where), UNCHANGED <<late, handshake, returned>>,
               accepted' = accepted
        PROVE  Kept
    <2>1. PICK b \in Buffers : FormatIn(b)
      BY <1>5 DEF Format
    <2> QED  BY <1>3, <1>5, <2>1, FormatAccounts DEF Kept
  <1>6. ASSUME NEW p \in Goroutines, Call(p) PROVE Kept
    BY <1>5, <1>6 DEF Call, Procs, writerVars
  <1>7. ASSUME NEW p \in Procs, LockOut(p) \/ StdoutFails(p) PROVE Kept
    BY <1>4, <1>7 DEF LockOut, StdoutFails
  <1>8. ASSUME NEW p \in Procs, Write(p) PROVE Kept
    <2>1. /\ call[p] \in {"write", "direct"} /\ WriteLine(text[held[p]])
          /\ returned' = returned \cup {own[p]}
          /\ UNCHANGED <<text, late, handshake, overwritten>>
      BY <1>3, <1>8 DEF Write
    <2>2. text[held[p]] = own[p] /\ own[p] \in Elements(accepted')
      BY <2>1, LineOfCall, WriteLineKeeps
    <2>3. ASSUME NEW n, n = own[p] PROVE Accounted(n)'
      BY <2>2, <2>3 DEF Accounted
    <2>4. \A n \in returned : Accounted(n)'
      BY <1>1, <1>3, <2>1, OthersAccount
    <2>5. \A n \in returned' : n \in returned \/ n = own[p]
      BY <2>1
    <2> QED  BY <2>3, <2>4, <2>5, Zenon DEF Kept
  <1>9. CASE TlsError
    <2>1. PICK b \in Buffers : FormatIn(b) /\ late' = [late EXCEPT ![b] = @ + 1]
      BY <1>9 DEF TlsError
    <2>2. /\ returned' = returned \cup {lines + 1} /\ handshake' = handshake \cup {lines + 1}
          /\ accepted' = accepted
      BY <1>9 DEF TlsError, writerVars
    <2>3. text'[b] = lines + 1 /\ late'[b] > 0
      BY <2>1 DEF FormatIn, RestOK
    <2>4. ASSUME NEW n, n = lines + 1 PROVE Accounted(n)'
      <3>1. n \in handshake' /\ text'[b] = n /\ late'[b] > 0
        BY <2>2, <2>3, <2>4
      <3>2. Pending(n)'
        BY <3>1, Zenon DEF Pending
      <3> QED  BY <3>1, <3>2, Zenon DEF Accounted
    <2>5. \A c \in Buffers : late[c] > 0 => late'[c] > 0
      BY <2>1 DEF RestOK
    <2>6. \A n \in returned : Accounted(n)'
      BY <1>3, <2>1, <2>2, <2>5, FormatAccounts
    <2>7. \A n \in returned' : n \in returned \/ n = lines + 1
      BY <2>2
    <2> QED  BY <2>4, <2>6, <2>7, Zenon DEF Kept
  <1>10. ASSUME NEW b \in Buffers, WriteToFile(b) PROVE Kept
    <2>1. /\ WriteLine(text[b]) /\ late' = [late EXCEPT ![b] = @ - 1]
          /\ UNCHANGED <<text, handshake, overwritten, returned>>
      BY <1>3, <1>10 DEF WriteToFile
    <2>2. text[b] \in Elements(accepted')
      BY <2>1, WriteLineKeeps DEF RestOK
    <2>3. ASSUME NEW n, Pending(n) PROVE n \in Elements(accepted') \/ Pending(n)'
      <3>1. PICK c \in Buffers : late[c] > 0 /\ text[c] = n
        BY <2>3 DEF Pending
      <3>2. c # b => late'[c] > 0
        BY <2>1, <3>1 DEF RestOK
      <3> QED  BY <2>1, <2>2, <3>1, <3>2 DEF Pending
    <2> QED  BY <1>1, <1>3, <2>1, <2>3, Zenon DEF Kept, Accounted
  <1>11. CASE SigTerm \/ Flush
    <2>1. /\ "main" \in Procs /\ Format("main", "lockOut") /\ accepted' = accepted
          /\ UNCHANGED <<late, handshake, returned>>
      BY <1>11 DEF SigTerm, Flush, Procs, writerVars
    <2> QED  BY <1>5, <2>1
  <1>12. NextDay \/ Tick \/ Rotation \/ UNCHANGED vars => UNCHANGED callVars
    BY DEF NextDay, Tick, Rotation, LockMu, SameDay, Rotate, RotateFails, SetOutput, Report, vars
  <1>13. CASE UNCHANGED callVars
    BY <1>4, <1>13 DEF callVars
  <1> QED
    BY Zenon, <1>6, <1>7, <1>8, <1>9, <1>10, <1>11, <1>12, <1>13 DEF Next, LogCall

\* main's Flush puts everything accepted into the files; from then on the
\* files only grow.
LEMMA ShutdownStep ==
    ASSUME WriterOK, RestOK, MainInv, ShutdownSaves, [Next]_vars
    PROVE  ShutdownSaves'
  <1>0. disk \in Seq(Nat) /\ buf \in Seq(Nat) /\ atFlush \in Seq(Nat) /\ accepted \in Seq(Nat)
        /\ failed \in BOOLEAN /\ (dropped = {} => accepted = disk \o buf)
    BY DEF WriterOK, RestOK, LinesKept
  <1>1. PICK t \in Seq(Nat) : disk' = disk \o t
    BY WriterStep DEF WriterMoves
  <1>2. ~failed' /\ dropped' = {} => ~failed /\ dropped = {}
    BY WriterStep, Zenon DEF WriterMoves
  <1>3. CASE Flush
    <2> SUFFICES ASSUME ~failed', dropped' = {}
                 PROVE  Len(atFlush') <= Len(disk') /\ SubSeq(disk', 1, Len(atFlush')) = atFlush'
      BY DEF ShutdownSaves
    <2>1. PICK o \in FlushOutcomes(buf) :
              /\ disk' = disk \o SubSeq(buf, 1, o.n)
              /\ buf' = SubSeq(buf, o.n + 1, Len(buf))
              /\ failed' = o.bad
      BY <1>3 DEF Flush
    <2>2. UNCHANGED <<accepted, dropped>> /\ atFlush' = accepted
      BY <1>3 DEF Flush
    <2>3. disk' = disk \o buf
      BY <2>1, <2>2, FlushKeeps
    <2>4. disk' = atFlush' /\ disk' \in Seq(Nat)
      BY <1>0, <2>2, <2>3
    <2>5. Len(disk') \in Nat /\ SubSeq(disk', 1, Len(disk')) = disk'
      BY <2>4, LenProperties, SubSeqFull
    <2> QED  BY <2>4, <2>5
  <1>4. ASSUME atFlush' = atFlush,
               mpc' \in {"stopping", "exit"} => mpc \in {"stopping", "exit"}
        PROVE  ShutdownSaves'
    <2> SUFFICES ASSUME mpc' \in {"stopping", "exit"}, ~failed', dropped' = {}
                 PROVE  Len(atFlush') <= Len(disk') /\ SubSeq(disk', 1, Len(atFlush')) = atFlush'
      BY DEF ShutdownSaves
    <2>1. Len(atFlush) <= Len(disk) /\ SubSeq(disk, 1, Len(atFlush)) = atFlush
      BY <1>2, <1>4 DEF ShutdownSaves
    <2>2. Len(atFlush) <= Len(disk \o t) /\ SubSeq(disk \o t, 1, Len(atFlush)) = atFlush
      BY <1>0, <2>1, PrefixKept
    <2> QED  BY <1>1, <1>4, <2>2, Zenon
  <1>5. ASSUME NEW p \in Procs, Write(p) \/ StdoutFails(p)
        PROVE  /\ atFlush' = atFlush
               /\ mpc' \in {"stopping", "exit"} => mpc \in {"stopping", "exit"}
    <2>1. atFlush' = atFlush /\ EndCall(p) /\ call[p] \in {"write", "direct"}
      BY <1>5 DEF Write, StdoutFails
    <2>2. CASE p # "main"
      BY <2>1, <2>2 DEF EndCall, AfterCall
    <2>3. CASE p = "main"
      <3>1. mpc \in {"shutting", "stopping"}
        BY <2>1, <2>3 DEF MainInv
      <3> QED  BY <2>1, <2>3, <3>1 DEF EndCall, AfterCall
    <2> QED  BY <2>2, <2>3
  <1>6. CASE SigTerm
    <2>1. atFlush' = atFlush /\ mpc' = "shutting"
      BY <1>6 DEF SigTerm
    <2> QED  BY <1>4, <2>1
  <1>7. CASE UNCHANGED <<atFlush, mpc>>
    BY <1>4, <1>7, Zenon
  <1>8. ASSUME NEW p \in Goroutines, Call(p) PROVE UNCHANGED <<atFlush, mpc>>
    BY <1>8 DEF Call
  <1>9. ASSUME NEW p \in Procs, LockOut(p) PROVE UNCHANGED <<atFlush, mpc>>
    BY <1>9 DEF LockOut
  <1>10. ASSUME NEW b \in Buffers, WriteToFile(b) PROVE UNCHANGED <<atFlush, mpc>>
    BY <1>10 DEF WriteToFile
  <1>11. \/ TlsError \/ NextDay \/ Tick \/ LockMu \/ SameDay \/ Rotate \/ RotateFails
         \/ SetOutput \/ Report \/ UNCHANGED vars
         => UNCHANGED <<atFlush, mpc>>
    BY DEF TlsError, NextDay, Tick, LockMu, SameDay, Rotate, RotateFails, SetOutput, Report, vars
  <1> QED
    BY Zenon, <1>3, <1>4, <1>5, <1>6, <1>7, <1>8, <1>9, <1>10, <1>11
    DEF Next, LogCall, Rotation

-----------------------------------------------------------------------------
(***************************************************************************)
(* Theorems.                                                               *)
(***************************************************************************)

\* New opens an empty file.
LEMMA InitIndInv == Init => IndInv
  <1> SUFFICES ASSUME Init PROVE IndInv
    OBVIOUS
  <1>1. /\ <<>> \in Seq(Nat) /\ Len(<<>>) = 0 /\ <<>> \o <<>> = <<>> /\ Elements(<<>>) = {}
    BY EmptySeq, ConcatEmptySeq, ElementsEmpty
  <1>2. Len(buf) <= BufSize
    BY <1>1, LoggerAssumption DEF Init
  <1>3. TypeOK
    BY <1>1, <1>2 DEF Init, TypeOK, Procs
  <1>4. MainInv
    BY DEF Init, MainInv, Procs
  <1>5. LinesKept /\ OnlyReusedLinesLost /\ BufferInv
    BY <1>1 DEF Init, LinesKept, OnlyReusedLinesLost, BufferInv
  <1>6. FailInv /\ ShutdownSaves
    BY DEF Init, FailInv, ShutdownSaves
  <1> QED  BY <1>3, <1>4, <1>5, <1>6 DEF IndInv

\* Every step keeps the invariant.
LEMMA NextIndInv == IndInv /\ [Next]_vars => IndInv'
  <1> SUFFICES ASSUME IndInv, [Next]_vars PROVE IndInv'
    OBVIOUS
  <1>1. WriterOK /\ RestOK /\ MainInv /\ OnlyReusedLinesLost /\ ShutdownSaves
    BY TypeSplits DEF IndInv
  <1>2. WriterOK' /\ RestOK'
    BY <1>1, WriterStep, RestStep
  <1>3. (WriterOK /\ RestOK => TypeOK /\ FailInv /\ LinesKept /\ BufferInv)'
    BY TypeSplits, PTL
  <1>4. MainInv' /\ OnlyReusedLinesLost' /\ ShutdownSaves'
    BY <1>1, MainStep, ReturnedStep, ShutdownStep
  <1> QED  BY <1>2, <1>3, <1>4 DEF IndInv

\* Whatever goroutines log, rotate and shut down, and whenever a write of
\* the disk or of standard output fails, the inductive invariant holds.
THEOREM Invariance == Spec => []IndInv
  BY InitIndInv, NextIndInv, PTL DEF Spec

\* Every variable keeps its type, the bufio.Writer stays within its size,
\* and a call inside package log has a buffer.
THEOREM TypeCorrect == Spec => []TypeOK
  <1>1. IndInv => TypeOK
    BY DEF IndInv
  <1> QED  BY <1>1, Invariance, PTL

\* No line disappears between package log and the files unless a write
\* fails, through every mix of full buffers, rotations and failures of
\* logWriter.Write, monitorAndRotate and Flush.
THEOREM LinesAlwaysKept == Spec => []LinesKept
  <1>1. IndInv => LinesKept
    BY DEF IndInv
  <1> QED  BY <1>1, Invariance, PTL

\* A line whose call of package log has returned reached the writer, unless
\* tlsErrorFilter left it to a goroutine: then it still waits in its buffer, or
\* was lost with it.
THEOREM OnlyReusedLinesAreLost == Spec => []OnlyReusedLinesLost
  <1>1. IndInv => OnlyReusedLinesLost
    BY DEF IndInv
  <1> QED  BY <1>1, Invariance, PTL

\* What was accepted before main's Flush is in the files from then on,
\* unless a write failed.
THEOREM ShutdownAlwaysSaves == Spec => []ShutdownSaves
  <1>1. IndInv => ShutdownSaves
    BY DEF IndInv
  <1> QED  BY <1>1, Invariance, PTL

=============================================================================

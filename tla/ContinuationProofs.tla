------------------------- MODULE ContinuationProofs --------------------------
(***************************************************************************)
(* The playlist of a continued transcode grows and loses nothing that can  *)
(* be read, up to a run that fails or cannot be folded in, for a source of *)
(* any length with any defects.                                            *)
(***************************************************************************)
EXTENDS Continuation, TLAPS

Position == From .. Length - 1

\* s lists the positions from a on.
Linear(s, a) == \A i \in 1 .. Len(s) : s[i] = a + i - 1

\* s is b with a linear run from a on behind it.
Extends(s, b, a) ==
    /\ Len(b) <= Len(s)
    /\ \A i \in 1 .. Len(b) : s[i] = b[i]
    /\ \A i \in Len(b) + 1 .. Len(s) : s[i] = a + (i - Len(b)) - 1

\* What lies before a listed position is listed before it or dead.
InOrder(s) ==
    \A i \in 1 .. Len(s) : \A p \in From .. s[i] - 1 :
        p \in dead \/ \E j \in 1 .. i - 1 : s[j] = p

\* What lies before a is listed or dead.
Covers(s, a) ==
    \A p \in Position : p < a => p \in dead \/ \E j \in 1 .. Len(s) : s[j] = p

\* Where the worker is, and what its counters and the goroutine may be there.
StageInv ==
    /\ seen \in Nat
    /\ pc = "first" => start = From /\ pos = From + Len(index) /\ Linear(index, From)
    /\ pc \in {"first", "strip", "probe"} => attempt = 1 /\ skip = 0
    /\ pc \in {"check", "run", "exited"} => skip <= MaxSkip
    /\ pc \in {"run", "exited"} => attempt <= MaxContinuations
    /\ stitcher # "off" => pc \in {"run", "exited", "killed"}
    /\ endlist => pc \in {"strip", "done"}

\* A continuation starts skip behind what was produced, and the playlist is what was
\* produced before it and a part of what the goroutine read of it.
StitchInv ==
    pc \in {"run", "exited", "killed"} =>
        /\ start = From + Len(prefix) + skip /\ pos = start + Len(cont)
        /\ Linear(cont, start) /\ Linear(body, start) /\ Len(body) <= Len(cont)
        /\ Extends(index, prefix, start) /\ Len(index) <= Len(prefix) + Len(body)

\* A run failed where it could have read on, or could not be folded in.
Lossy == "fail" \in mishap \/ "reread" \in mishap

\* Everything before the place where the next run starts, or the running one started,
\* is listed or dead; and so is that place when the run got nothing out of it.
CoverInv ==
    Lossy \/
    /\ InOrder(index)
    /\ pc \in {"first", "strip", "probe", "check"} =>
          Covers(index, From + Len(index) + skip)
    /\ pc \in {"run", "exited", "killed"} => InOrder(prefix) /\ Covers(prefix, start)
    /\ pc = "exited" /\ cont = <<>> => start >= Length \/ start \in dead

ContInv == TypeOK /\ StageInv /\ StitchInv /\ CoverInv

USE DEF Lossy

\* What the constants say of positions.
LEMMA Bounds ==
    /\ Length \in Nat /\ From \in Nat /\ From <= Length /\ Margin \in Nat
    /\ MaxContinuations \in Nat /\ MaxSkip \in Nat
    /\ Position \subseteq Nat
  BY ContinuationAssumption DEF Position

\* Reading on keeps a run linear.
LEMMA LinearAppend ==
    ASSUME NEW a \in Int, NEW s \in Seq(Position), NEW p \in Position,
           Linear(s, a), p = a + Len(s)
    PROVE  /\ Append(s, p) \in Seq(Position) /\ Len(Append(s, p)) = Len(s) + 1
           /\ Linear(Append(s, p), a)
<1>1. /\ Append(s, p) \in Seq(Position) /\ Len(Append(s, p)) = Len(s) + 1
      /\ \A i \in 1 .. Len(s) : Append(s, p)[i] = s[i]
      /\ Append(s, p)[Len(s) + 1] = p
  OBVIOUS
<1> QED
  BY <1>1 DEF Linear

\* What stitchPlaylist makes of a playlist and a run.
LEMMA StitchExtends ==
    ASSUME NEW a \in Int, NEW b \in Seq(Position), NEW s \in Seq(Position), Linear(s, a)
    PROVE  /\ stitchPlaylist(b, s) \in Seq(Position)
           /\ Len(stitchPlaylist(b, s)) = Len(b) + Len(s)
           /\ Extends(stitchPlaylist(b, s), b, a)
<1> DEFINE t == stitchPlaylist(b, s)
<1>1. /\ t \in Seq(Position) /\ Len(t) = Len(b) + Len(s)
      /\ \A i \in 1 .. Len(b) : t[i] = b[i]
      /\ \A i \in Len(b) + 1 .. Len(b) + Len(s) : t[i] = s[i - Len(b)]
  BY DEF stitchPlaylist
<1> HIDE DEF t
<1>2. \A i \in Len(b) + 1 .. Len(t) : t[i] = a + (i - Len(b)) - 1
  <2> SUFFICES ASSUME NEW i \in Len(b) + 1 .. Len(t)
               PROVE  t[i] = a + (i - Len(b)) - 1
    OBVIOUS
  <2>1. i - Len(b) \in 1 .. Len(s) /\ t[i] = s[i - Len(b)]
    BY <1>1
  <2> QED
    BY <2>1 DEF Linear
<1>3. Extends(t, b, a)
  BY <1>1, <1>2 DEF Extends
<1> QED
  BY <1>1, <1>3 DEF t

\* Of two stitches of one run the shorter is a prefix of the longer.
LEMMA StitchPrefix ==
    ASSUME NEW a \in Int, NEW b \in Seq(Position), NEW s \in Seq(Position),
           NEW t \in Seq(Position), Extends(s, b, a), Extends(t, b, a), Len(s) <= Len(t)
    PROVE  IsPrefix(s, t)
<1>1. \A i \in 1 .. Len(s) : s[i] = t[i]
  BY DEF Extends
<1> QED
  BY <1>1 DEF IsPrefix

\* A list that covers all there is before a run covers, with a part of the run behind
\* it, all there is before the end of that part.
LEMMA StitchCovers ==
    ASSUME NEW a \in Int, NEW b \in Seq(Position),
           NEW s \in Seq(Position), Extends(s, b, a), InOrder(b), Covers(b, a)
    PROVE  InOrder(s) /\ Covers(s, a + (Len(s) - Len(b)))
<1> USE Bounds
<1>1. ASSUME NEW p \in Position, p >= a, NEW n \in Len(b) .. Len(s), p < a + (n - Len(b))
      PROVE  \E j \in 1 .. n : s[j] = p
  <2> DEFINE j == p - a + Len(b) + 1
  <2>1. j \in Len(b) + 1 .. n
    BY <1>1 DEF Position
  <2>2. s[j] = p
    <3>1. j \in Len(b) + 1 .. Len(s) /\ a + (j - Len(b)) - 1 = p
      BY <2>1 DEF Position
    <3> HIDE DEF j
    <3> QED
      BY <3>1 DEF Extends
  <2> QED
    BY <2>1, <2>2
<1>2. ASSUME NEW p \in Position, p < a
      PROVE  p \in dead \/ \E j \in 1 .. Len(b) : s[j] = p
  BY <1>2 DEF Covers, Extends
<1>3. Covers(s, a + (Len(s) - Len(b)))
  <2> SUFFICES ASSUME NEW p \in Position, p < a + (Len(s) - Len(b))
               PROVE  p \in dead \/ \E j \in 1 .. Len(s) : s[j] = p
    BY DEF Covers
  <2>1. CASE p < a
    BY <1>2, <2>1 DEF Extends
  <2>2. CASE p >= a
    BY <1>1, <2>2 DEF Extends
  <2> QED
    BY <2>1, <2>2 DEF Position
<1>4. InOrder(s)
  <2> SUFFICES ASSUME NEW i \in 1 .. Len(s), NEW p \in From .. s[i] - 1
               PROVE  p \in dead \/ \E j \in 1 .. i - 1 : s[j] = p
    BY DEF InOrder
  <2>1. s[i] \in Position /\ p \in Position /\ p < s[i]
    BY DEF Position
  <2>2. CASE i <= Len(b)
    <3>1. i \in 1 .. Len(b) /\ p \in From .. b[i] - 1
      BY <2>2 DEF Extends
    <3>2. p \in dead \/ \E j \in 1 .. i - 1 : b[j] = p
      BY <3>1 DEF InOrder
    <3>3. \A j \in 1 .. i - 1 : s[j] = b[j]
      BY <2>2 DEF Extends
    <3> QED
      BY <3>2, <3>3
  <2>3. CASE i > Len(b)
    <3>1. s[i] = a + (i - Len(b)) - 1 /\ i - 1 \in Len(b) .. Len(s)
      BY <2>3 DEF Extends
    <3>2. CASE p < a
      BY <1>2, <2>1, <3>1, <3>2
    <3>3. CASE p >= a
      <4>1. p < a + ((i - 1) - Len(b))
        BY <2>1, <3>1 DEF Position
      <4> QED
        BY <1>1, <2>1, <3>1, <3>3, <4>1
    <3> QED
      BY <2>1, <3>2, <3>3 DEF Position
  <2> QED
    BY <2>2, <2>3
<1> QED
  BY <1>3, <1>4

\* So does the first run, by itself.
LEMMA LinearCovers ==
    ASSUME NEW s \in Seq(Position), Linear(s, From)
    PROVE  InOrder(s) /\ Covers(s, From + Len(s))
<1>1. /\ <<>> \in Seq(Position) /\ Extends(s, <<>>, From) /\ From \in Int
      /\ InOrder(<<>>) /\ Covers(<<>>, From)
  BY Bounds DEF Extends, Linear, InOrder, Covers, Position
<1>2. InOrder(s) /\ Covers(s, From + (Len(s) - Len(<<>>)))
  BY <1>1, StitchCovers
<1>3. From + (Len(s) - Len(<<>>)) = From + Len(s)
  BY Bounds
<1> QED
  BY <1>2, <1>3

\* The first run reads on.
LEMMA FirstReadsStep ==
    ASSUME ContInv, FirstReads
    PROVE  ContInv' /\ IsPrefix(index, index')
<1> USE Bounds
<1>1. /\ pc = "first" /\ pos < Length /\ pos = From + Len(index) /\ Linear(index, From)
      /\ index' = Append(index, pos) /\ pos' = pos + 1 /\ index \in Seq(Position)
      /\ UNCHANGED <<stops, dead, endlist, prefix, cont, body, stitcher, pc, start,
                     attempt, skip, stored, seen, latched, mishap>>
  BY DEF FirstReads, Readable, defects, side, loop, player,
         ContInv, StageInv, TypeOK, Position
<1>2. pos \in Position
  BY <1>1 DEF Position
<1>3. /\ index' \in Seq(Position) /\ Len(index') = Len(index) + 1 /\ Linear(index', From)
  BY <1>1, <1>2, LinearAppend
<1>4. TypeOK'
  BY <1>1, <1>3 DEF ContInv, StageInv, TypeOK, Position
<1>5. StageInv' /\ StitchInv'
  BY <1>1, <1>3 DEF ContInv, StageInv, StitchInv
<1>6. CoverInv'
  <2>1. InOrder(index') /\ Covers(index', From + Len(index'))
    BY <1>3, LinearCovers
  <2>2. InOrder(index)' /\ Covers(index, From + Len(index))'
    <3>1. dead' = dead
      BY <1>1
    <3> QED
      BY <2>1, <3>1, Zenon DEF InOrder, Covers
  <2>3. skip = 0 /\ From + Len(index') + skip' = From + Len(index')
    BY <1>1, <1>3 DEF ContInv, StageInv
  <2> QED
    BY <1>1, <2>2, <2>3 DEF CoverInv
<1>7. IsPrefix(index, index')
  BY <1>1, <1>2 DEF IsPrefix
<1> QED
  BY <1>4, <1>5, <1>6, <1>7 DEF ContInv

\* The steps that leave the playlist's segments and the run alone, ENDLIST, the store
\* and the player's polls included.
LEMMA QuietStep ==
    ASSUME ContInv,
           \/ FirstExits \/ FirstKilled \/ RunKilled \/ Strip \/ StripFails
           \/ Probe \/ Enough \/ Abandon \/ Close \/ Stop \/ Poll
    PROVE  ContInv'
<1> USE Bounds
<1>1. /\ UNCHANGED <<stops, dead, index, prefix, cont, body, stitcher, start, pos,
                     attempt, skip>>
      /\ mishap' \in {mishap, mishap \cup {"disk"}}
  BY DEF FirstExits, FirstKilled, RunKilled, Strip, StripFails, Probe, Enough,
         Abandon, Close, Stop, Poll, defects, playlist, side, reader,
         loop, player
<1>2. \/ pc' = pc
      \/ pc = "first" /\ pc' \in {"strip", "done"}
      \/ pc = "run" /\ pc' = "killed"
      \/ pc = "strip" /\ pc' \in {"probe", "done"}
      \/ pc = "probe" /\ pc' \in {"check", "close"}
      \/ pc = "check" /\ pc' = "close"
      \/ pc = "killed" /\ pc' = "close" /\ stitcher = "off"
      \/ pc = "close" /\ pc' = "done"
  BY DEF FirstExits, FirstKilled, RunKilled, Strip, StripFails, Probe, Enough,
         Abandon, Close, Stop, Poll, At
<1>3. /\ endlist' \in BOOLEAN
      /\ endlist' => pc' \in {"strip", "done"}
  <2>1. CASE FirstExits
    BY <2>1 DEF FirstExits, At
  <2>2. CASE Strip
    BY <2>2 DEF Strip
  <2>3. CASE Close
    BY <2>3 DEF Close, At, Written, ContInv, TypeOK
  <2>4. CASE \/ FirstKilled \/ RunKilled \/ StripFails \/ Probe \/ Enough
             \/ Abandon \/ Stop \/ Poll
    <3>1. endlist' = endlist /\ (pc' = pc \/ pc' = "done" \/ pc # "strip")
      BY <2>4 DEF FirstKilled, RunKilled, StripFails, Probe, Enough, Abandon,
                  Stop, Poll, At, playlist
    <3> QED
      BY <1>2, <3>1 DEF ContInv, TypeOK, StageInv
  <2> QED
    BY <2>1, <2>2, <2>3, <2>4
<1>4. seen' \in {seen, Len(index)}
  BY DEF FirstExits, FirstKilled, RunKilled, Strip, StripFails, Probe, Enough,
         Abandon, Close, Stop, Poll, player
<1>5. TypeOK'
  BY <1>1, <1>2, <1>3, <1>4 DEF ContInv, TypeOK
<1>6. StageInv'
  BY <1>1, <1>2, <1>3, <1>4 DEF ContInv, TypeOK, StageInv, Linear
<1>8. StitchInv'
  BY <1>1, <1>2 DEF ContInv, StitchInv, Linear, Extends
<1>7. CoverInv'
  <2>1. InOrder(index)' = InOrder(index) /\ InOrder(prefix)' = InOrder(prefix)
        /\ Covers(prefix, start)' = Covers(prefix, start)
        /\ Covers(index, From + Len(index) + skip)' = Covers(index, From + Len(index) + skip)
    BY <1>1 DEF InOrder, Covers
  <2> QED
    BY <1>1, <1>2, <2>1 DEF ContInv, CoverInv
<1> QED
  BY <1>5, <1>6, <1>7, <1>8 DEF ContInv

\* A continuation starts.
LEMMA ContinueStep ==
    ASSUME ContInv, Continue
    PROVE  ContInv'
<1> USE Bounds
<1>1. /\ pc = "check" /\ pc' = "run" /\ attempt <= MaxContinuations
      /\ prefix' = index /\ cont' = <<>> /\ body' = <<>> /\ stitcher' = "wait"
      /\ start' = From + Len(index) + skip /\ pos' = start'
      /\ UNCHANGED <<stops, dead, index, endlist, attempt, skip, seen, mishap>>
  BY DEF Continue, At, producedEnd, defects, playlist, loop, player
<1>2. /\ index \in Seq(Position) /\ <<>> \in Seq(Position)
      /\ seen \in Nat /\ skip \in Nat /\ Len(index) \in Nat
  BY DEF ContInv, TypeOK, StageInv, Position
<1>3. TypeOK'
  BY <1>1, <1>2 DEF ContInv, TypeOK, Position
<1>4. StageInv'
  BY <1>1, <1>2 DEF ContInv, TypeOK, StageInv
<1>5. StitchInv'
  BY <1>1, <1>2 DEF StitchInv, Linear, Extends
<1>6. CoverInv'
  <2>1. CASE Lossy
    BY <1>1, <2>1 DEF CoverInv
  <2>2. CASE ~Lossy
    <3>1. InOrder(index) /\ Covers(index, From + Len(index) + skip)
      BY <1>1, <2>2 DEF ContInv, CoverInv
    <3>2. InOrder(index)' /\ InOrder(prefix)' /\ Covers(prefix, start)'
      BY <1>1, <3>1 DEF InOrder, Covers
    <3> QED
      BY <1>1, <3>2 DEF CoverInv
  <2> QED
    BY <2>1, <2>2
<1> QED
  BY <1>3, <1>4, <1>5, <1>6 DEF ContInv

\* ffmpeg reads on and exits, and the goroutine reads what it wrote.
LEMMA RunStep ==
    ASSUME ContInv,
           RunReads \/ RunExits \/ StitchRead
    PROVE  ContInv'
<1> USE Bounds
<1>1. /\ pc = "run" \/ (StitchRead /\ pc \in {"run", "exited", "killed"})
      /\ UNCHANGED <<stops, dead, index, endlist, prefix, start, attempt, skip, seen>>
  BY DEF RunReads, RunExits, StitchRead, At, defects, playlist, side,
         reader, loop, player, ContInv, StageInv
<1>2. /\ index \in Seq(Position) /\ cont \in Seq(Position) /\ body \in Seq(Position)
      /\ prefix \in Seq(Position) /\ seen \in Nat /\ skip \in Nat
      /\ start = From + Len(prefix) + skip /\ pos = start + Len(cont) /\ start \in Nat
      /\ Linear(cont, start) /\ Linear(body, start) /\ Len(body) <= Len(cont)
      /\ Extends(index, prefix, start) /\ Len(index) <= Len(prefix) + Len(body)
  BY <1>1 DEF ContInv, TypeOK, StageInv, StitchInv, Position
<1>3. Extends(index, prefix, start)'
  BY <1>1, <1>2 DEF Extends
<1>4. /\ InOrder(index)' = InOrder(index) /\ InOrder(prefix)' = InOrder(prefix)
      /\ Covers(prefix, start)' = Covers(prefix, start)
  BY <1>1 DEF InOrder, Covers
<1>5. CASE RunReads
  <2>1. /\ pc = "run" /\ pos < Length /\ cont' = Append(cont, pos) /\ pos' = pos + 1
        /\ UNCHANGED <<body, stitcher, pc, mishap>>
    BY <1>5 DEF RunReads, Readable
  <2>2. pos \in Position
    BY <1>2, <2>1 DEF Position
  <2>3. /\ cont' \in Seq(Position) /\ Len(cont') = Len(cont) + 1 /\ Linear(cont', start)
    BY <1>2, <2>1, <2>2, LinearAppend
  <2>4. Linear(cont, start)' /\ Linear(body, start)'
    BY <1>1, <1>2, <2>1, <2>3 DEF Linear
  <2>5. TypeOK'
    BY <1>1, <2>1, <2>3 DEF ContInv, TypeOK, Position
  <2>6. StageInv' /\ StitchInv'
    BY <1>1, <1>2, <1>3, <2>1, <2>3, <2>4 DEF ContInv, StageInv, StitchInv
  <2>7. CoverInv'
    BY <1>4, <2>1 DEF ContInv, CoverInv
  <2> QED
    BY <2>5, <2>6, <2>7 DEF ContInv
<1>6. CASE RunExits
  <2>1. /\ pc = "run" /\ pc' = "exited" /\ UNCHANGED <<cont, body, stitcher, pos>>
        /\ mishap' = IF Readable THEN mishap \cup {"fail"} ELSE mishap
    BY <1>6 DEF RunExits, At, side, reader
  <2>2. TypeOK'
    BY <1>1, <2>1 DEF ContInv, TypeOK, Position
  <2>3. StageInv' /\ StitchInv'
    BY <1>1, <1>2, <1>3, <2>1 DEF ContInv, StageInv, StitchInv, Linear
  <2>4. cont = <<>> /\ ~Readable => start >= Length \/ start \in dead
    BY <1>2 DEF Readable
  <2>5. CoverInv'
    BY <1>1, <1>4, <2>1, <2>4 DEF ContInv, CoverInv
  <2> QED
    BY <2>2, <2>3, <2>5 DEF ContInv
<1>7. CASE StitchRead
  <2>1. /\ body' = cont /\ stitcher' = "write" /\ UNCHANGED <<cont, pos, pc, mishap>>
    BY <1>7 DEF StitchRead, reader
  <2>2. TypeOK'
    BY <1>1, <2>1 DEF ContInv, TypeOK, Position
  <2>3. StageInv' /\ StitchInv'
    BY <1>1, <1>2, <1>3, <2>1 DEF ContInv, StageInv, StitchInv, Linear
  <2>4. CoverInv'
    BY <1>1, <1>4, <2>1 DEF ContInv, CoverInv
  <2> QED
    BY <2>2, <2>3, <2>4 DEF ContInv
<1> QED
  BY <1>5, <1>6, <1>7

\* The goroutine writes what it read, or its write fails; after the run it may end.
LEMMA StitchWriteStep ==
    ASSUME ContInv, StitchWrite
    PROVE  ContInv' /\ IsPrefix(index, index') /\ ~endlist
<1> USE Bounds
<1> DEFINE t == stitchPlaylist(prefix, body)
<1>1. /\ pc \in {"run", "exited", "killed"} /\ ~endlist
      /\ UNCHANGED <<stops, dead, prefix, cont, body, pc, start, pos, attempt, skip,
                     seen, mishap>>
      /\ stitcher' \in {"wait", "off"}
  BY DEF StitchWrite, defects, reader, loop, player, ContInv, StageInv
<1>2. /\ index' \in {index, t} /\ ~endlist' /\ endlist' \in BOOLEAN
  <2>1. PICK p \in Written(playlist, <<t, FALSE>>) : index' = p[1] /\ endlist' = p[2]
    BY DEF StitchWrite
  <2>2. p = <<t, FALSE>> \/ p = <<index, endlist>>
    BY DEF Written, playlist
  <2>3. CASE p = <<t, FALSE>>
    BY <2>1, <2>3
  <2>4. CASE p = <<index, endlist>>
    BY <1>1, <2>1, <2>4 DEF ContInv, TypeOK
  <2> QED
    BY <2>2, <2>3, <2>4
<1>3. /\ index \in Seq(Position) /\ body \in Seq(Position) /\ prefix \in Seq(Position)
      /\ seen \in Nat /\ skip \in Nat /\ start = From + Len(prefix) + skip /\ start \in Nat
      /\ Linear(body, start) /\ Extends(index, prefix, start)
      /\ Len(index) <= Len(prefix) + Len(body)
  BY <1>1 DEF ContInv, TypeOK, StageInv, StitchInv, Position
<1>4. /\ t \in Seq(Position) /\ Len(t) = Len(prefix) + Len(body)
      /\ Extends(t, prefix, start)
  BY <1>3, StitchExtends
<1> HIDE DEF t
<1>5. /\ index' \in Seq(Position) /\ Extends(index', prefix, start)
      /\ Len(index') <= Len(prefix) + Len(body) /\ Len(index) <= Len(index')
  BY <1>2, <1>3, <1>4
<1>6. IsPrefix(index, index')
  BY <1>3, <1>5, StitchPrefix
<1>7. TypeOK'
  BY <1>1, <1>2, <1>3, <1>5 DEF ContInv, TypeOK, Position
<1>8. StageInv'
  BY <1>1, <1>2 DEF ContInv, StageInv
<1>9. StitchInv'
  BY <1>1, <1>5 DEF ContInv, StitchInv, Linear, Extends
<1>10. CoverInv'
  <2>1. CASE Lossy
    BY <1>1, <2>1 DEF CoverInv
  <2>2. CASE ~Lossy
    <3>1. InOrder(prefix) /\ Covers(prefix, start)
      BY <1>1, <2>2 DEF ContInv, CoverInv
    <3>2. InOrder(index')
      BY <1>3, <1>5, <3>1, StitchCovers
    <3>3. InOrder(index)' /\ InOrder(prefix)' /\ Covers(prefix, start)'
      BY <1>1, <3>1, <3>2 DEF InOrder, Covers
    <3> QED
      BY <1>1, <3>3 DEF ContInv, CoverInv
  <2> QED
    BY <2>1, <2>2
<1> QED
  BY <1>1, <1>6, <1>7, <1>8, <1>9, <1>10 DEF ContInv

\* The finished run is folded in, or its read or the write fails, and the skip is set.
LEMMA FoldStep ==
    ASSUME ContInv, Fold
    PROVE  /\ ContInv' /\ ~endlist
           /\ IsPrefix(index, index')
              \/ (pc = "exited" /\ index' = prefix /\ "reread" \in mishap')
<1> USE Bounds
<1> DEFINE t == stitchPlaylist(prefix, cont)
<1>0. PICK read \in readFileOrNil(cont) :
         /\ index' \in {index, stitchPlaylist(prefix, read)}
         /\ skip' = IF read # <<>> THEN 0 ELSE skip + 1
         /\ mishap' = IF read = cont THEN mishap ELSE mishap \cup {"reread"}
  BY DEF Fold, Written, continuationSkip
<1>1. /\ pc = "exited" /\ stitcher = "off" /\ ~endlist /\ cont' = <<>>
      /\ attempt' = attempt + 1
      /\ pc' = IF skip' > MaxSkip THEN "close" ELSE "check"
      /\ UNCHANGED <<stops, dead, endlist, prefix, body, stitcher, seen>>
  BY DEF Fold, defects, player, ContInv, StageInv
<1>2. /\ index \in Seq(Position) /\ cont \in Seq(Position) /\ prefix \in Seq(Position)
      /\ seen \in Nat /\ skip \in Nat /\ start = From + Len(prefix) + skip /\ start \in Nat
      /\ Linear(cont, start) /\ Extends(index, prefix, start)
      /\ Len(index) <= Len(prefix) + Len(cont)
      /\ attempt \in Nat /\ attempt >= 1 /\ attempt <= MaxContinuations /\ skip <= MaxSkip
  BY <1>1 DEF ContInv, TypeOK, StageInv, StitchInv, Position
<1>10. /\ skip' \in 0 .. MaxSkip + 1 /\ attempt' \in 1 .. MaxContinuations + 1
       /\ mishap' \subseteq {"fail", "disk", "reread"} /\ <<>> \in Seq(Position)
  BY <1>0, <1>1, <1>2 DEF ContInv, TypeOK
<1>7. StageInv'
  BY <1>0, <1>1, <1>2 DEF ContInv, StageInv
<1>8. StitchInv'
  BY <1>1 DEF StitchInv
\* The read failed: the list from before the run is put back, or nothing written.
<1>11. CASE read # cont
  <2>1. read = <<>> /\ "reread" \in mishap'
    BY <1>0, <1>11 DEF readFileOrNil
  <2>2. stitchPlaylist(prefix, read) = prefix
    BY <1>2, <2>1 DEF stitchPlaylist
  <2>3. index' \in {index, prefix}
    BY <1>0, <2>2
  <2>4. index' \in Seq(Position)
    BY <1>2, <2>3
  <2>5. TypeOK'
    BY <1>1, <1>10, <2>4 DEF ContInv, TypeOK, Position
  <2>6. CoverInv'
    BY <2>1 DEF CoverInv
  <2>7. index' = index => IsPrefix(index, index')
    BY <1>2 DEF IsPrefix
  <2> QED
    BY <1>1, <1>7, <1>8, <2>1, <2>3, <2>5, <2>6, <2>7 DEF ContInv
<1>12. SUFFICES ASSUME read = cont
                PROVE  ContInv' /\ ~endlist /\ IsPrefix(index, index')
  BY <1>11, <1>12
<1>13. /\ index' \in {index, t} /\ mishap' = mishap
       /\ skip' = IF cont # <<>> THEN 0 ELSE skip + 1
  BY <1>0, <1>12
<1>3. /\ t \in Seq(Position) /\ Len(t) = Len(prefix) + Len(cont)
      /\ Extends(t, prefix, start)
  BY <1>2, StitchExtends
<1> HIDE DEF t
<1>4. /\ index' \in Seq(Position) /\ Extends(index', prefix, start)
      /\ Len(index') <= Len(prefix) + Len(cont) /\ Len(index) <= Len(index')
  BY <1>2, <1>3, <1>13
<1>5. IsPrefix(index, index')
  BY <1>2, <1>4, StitchPrefix
<1>6. TypeOK'
  BY <1>1, <1>4, <1>10 DEF ContInv, TypeOK, Position
<1>9. CoverInv'
  <2>1. CASE Lossy
    BY <1>13, <2>1 DEF CoverInv
  <2>2. CASE ~Lossy
    <3>1. /\ InOrder(prefix) /\ Covers(prefix, start)
          /\ cont = <<>> => start >= Length \/ start \in dead
      BY <1>1, <2>2 DEF ContInv, CoverInv
    <3>2. InOrder(index') /\ Covers(index', start + (Len(index') - Len(prefix)))
      BY <1>2, <1>4, <3>1, StitchCovers
    <3>3. Covers(index', From + Len(index') + skip')
      <4>1. CASE cont # <<>>
        <5>1. From + Len(index') + skip' <= start + (Len(index') - Len(prefix))
          BY <1>2, <1>4, <1>13, <4>1
        <5>2. \A p \in Position : p < From + Len(index') + skip' =>
                                    p < start + (Len(index') - Len(prefix))
          BY <1>2, <1>4, <1>13, <4>1, <5>1
        <5> QED
          BY <3>2, <5>2 DEF Covers
      <4>2. CASE cont = <<>>
        <5>3. /\ Len(cont) = 0 /\ Len(prefix) \in Nat /\ Len(index') \in Nat
              /\ Len(prefix) <= Len(index') /\ skip' = skip + 1
          BY <1>2, <1>4, <1>13, <4>2 DEF Extends
        <5>4. Len(index') = Len(prefix)
          BY <1>4, <5>3
        <5>1. /\ start + (Len(index') - Len(prefix)) = start
              /\ From + Len(index') + skip' = start + 1
          BY ONLY <1>2, <5>3, <5>4, Bounds
        <5>2. \A p \in Position : p < start + 1 => p < start \/ p \in dead
          BY <1>2, <3>1, <4>2 DEF Position
        <5> QED
          BY <3>2, <5>1, <5>2 DEF Covers
      <4> QED
        BY <4>1, <4>2
    <3>4. InOrder(index)' /\ Covers(index, From + Len(index) + skip)'
      BY <1>1, <3>2, <3>3 DEF InOrder, Covers
    <3> QED
      BY <1>1, <3>4 DEF CoverInv
  <2> QED
    BY <2>1, <2>2
<1> QED
  BY <1>1, <1>5, <1>6, <1>7, <1>8, <1>9 DEF ContInv

\* Every step keeps the invariant; the playlist grows, if it changes and the change is
\* not a fold without its read, and has not ended unless the worker is about to strip
\* the end.
LEMMA ContStep ==
    ASSUME ContInv, [Next]_vars
    PROVE  /\ ContInv'
           /\ IsPrefix(index, index')
              \/ (pc = "exited" /\ index' = prefix /\ "reread" \in mishap')
           /\ endlist /\ pc # "strip" => UNCHANGED <<index, endlist>>
<1>1. index' = index => IsPrefix(index, index')
  BY Bounds DEF ContInv, TypeOK, IsPrefix
<1>2. CASE FirstReads
  BY <1>2, FirstReadsStep DEF FirstReads, ContInv, StageInv
<1>3. CASE \/ FirstExits \/ FirstKilled \/ RunKilled \/ Strip \/ StripFails
           \/ Probe \/ Enough \/ Abandon \/ Close \/ Stop \/ Poll
  <2>1. index' = index
    BY <1>3 DEF FirstExits, FirstKilled, RunKilled, Strip, StripFails, Probe,
                Enough, Abandon, Close, Stop, Poll, playlist
  <2>2. endlist /\ pc # "strip" => endlist' = endlist
    BY <1>3 DEF FirstExits, FirstKilled, RunKilled, Strip, StripFails, Probe,
                Enough, Abandon, Close, Stop, Poll, playlist, At,
                ContInv, StageInv
  <2> QED
    BY <1>1, <1>3, <2>1, <2>2, QuietStep
<1>4. CASE Continue
  BY <1>1, <1>4, ContinueStep DEF Continue, playlist
<1>5. CASE RunReads \/ RunExits \/ StitchRead
  BY <1>1, <1>5, RunStep DEF RunReads, RunExits, StitchRead, playlist
<1>6. CASE StitchWrite
  BY <1>6, StitchWriteStep
<1>7. CASE Fold
  BY <1>7, FoldStep
<1>8. CASE UNCHANGED vars
  BY <1>1, <1>8 DEF vars, defects, playlist, side, reader, loop, player,
         ContInv, TypeOK, StageInv, StitchInv, CoverInv, Linear, Extends, InOrder, Covers
<1> QED
  BY <1>2, <1>3, <1>4, <1>5, <1>6, <1>7, <1>8
     DEF Next, Ffmpeg, Stitcher, Worker

\* Nothing is listed to begin with.
LEMMA ContInit ==
    ASSUME Init
    PROVE  ContInv
<1>1. TypeOK
  <2>1. /\ <<>> \in Seq(From .. Length - 1) /\ Len(<<>>) = 0
        /\ 1 \in 1 .. MaxContinuations + 1 /\ 0 \in 0 .. MaxSkip + 1
    BY Bounds
  <2>2. /\ index \in Seq(From .. Length - 1) /\ prefix \in Seq(From .. Length - 1)
        /\ cont \in Seq(From .. Length - 1) /\ body \in Seq(From .. Length - 1)
        /\ seen \in Nat
    BY <2>1 DEF Init
  <2>3. attempt \in 1 .. MaxContinuations + 1 /\ skip \in 0 .. MaxSkip + 1
    BY <2>1 DEF Init
  <2>4. endlist \in BOOLEAN /\ dead \subseteq stops /\ mishap \subseteq {"fail", "disk", "reread"}
    BY DEF Init
  <2> QED
    BY <2>2, <2>3, <2>4 DEF Init, TypeOK
<1>2. StageInv /\ StitchInv
  BY Bounds DEF Init, StageInv, StitchInv, Linear
<1>3. CoverInv
  BY Bounds DEF Init, CoverInv, InOrder, Covers, Position
<1> QED
  BY <1>1, <1>2, <1>3 DEF ContInv

\* Skipping a defect gives up what no seek can read and nothing else, whatever runs and
\* stitches are cut short and whichever writes fail, as long as no run fails where it
\* could read on or cannot be read back: for a source of any length with any defects.
THEOREM NothingReadableLost ==
    Spec => []ContinuationInv
<1>1. Init => ContInv
  BY ContInit
<1>2. ContInv /\ [Next]_vars => ContInv'
  BY ContStep
<1>3. ContInv => ContinuationInv
  <2>1. TypeOK => DOMAIN index = 1 .. Len(index)
    BY DEF TypeOK
  <2> QED
    BY <2>1 DEF ContInv, CoverInv, InOrder, ContinuationInv, NothingLost
<1> QED
  BY <1>1, <1>2, <1>3, PTL DEF Spec

\* A player that polls sees a segment taken back by one step only, the fold that could
\* not read cont.m3u8 again, and a playlist that has ended, after the worker has taken
\* ffmpeg's end off, is final: whatever else fails.
THEOREM RewritesExtend ==
    Spec => PlaylistSettles
<1>1. Init => ContInv
  BY ContInit
<1>2. ContInv /\ [Next]_vars => ContInv'
  BY ContStep
<1>3. ContInv /\ [Next]_vars =>
      [IsPrefix(index, index')
       \/ (pc = "exited" /\ index' = prefix /\ "reread" \in mishap')]_vars
  BY ContStep
<1>4. ContInv /\ [Next]_vars =>
      [endlist /\ pc # "strip" => UNCHANGED playlist]_vars
  BY ContStep DEF playlist
<1> QED
  BY <1>1, <1>2, <1>3, <1>4, PTL
     DEF Spec, PlaylistSettles, AppendOnly, EndlistIsFinal
=============================================================================

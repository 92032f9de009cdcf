------------------------- MODULE SessionSync_proofs -------------------------
(***************************************************************************)
(* Proofs about the capture of marked lines: whatever the other program    *)
(* appends or starts over, and whenever runs are refused, killed or lose   *)
(* their cursors, no cursor passes a marker that is not stored, for any    *)
(* number of transcripts, lines, markers and processes.  The lock is not   *)
(* needed for it.                                                          *)
(***************************************************************************)
EXTENDS SessionSync, TLAPS

LEMMA NoneIsNoRun == None \notin Run /\ None \notin Session /\ None \notin Seq(Lines)
BY SyncAssumption, RunAssumption

LEMMA NumbersAreNumbers ==
  /\ Session \subseteq Nat
  /\ Lines \subseteq Seq(Content)
BY SyncAssumption

-----------------------------------------------------------------------------
(* Types.                                                                  *)
LEMMA RunFields ==
  ASSUME NEW r \in Run
  PROVE  /\ r.cursors \in [Session -> Nat] /\ r.left \in SUBSET Session
         /\ r.at \in Session \cup {None} /\ r.offset \in Nat
         /\ r.line \in Seq(Content) /\ r.sent \in Nat
BY DEF Run

(* The updates a run's locals go through.                                  *)
LEMMA SkippedRun ==
  ASSUME NEW r \in Run, NEW o \in Nat, NEW n, n = [r EXCEPT !.offset = o]
  PROVE  /\ n \in Run
         /\ n.cursors = r.cursors /\ n.left = r.left /\ n.at = r.at /\ n.offset = o
         /\ n.line = r.line /\ n.sent = r.sent
BY DEF Run

LEMMA SentRun ==
  ASSUME NEW r \in Run, NEW sent \in Nat, NEW n, n = [r EXCEPT !.sent = sent]
  PROVE  /\ n \in Run
         /\ n.cursors = r.cursors /\ n.left = r.left /\ n.at = r.at
         /\ n.offset = r.offset /\ n.line = r.line /\ n.sent = sent
BY DEF Run

LEMMA RunTypes ==
  ASSUME TypeOK, NEW p \in Proc, Running(p)
  PROVE  run[p] \in Run
BY DEF TypeOK, Running

LEMMA LinesTypes ==
  ASSUME TypeOK, NEW s \in Session
  PROVE  /\ LinesOf(s) \in Seq(Lines)
         /\ text[s] # None => text[s] \in Seq(Lines)
         /\ Len(LinesOf(s)) \in Nat /\ written[s] \in Nat
         /\ DOMAIN LinesOf(s) = 1 .. Len(LinesOf(s))
         /\ \A j \in DOMAIN LinesOf(s) :
              LinesOf(s)[j] \in Seq(Content) /\ LinesOf(s)[j] = text[s][j]
<1>1. text[s] \in Seq(Lines) \cup {None} /\ written[s] \in Nat
  BY DEF TypeOK
<1>2. CASE text[s] = None
  BY <1>1, <1>2 DEF LinesOf
<1>3. CASE text[s] # None
  BY <1>1, <1>3, NumbersAreNumbers DEF LinesOf
<1> QED
  BY <1>2, <1>3

LEMMA HalfLines ==
  ASSUME NEW o \in Nat
  PROVE  /\ LineAt(o) \in Nat \ {0}
         /\ 2 * LineAt(o) = IF o % 2 = 0 THEN o + 2 ELSE o + 1
         /\ o % 2 = 0 => (o + 2) % 2 = 0
BY DEF LineAt

(* Where a run reads next: a whole line, or a piece that reaches the end   *)
(* of its line or of what there is.                                        *)
LEMMA Reads ==
  ASSUME TypeOK, SizesFit, NEW s \in Session, NEW o \in Nat, NEW end,
         end = LineEnd(s, o), o < written[s]
  PROVE  /\ end \in Nat /\ o < end /\ end <= written[s] /\ end <= o + 2
         /\ IsWhole(o, end) => /\ o % 2 = 0 /\ end = 2 * LineAt(o)
                               /\ LineAt(o) \in DOMAIN LinesOf(s)
                               /\ text[s] # None
                               /\ text[s][LineAt(o)] \in Seq(Content)
                               /\ text[s][LineAt(o)] = LinesOf(s)[LineAt(o)]
         /\ ~ IsWhole(o, end) => end = o + 1 /\ 2 * LineAt(o) <= o + 2
<1>1. /\ LineAt(o) \in Nat \ {0}
      /\ 2 * LineAt(o) = IF o % 2 = 0 THEN o + 2 ELSE o + 1
  BY HalfLines
<1>2. /\ Len(LinesOf(s)) \in Nat /\ written[s] \in Nat
      /\ DOMAIN LinesOf(s) = 1 .. Len(LinesOf(s))
      /\ \A j \in DOMAIN LinesOf(s) :
           LinesOf(s)[j] \in Seq(Content) /\ LinesOf(s)[j] = text[s][j]
  BY LinesTypes
<1>3. written[s] <= 2 * Len(LinesOf(s))
  BY DEF SizesFit
<1>4. /\ end \in Nat /\ o < end /\ end <= written[s] /\ end <= o + 2
  BY <1>1, <1>2 DEF LineEnd
<1>5. ~ IsWhole(o, end) => end = o + 1 /\ 2 * LineAt(o) <= o + 2
  BY <1>1, <1>4 DEF IsWhole
<1>6. ASSUME IsWhole(o, end)
      PROVE  /\ o % 2 = 0 /\ end = 2 * LineAt(o) /\ LineAt(o) \in DOMAIN LinesOf(s)
  <2>1. end = o + 2
    BY <1>6 DEF IsWhole
  <2>2. o % 2 = 0
    BY <1>1, <1>2, <2>1 DEF LineEnd
  <2>3. 2 * LineAt(o) = o + 2 /\ LineAt(o) <= Len(LinesOf(s))
    BY <1>1, <1>2, <1>3, <1>4, <2>1, <2>2
  <2> QED
    BY <1>1, <1>2, <2>1, <2>2, <2>3
<1>7. LineAt(o) \in DOMAIN LinesOf(s) => text[s] # None
  BY DEF LinesOf
<1> QED
  BY <1>2, <1>4, <1>5, <1>6, <1>7

TypeInv == TypeOK /\ SizesFit

LEMMA TypeStops ==
  ASSUME TypeInv, NEW p \in Proc, Stop(p), UNCHANGED <<transcripts, stored, missed, rewritten>>,
         saved' \in [Session -> Nat], mishaps' \in Nat
  PROVE  TypeInv'
BY DEF TypeInv, TypeOK, SizesFit, Stop, LinesOf, transcripts

(* A step of a run that goes on.                                           *)
LEMMA TypeGoesOn ==
  ASSUME TypeInv, NEW p \in Proc, NEW n \in Run, run' = [run EXCEPT ![p] = n],
         UNCHANGED <<transcripts, mishaps, rewritten>>,
         lock' \in Proc \cup {None}, saved' \in [Session -> Nat],
         stored' \subseteq Memory, missed' \subseteq Session \X Nat
  PROVE  TypeInv'
BY DEF TypeInv, TypeOK, SizesFit, LinesOf, transcripts

LEMMA BeginLineGrows ==
  ASSUME TypeInv, NEW s \in Session, BeginLine(s)
  PROVE  \E line \in Lines :
           /\ text' = [text EXCEPT ![s] = Append(LinesOf(s), line)]
           /\ text'[s] = Append(LinesOf(s), line) /\ text'[s] \in Seq(Lines)
           /\ LinesOf(s)' = Append(LinesOf(s), line)
           /\ Len(LinesOf(s)') = Len(LinesOf(s)) + 1
           /\ \A t \in Session \ {s} : LinesOf(t)' = LinesOf(t) /\ written'[t] = written[t]
           /\ written[s] = 2 * Len(LinesOf(s)) /\ written'[s] = written[s] + 1
<1>1. PICK line \in Lines : text' = [text EXCEPT ![s] = Append(LinesOf(s), line)]
  BY DEF BeginLine
<1>2. LinesOf(s) \in Seq(Lines) /\ Append(LinesOf(s), line) \in Seq(Lines)
      /\ Len(Append(LinesOf(s), line)) = Len(LinesOf(s)) + 1
  BY LinesTypes DEF TypeInv
<1>3. text'[s] = Append(LinesOf(s), line) /\ \A t \in Session \ {s} : text'[t] = text[t]
  BY <1>1 DEF TypeInv, TypeOK
<1>4. LinesOf(s)' = Append(LinesOf(s), line) /\ \A t \in Session \ {s} : LinesOf(t)' = LinesOf(t)
  <2>1. text'[s] # None
    BY <1>2, <1>3, NoneIsNoRun
  <2> QED
    BY <1>3, <2>1 DEF LinesOf
<1>5. /\ written[s] = 2 * Len(LinesOf(s)) /\ written'[s] = written[s] + 1
      /\ \A t \in Session \ {s} : written'[t] = written[t]
  BY DEF BeginLine, TypeInv, TypeOK
<1> QED
  BY <1>1, <1>2, <1>3, <1>4, <1>5

LEMMA OutsideTypes ==
  ASSUME TypeInv, NEW s \in Session, BeginLine(s) \/ EndLine(s) \/ StartOver(s)
  PROVE  TypeInv'
<1>1. CASE BeginLine(s)
  <2>1. PICK line \in Lines :
          /\ text' = [text EXCEPT ![s] = Append(LinesOf(s), line)]
          /\ text'[s] \in Seq(Lines)
          /\ LinesOf(s)' = Append(LinesOf(s), line)
          /\ Len(LinesOf(s)') = Len(LinesOf(s)) + 1
          /\ \A t \in Session \ {s} : LinesOf(t)' = LinesOf(t) /\ written'[t] = written[t]
          /\ written[s] = 2 * Len(LinesOf(s)) /\ written'[s] = written[s] + 1
    BY <1>1, BeginLineGrows
  <2>2. text' \in [Session -> Seq(Lines) \cup {None}]
    BY <2>1 DEF TypeInv, TypeOK
  <2>3. TypeOK'
    BY <1>1, <2>2 DEF BeginLine, TypeInv, TypeOK
  <2>4. SizesFit'
    <3>1. written'[s] <= 2 * Len(LinesOf(s)')
      <4>1. Len(LinesOf(s)) \in Nat
        BY LinesTypes DEF TypeInv
      <4> QED
        BY <2>1, <4>1
    <3>2. \A t \in Session \ {s} : written'[t] <= 2 * Len(LinesOf(t)')
      BY <2>1 DEF TypeInv, SizesFit
    <3> QED
      BY <3>1, <3>2 DEF SizesFit
  <2> QED
    BY <2>3, <2>4 DEF TypeInv
<1>2. CASE EndLine(s)
  <2>1. /\ text[s] # None /\ written[s] < 2 * Len(text[s])
        /\ written' = [written EXCEPT ![s] = @ + 1]
        /\ UNCHANGED <<text, stored, saved, lock, run, mishaps, missed, rewritten>>
    BY <1>2 DEF EndLine
  <2>2. LinesOf(s) = text[s] /\ \A t : LinesOf(t)' = LinesOf(t)
    BY <2>1 DEF LinesOf
  <2>3. TypeOK'
    BY <2>1 DEF TypeInv, TypeOK
  <2>4. SizesFit'
    BY <2>1, <2>2, LinesTypes, SMTT(20) DEF TypeInv, SizesFit, TypeOK
  <2> QED
    BY <2>3, <2>4 DEF TypeInv
<1>3. CASE StartOver(s)
  <2>1. <<>> \in Seq(Lines) /\ <<>> # None /\ Len(<<>>) = 0
    <3>1. <<>> \in Seq(Lines) /\ Len(<<>>) = 0
      OBVIOUS
    <3> QED
      BY <3>1, NoneIsNoRun, Zenon
  <2>2. /\ text' = [text EXCEPT ![s] = <<>>] /\ written' = [written EXCEPT ![s] = 0]
        /\ rewritten' = rewritten \cup {s} /\ missed' \subseteq missed
        /\ UNCHANGED <<stored, saved, lock, run, mishaps>>
    BY <1>3 DEF StartOver
  <2>3. TypeOK'
    BY <2>1, <2>2 DEF TypeInv, TypeOK
  <2>4. LinesOf(s)' = <<>> /\ \A t \in Session \ {s} : LinesOf(t)' = LinesOf(t)
    BY <2>1, <2>2 DEF LinesOf, TypeInv, TypeOK
  <2>5. SizesFit'
    BY <2>1, <2>2, <2>4 DEF TypeInv, SizesFit, TypeOK
  <2> QED
    BY <2>3, <2>5 DEF TypeInv
<1> QED
  BY <1>1, <1>2, <1>3
-----------------------------------------------------------------------------
(* What was passed stays passed.  Transcripts that are not started over    *)
(* only grow, behind every cursor; stored memories stay.                   *)

TextGrows(s) ==
  s \notin rewritten' =>
    /\ s \notin rewritten
    /\ written[s] <= written'[s]
    /\ DOMAIN LinesOf(s) \subseteq DOMAIN LinesOf(s)'
    /\ \A j \in DOMAIN LinesOf(s)' :
         \/ j \in DOMAIN LinesOf(s) /\ LinesOf(s)'[j] = LinesOf(s)[j]
         \/ 2 * j > written[s]
    /\ \A j \in Nat : <<s, j>> \in missed => <<s, j>> \in missed'

Growing == stored \subseteq stored' /\ \A s \in Session : TextGrows(s)

LEMMA LineIsText ==
  ASSUME NEW s \in Session, NEW j \in DOMAIN LinesOf(s)
  PROVE  LinesOf(s)[j] = text[s][j]
<1>1. DOMAIN <<>> = {}
  OBVIOUS
<1> QED
  BY <1>1 DEF LinesOf

LEMMA SettledStays ==
  ASSUME TypeInv, TypeInv', Growing, NEW s \in Session, s \notin rewritten',
         NEW j \in DOMAIN LinesOf(s), j \in DOMAIN LinesOf(s)',
         LinesOf(s)'[j] = LinesOf(s)[j], Settled(s, j)
  PROVE  Settled(s, j)'
<1>1. text'[s][j] = text[s][j]
  <2>1. LinesOf(s)[j] = text[s][j]
    BY LineIsText
  <2>2. LinesOf(s)'[j] = text'[s][j]
    <3>1. DOMAIN <<>> = {}
      OBVIOUS
    <3> QED
      BY <3>1 DEF LinesOf
  <2> QED
    BY <2>1, <2>2
<1>2. j \in Nat
  BY LinesTypes DEF TypeInv
<1>3. IsStored(s, j) => IsStored(s, j)'
  BY <1>1 DEF IsStored, Growing
<1>4. <<s, j>> \in missed => <<s, j>> \in missed'
  BY <1>2 DEF Growing, TextGrows
<1> QED
  BY <1>3, <1>4 DEF Settled

LEMMA PassedStays ==
  ASSUME TypeInv, TypeInv', Growing, NEW s \in Session, NEW cursor \in Nat,
         Passed(s, cursor), s \notin rewritten'
  PROVE  /\ cursor <= written'[s]
         /\ \A j \in DOMAIN LinesOf(s)' : 2 * j <= cursor => Settled(s, j)'
<1>1. /\ s \notin rewritten /\ written[s] <= written'[s]
      /\ \A j \in DOMAIN LinesOf(s)' :
           \/ j \in DOMAIN LinesOf(s) /\ LinesOf(s)'[j] = LinesOf(s)[j]
           \/ 2 * j > written[s]
  BY DEF Growing, TextGrows
<1>2. /\ cursor <= written[s]
      /\ \A j \in DOMAIN LinesOf(s) : 2 * j <= cursor => Settled(s, j)
  BY <1>1 DEF Passed
<1>3. written[s] \in Nat /\ written'[s] \in Nat /\ DOMAIN LinesOf(s)' \subseteq Nat
  <2>1. LinesOf(s)' \in Seq(Lines)
    <3>1. text'[s] \in Seq(Lines) \cup {None} /\ <<>> \in Seq(Lines)
      BY DEF TypeInv, TypeOK
    <3> QED
      BY <3>1 DEF LinesOf
  <2> QED
    BY <2>1 DEF TypeInv, TypeOK
<1>4. ASSUME NEW j \in DOMAIN LinesOf(s)', 2 * j <= cursor
      PROVE  Settled(s, j)'
  <2>1. j \in DOMAIN LinesOf(s) /\ LinesOf(s)'[j] = LinesOf(s)[j]
    BY <1>1, <1>2, <1>3, <1>4
  <2>2. Settled(s, j)
    BY <1>2, <1>4, <2>1
  <2> QED
    BY <2>1, <2>2, SettledStays
<1> QED
  BY <1>1, <1>2, <1>3, <1>4

LEMMA RunStandsOn ==
  ASSUME TypeInv, TypeInv', Growing, NEW p \in Proc, Running(p), RunStands(p),
         run'[p] = run[p]
  PROVE  RunStands(p)'
<1> DEFINE r == run[p]
<1>1. /\ r.cursors \in [Session -> Nat] /\ r.at \in Session \cup {None}
      /\ r.offset \in Nat /\ r.line \in Seq(Content) /\ r.sent \in Nat
  BY RunTypes, RunFields DEF TypeInv
<1>2. \A s \in Session : Passed(s, run[p].cursors[s])'
  <2>1. \A s \in Session : Passed(s, r.cursors[s]) /\ r.cursors[s] \in Nat
    BY <1>1 DEF RunStands
  <2> QED
    BY <2>1, PassedStays DEF Passed
<1>3. r.at # None => Passed(run[p].at, run[p].offset)'
  <2>1. r.at # None => r.at \in Session /\ Passed(r.at, r.offset)
    BY <1>1 DEF RunStands
  <2> QED
    BY <1>1, <2>1, PassedStays DEF Passed
<1>4. ASSUME r.line # <<>>
      PROVE  AtItsLine(p)'
  <2>1. r.at # None /\ r.sent < Len(r.line) /\ SentAreStored(p)
    BY <1>4 DEF RunStands, AtItsLine
  <2>2. SentAreStored(p)'
    BY <2>1 DEF SentAreStored, Growing
  <2>3. ASSUME NEW s \in Session, NEW o \in Nat, s = r.at, o = r.offset,
               s \notin rewritten'
        PROVE  /\ o % 2 = 0
               /\ o + 2 <= written'[s]
               /\ r.line = LinesOf(s)'[LineAt(o)]
    <3>1. /\ s \notin rewritten /\ written[s] <= written'[s]
          /\ DOMAIN LinesOf(s) \subseteq DOMAIN LinesOf(s)'
          /\ \A j \in DOMAIN LinesOf(s)' :
               \/ j \in DOMAIN LinesOf(s) /\ LinesOf(s)'[j] = LinesOf(s)[j]
               \/ 2 * j > written[s]
      BY <2>3 DEF Growing, TextGrows
    <3>2. o % 2 = 0 /\ o + 2 <= written[s] /\ r.line = LinesOf(s)[LineAt(o)]
      BY <1>4, <2>3, <3>1 DEF RunStands, AtItsLine
    <3>3. written[s] \in Nat /\ written'[s] \in Nat
      BY DEF TypeInv, TypeOK
    <3>4. LineAt(o) \in DOMAIN LinesOf(s) /\ 2 * LineAt(o) = o + 2
      <4>1. 2 * LineAt(o) = o + 2 /\ LineAt(o) \in Nat \ {0}
        BY <3>2, HalfLines
      <4>2. /\ DOMAIN LinesOf(s) = 1 .. Len(LinesOf(s))
            /\ Len(LinesOf(s)) \in Nat /\ written[s] <= 2 * Len(LinesOf(s))
        BY LinesTypes DEF TypeInv, SizesFit
      <4> QED
        BY <3>2, <3>3, <4>1, <4>2
    <3>5. LinesOf(s)'[LineAt(o)] = LinesOf(s)[LineAt(o)]
      BY <3>1, <3>2, <3>3, <3>4
    <3> QED
      BY <3>1, <3>2, <3>3, <3>5
  <2> QED
    BY <1>1, <2>1, <2>2, <2>3 DEF AtItsLine
<1>5. r.line = <<>> => r.sent = 0
  BY DEF RunStands
<1> QED
  BY <1>2, <1>3, <1>4, <1>5 DEF RunStands
-----------------------------------------------------------------------------
(* Steps.                                                                  *)
LEMMA ReaderGrows ==
  ASSUME TypeInv, UNCHANGED <<transcripts, rewritten>>, stored \subseteq stored',
         missed \subseteq missed'
  PROVE  Growing
BY DEF Growing, TextGrows, LinesOf, transcripts, TypeInv, TypeOK

LEMMA OutsideGrows ==
  ASSUME TypeInv, NEW s \in Session, BeginLine(s) \/ EndLine(s) \/ StartOver(s)
  PROVE  Growing
<1> SUFFICES ASSUME NEW t \in Session PROVE TextGrows(t)
  BY DEF Growing, BeginLine, EndLine, StartOver
<1>1. CASE BeginLine(s)
  <2>1. PICK line \in Lines :
          /\ text' = [text EXCEPT ![s] = Append(LinesOf(s), line)]
          /\ text'[s] = Append(LinesOf(s), line) /\ text'[s] \in Seq(Lines)
          /\ LinesOf(s)' = Append(LinesOf(s), line)
          /\ Len(LinesOf(s)') = Len(LinesOf(s)) + 1
          /\ \A u \in Session \ {s} : LinesOf(u)' = LinesOf(u) /\ written'[u] = written[u]
          /\ written[s] = 2 * Len(LinesOf(s)) /\ written'[s] = written[s] + 1
    BY <1>1, BeginLineGrows
  <2>2. UNCHANGED <<rewritten, missed>>
    BY <1>1 DEF BeginLine
  <2>3. CASE t # s
    BY <2>1, <2>2, <2>3 DEF TextGrows, TypeInv, TypeOK
  <2>4. CASE t = s
    <3>1. LinesOf(s) \in Seq(Lines) /\ Len(LinesOf(s)) \in Nat
      BY LinesTypes DEF TypeInv
    <3>2. /\ DOMAIN LinesOf(s) = 1 .. Len(LinesOf(s))
          /\ DOMAIN LinesOf(s)' = 1 .. Len(LinesOf(s)) + 1
          /\ \A j \in DOMAIN LinesOf(s) : LinesOf(s)'[j] = LinesOf(s)[j]
      BY <2>1, <3>1
    <3> QED
      BY <2>1, <2>2, <2>4, <3>1, <3>2 DEF TextGrows
  <2> QED
    BY <2>3, <2>4
<1>2. CASE EndLine(s)
  <2>1. /\ written' = [written EXCEPT ![s] = @ + 1]
        /\ UNCHANGED <<text, stored, missed, rewritten>>
    BY <1>2 DEF EndLine
  <2>2. LinesOf(t)' = LinesOf(t) /\ written[t] <= written'[t]
    BY <2>1 DEF LinesOf, TypeInv, TypeOK
  <2> QED
    BY <2>1, <2>2 DEF TextGrows
<1>3. CASE StartOver(s)
  <2>1. /\ text' = [text EXCEPT ![s] = <<>>] /\ written' = [written EXCEPT ![s] = 0]
        /\ rewritten' = rewritten \cup {s}
        /\ missed' = {m \in missed : m[1] # s}
    BY <1>3 DEF StartOver
  <2>2. CASE t = s
    BY <2>1, <2>2 DEF TextGrows
  <2>3. CASE t # s
    <3>1. LinesOf(t)' = LinesOf(t) /\ written'[t] = written[t] /\ written[t] \in Nat
      BY <2>1, <2>3 DEF LinesOf, TypeInv, TypeOK
    <3>2. \A j \in Nat : <<t, j>> \in missed => <<t, j>> \in missed'
      BY <2>1, <2>3
    <3> QED
      BY <2>1, <3>1, <3>2 DEF TextGrows
  <2> QED
    BY <2>2, <2>3
<1> QED
  BY <1>1, <1>2, <1>3

(* What has to be shown of a step: the cursors in the file, and the run    *)
(* that took it.                                                           *)
LEMMA SyncSteps ==
  ASSUME TypeInv, TypeInv', SyncInv, Growing, OneMemoryPerKey',
         \/ UNCHANGED saved
         \/ \A s \in Session : Passed(s, saved[s])',
         \A p \in Proc : \/ run'[p] = run[p] \/ run'[p] = None \/ RunStands(p)'
  PROVE  SyncInv'
<1>1. \A s \in Session : Passed(s, saved[s])'
  <2>1. CASE UNCHANGED saved
    <3>1. \A s \in Session : Passed(s, saved[s]) /\ saved[s] \in Nat
      BY DEF SyncInv, TypeInv, TypeOK
    <3> QED
      BY <2>1, <3>1, PassedStays DEF Passed
  <2> QED
    BY <2>1
<1>2. ASSUME NEW p \in Proc, Running(p)'
      PROVE  RunStands(p)'
  <2>1. CASE run'[p] = run[p]
    <3>1. Running(p) /\ RunStands(p)
      BY <1>2, <2>1 DEF SyncInv, Running
    <3> QED
      BY <2>1, <3>1, RunStandsOn
  <2> QED
    BY <1>2, <2>1 DEF Running
<1>3. SizesFit'
  BY DEF TypeInv
<1> QED
  BY <1>1, <1>2, <1>3 DEF SyncInv

LEMMA StopsStand ==
  ASSUME TypeInv, SyncInv, NEW p \in Proc, Stop(p),
         UNCHANGED <<transcripts, stored, saved, missed, rewritten>>, mishaps' \in Nat
  PROVE  TypeInv' /\ SyncInv'
<1>1. TypeInv'
  <2>1. saved' \in [Session -> Nat]
    BY DEF TypeInv, TypeOK
  <2> QED
    BY <2>1, TypeStops
<1>2. Growing
  BY ReaderGrows
<1>3. \A q \in Proc : run'[q] = run[q] \/ run'[q] = None
  BY DEF Stop, TypeInv, TypeOK
<1>4. OneMemoryPerKey'
  BY DEF SyncInv, OneMemoryPerKey
<1> QED
  BY <1>1, <1>2, <1>3, <1>4, SyncSteps

LEMMA OutsideStands ==
  ASSUME TypeInv, SyncInv, NEW s \in Session, BeginLine(s) \/ EndLine(s) \/ StartOver(s)
  PROVE  TypeInv' /\ SyncInv'
<1>1. TypeInv' /\ Growing
  BY OutsideTypes, OutsideGrows
<1>2. UNCHANGED <<saved, run, stored>>
  BY DEF BeginLine, EndLine, StartOver
<1>3. OneMemoryPerKey'
  BY <1>2 DEF SyncInv, OneMemoryPerKey
<1> QED
  BY <1>1, <1>2, <1>3, SyncSteps

(* A run that goes on: its new locals n, and what it leaves of the rest.   *)
LEMMA GoesOnStands ==
  ASSUME TypeInv, SyncInv, NEW p \in Proc, NEW n \in Run, run' = [run EXCEPT ![p] = n],
         UNCHANGED <<transcripts, mishaps, rewritten>>,
         lock' \in Proc \cup {None}, saved' \in [Session -> Nat],
         stored \subseteq stored', stored' \subseteq Memory,
         missed \subseteq missed', missed' \subseteq Session \X Nat,
         OneMemoryPerKey',
         Growing /\ TypeInv' => \/ UNCHANGED saved
                                \/ \A s \in Session : Passed(s, saved[s])',
         Growing /\ TypeInv' => RunStands(p)'
  PROVE  TypeInv' /\ SyncInv'
<1>1. TypeInv'
  BY TypeGoesOn
<1>2. Growing
  BY ReaderGrows
<1>3. \A q \in Proc : run'[q] = run[q] \/ q = p
  BY DEF TypeInv, TypeOK
<1> QED
  BY <1>1, <1>2, <1>3, SyncSteps

(* Nothing is behind the start of a transcript.                            *)
LEMMA NothingPassed ==
  ASSUME TypeInv', NEW s \in Session
  PROVE  Passed(s, 0)'
<1>1. LinesOf(s)' \in Seq(Lines)
  <2>1. text'[s] \in Seq(Lines) \cup {None} /\ <<>> \in Seq(Lines)
    BY DEF TypeInv, TypeOK
  <2> QED
    BY <2>1 DEF LinesOf
<1>2. written'[s] \in Nat
  BY DEF TypeInv, TypeOK
<1>3. \A j \in DOMAIN LinesOf(s)' : j \in Nat /\ ~ (2 * j <= 0)
  BY <1>1
<1> QED
  BY <1>2, <1>3 DEF Passed

(* One more line is behind the cursor: the one at o, if all of it is.      *)
LEMMA PassedNext ==
  ASSUME TypeInv', NEW s \in Session, NEW o \in Nat, NEW end \in Nat, Passed(s, o)',
         end <= 2 * LineAt(o), end <= written'[s],
         Settled(s, LineAt(o))' \/ end < 2 * LineAt(o)
  PROVE  Passed(s, end)'
<1>1. LinesOf(s)' \in Seq(Lines)
  <2>1. text'[s] \in Seq(Lines) \cup {None} /\ <<>> \in Seq(Lines)
    BY DEF TypeInv, TypeOK
  <2> QED
    BY <2>1 DEF LinesOf
<1>2. ASSUME s \notin rewritten', NEW j \in DOMAIN LinesOf(s)', 2 * j <= end
      PROVE  Settled(s, j)'
  <2>1. j \in Nat
    BY <1>1
  <2>2. CASE 2 * j <= o
    BY <1>2, <2>2 DEF Passed
  <2>3. CASE 2 * j > o
    <3>1. /\ 2 * LineAt(o) = IF o % 2 = 0 THEN o + 2 ELSE o + 1
          /\ LineAt(o) \in Nat
      BY HalfLines
    <3>2. j = LineAt(o)
      BY <1>2, <2>1, <2>3, <3>1
    <3> QED
      BY <1>2, <2>1, <3>1, <3>2
  <2> QED
    BY <2>1, <2>2, <2>3
<1> QED
  BY <1>2 DEF Passed

LEMMA StartStands ==
  ASSUME TypeInv, SyncInv, NEW p \in Proc, Start(p)
  PROVE  TypeInv' /\ SyncInv'
<1> DEFINE n == [cursors |-> saved, left |-> {s \in Session : text[s] # None},
                 at |-> None, offset |-> 0, line |-> <<>>, sent |-> 0]
<1>1. /\ n \in Run /\ n.cursors = saved /\ n.at = None /\ n.line = <<>> /\ n.sent = 0
  <2>1. saved \in [Session -> Nat] /\ <<>> \in Seq(Content) /\ 0 \in Nat
    BY DEF TypeInv, TypeOK
  <2> QED
    BY <2>1 DEF Run
<1>2. /\ run' = [run EXCEPT ![p] = n] /\ lock' = p
      /\ UNCHANGED <<transcripts, stored, saved, mishaps, missed, rewritten>>
  BY DEF Start
<1> HIDE DEF n
<1>3. run'[p] = n
  BY <1>2 DEF TypeInv, TypeOK
<1>4. ASSUME Growing, TypeInv'
      PROVE  RunStands(p)'
  <2>1. \A s \in Session : Passed(s, saved[s]) /\ saved[s] \in Nat
    BY DEF SyncInv, TypeInv, TypeOK
  <2>2. \A s \in Session : Passed(s, run[p].cursors[s])'
    BY <1>1, <1>2, <1>3, <1>4, <2>1, PassedStays DEF Passed
  <2> QED
    BY <1>1, <1>3, <2>2 DEF RunStands
<1>5. /\ OneMemoryPerKey' /\ saved' \in [Session -> Nat]
      /\ stored' \subseteq Memory /\ missed' \subseteq Session \X Nat
  BY <1>2 DEF SyncInv, OneMemoryPerKey, TypeInv, TypeOK
<1> QED
  BY <1>1, <1>2, <1>4, <1>5, GoesOnStands

(* A step of a run that leaves lock and saved cursors alone.               *)
LEMMA ReaderStands ==
  ASSUME TypeInv, SyncInv, NEW p \in Proc, NEW n \in Run, run' = [run EXCEPT ![p] = n],
         UNCHANGED <<transcripts, saved, lock, mishaps, rewritten>>,
         stored \subseteq stored', stored' \subseteq Memory,
         missed \subseteq missed', missed' \subseteq Session \X Nat,
         OneMemoryPerKey',
         Running(p), n.cursors = run[p].cursors,
         Growing /\ TypeInv' => /\ n.at # None => Passed(n.at, n.offset)'
                                /\ n.line # <<>> => AtItsLine(p)'
                                /\ n.line = <<>> => n.sent = 0
  PROVE  TypeInv' /\ SyncInv'
<1>1. run'[p] = n
  BY DEF TypeInv, TypeOK
<1>2. ASSUME Growing, TypeInv'
      PROVE  RunStands(p)'
  <2>1. \A s \in Session : Passed(s, run[p].cursors[s]) /\ run[p].cursors[s] \in Nat
    <3>1. run[p].cursors \in [Session -> Nat]
      BY RunTypes, RunFields DEF TypeInv
    <3> QED
      BY <3>1 DEF SyncInv, RunStands
  <2>2. \A s \in Session : Passed(s, run[p].cursors[s])'
    BY <1>1, <1>2, <2>1, PassedStays DEF Passed
  <2>3. run[p]'.at # None => Passed(run[p].at, run[p].offset)'
    BY <1>1, <1>2 DEF Passed
  <2>4. /\ run'[p].line # <<>> => AtItsLine(p)'
        /\ run'[p].line = <<>> => run'[p].sent = 0
    BY <1>1, <1>2
  <2> QED
    BY <2>2, <2>3, <2>4 DEF RunStands
<1>3. lock' \in Proc \cup {None} /\ saved' \in [Session -> Nat]
  BY DEF TypeInv, TypeOK
<1> QED
  BY <1>2, <1>3, GoesOnStands

LEMMA OpenFileStands ==
  ASSUME TypeInv, SyncInv, NEW p \in Proc, OpenFile(p)
  PROVE  TypeInv' /\ SyncInv'
<1>1. /\ Running(p) /\ run[p] \in Run
      /\ UNCHANGED <<transcripts, stored, saved, lock, mishaps, missed, rewritten>>
  BY RunTypes DEF OpenFile, TypeInv
<1>2. PICK r \in Run : r = run[p]
  BY <1>1
<1>3. r.left \in SUBSET Session /\ r.cursors \in [Session -> Nat] /\ r.at = None
  BY <1>2, RunFields DEF OpenFile
<1>4. PICK s \in r.left :
        run' = [run EXCEPT ![p] = [r EXCEPT !.left = r.left \ {s}, !.at = s,
                                     !.offset = Cursor(s, r.cursors)]]
  BY <1>2 DEF OpenFile
<1>5. s \in Session /\ r.left \ {s} \in SUBSET Session
  BY <1>3
<1>6. PICK o \in Nat : o = Cursor(s, r.cursors) /\ (o = 0 \/ o = r.cursors[s])
  BY <1>3, <1>5 DEF Cursor
<1>13. PICK n : n = [r EXCEPT !.left = r.left \ {s}, !.at = s, !.offset = o]
  OBVIOUS
<1>7. /\ n \in Run
      /\ n.cursors = r.cursors /\ n.at = s /\ n.offset = o
      /\ n.line = r.line /\ n.sent = r.sent
  BY <1>2, <1>5, <1>6, <1>13 DEF Run
<1>8. run' = [run EXCEPT ![p] = n]
  BY <1>4, <1>6, <1>13
<1>9. n.line = <<>> /\ n.sent = 0
  BY <1>1, <1>2, <1>3, <1>7 DEF SyncInv, RunStands, AtItsLine
<1>10. ASSUME Growing, TypeInv'
       PROVE  Passed(s, o)'
  <2>1. CASE o = 0
    BY <1>5, <1>10, <2>1, NothingPassed DEF Passed
  <2>2. CASE o = r.cursors[s]
    <3>1. Passed(s, o)
      BY <1>1, <1>2, <1>5, <2>2 DEF SyncInv, RunStands
    <3> QED
      BY <1>5, <1>10, <3>1, PassedStays DEF Passed
  <2> QED
    BY <1>6, <2>1, <2>2
<1>11. Growing /\ TypeInv' => /\ n.at # None => Passed(n.at, n.offset)'
                              /\ n.line # <<>> => AtItsLine(p)'
                              /\ n.line = <<>> => n.sent = 0
  BY <1>7, <1>9, <1>10
<1>12. /\ OneMemoryPerKey' /\ stored' \subseteq Memory /\ missed' \subseteq Session \X Nat
  BY <1>1 DEF SyncInv, OneMemoryPerKey, TypeInv, TypeOK
<1> QED
  BY <1>1, <1>2, <1>7, <1>8, <1>11, <1>12, ReaderStands

LEMMA ReadLineStands ==
  ASSUME TypeInv, SyncInv, NEW p \in Proc, ReadLine(p)
  PROVE  TypeInv' /\ SyncInv'
<1>1. /\ Running(p) /\ run[p] \in Run /\ RunStands(p)
      /\ UNCHANGED <<transcripts, stored, saved, lock, mishaps, rewritten>>
  BY RunTypes DEF ReadLine, BetweenLines, TypeInv, SyncInv
<1>2. PICK r \in Run : r = run[p]
  BY <1>1
<1>3. /\ r.at \in Session /\ r.offset \in Nat /\ r.sent = 0
      /\ r.at # None /\ r.line = <<>>
  BY <1>1, <1>2, RunFields DEF ReadLine, BetweenLines, RunStands
<1>4. PICK s \in Session : s = r.at
  BY <1>3
<1>5. PICK o \in Nat : o = r.offset
  BY <1>3
<1>6. Passed(s, o) /\ o < written[s]
  BY <1>1, <1>2, <1>3, <1>4, <1>5 DEF RunStands, ReadLine
<1>7. PICK end \in Nat :
        /\ end = LineEnd(s, o)
        /\ o < end /\ end <= written[s] /\ end <= o + 2
        /\ IsWhole(o, end) => /\ o % 2 = 0 /\ end = 2 * LineAt(o)
                              /\ LineAt(o) \in DOMAIN LinesOf(s)
                              /\ text[s] # None
                              /\ text[s][LineAt(o)] \in Seq(Content)
                              /\ text[s][LineAt(o)] = LinesOf(s)[LineAt(o)]
        /\ ~ IsWhole(o, end) => end = o + 1 /\ 2 * LineAt(o) <= o + 2
  BY <1>6, Reads DEF TypeInv
<1>8. \A t : LinesOf(t)' = LinesOf(t) /\ text' = text /\ written' = written
  BY <1>1 DEF LinesOf, transcripts
<1>9. /\ OneMemoryPerKey' /\ stored \subseteq stored' /\ stored' \subseteq Memory
  BY <1>1 DEF SyncInv, OneMemoryPerKey, TypeInv, TypeOK
<1>10. missed \subseteq Session \X Nat
  BY DEF TypeInv, TypeOK
<1>11. Growing /\ TypeInv' => Passed(s, o)'
  BY <1>6, PassedStays DEF Passed
<1>12. written[s] \in Nat
  BY DEF TypeInv, TypeOK
<1>13. CASE /\ IsWhole(o, end) /\ missed' = missed
            /\ run' = [run EXCEPT ![p] =
                 [r EXCEPT !.line = text[s][LineAt(o)],
                           !.offset = IF text[s][LineAt(o)] = <<>> THEN end ELSE o]]
  <2>1. PICK line \in Seq(Content) :
          line = text[s][LineAt(o)] /\ line = LinesOf(s)[LineAt(o)]
    BY <1>7, <1>13
  <2>2. PICK next \in Nat : next = IF line = <<>> THEN end ELSE o
    OBVIOUS
  <2>8. PICK n : n = [r EXCEPT !.line = line, !.offset = next]
    OBVIOUS
  <2>3. /\ n \in Run
        /\ n.cursors = r.cursors /\ n.at = r.at /\ n.offset = next
        /\ n.line = line /\ n.sent = r.sent
    BY <1>2, <2>1, <2>2, <2>8 DEF Run
  <2>4. run' = [run EXCEPT ![p] = n] /\ run'[p] = n
    BY <1>13, <2>1, <2>2, <2>8 DEF TypeInv, TypeOK
  <2>5. ASSUME Growing, TypeInv'
        PROVE  Passed(s, next)'
    <3>1. CASE line # <<>>
      BY <1>11, <2>2, <2>5, <3>1 DEF Passed
    <3>2. CASE line = <<>>
      <4>1. Settled(s, LineAt(o))'
        <5>1. text'[s][LineAt(o)] = <<>> /\ DOMAIN <<>> = {}
          <6>1. text'[s][LineAt(o)] = <<>>
            BY <1>8, <2>1, <3>2
          <6>2. DOMAIN <<>> = {}
            OBVIOUS
          <6> QED
            BY <6>1, <6>2
        <5>2. DOMAIN text'[s][LineAt(o)] = {}
          BY <5>1, Zenon
        <5> QED
          BY <5>2 DEF Settled, IsStored
      <4>2. next = 2 * LineAt(o) /\ next <= written'[s] /\ LineAt(o) \in Nat
        BY <1>7, <1>8, <1>13, <2>2, <3>2, HalfLines
      <4> QED
        BY <1>11, <2>5, <4>1, <4>2, PassedNext
    <3> QED
      BY <3>1, <3>2
  <2>6. ASSUME line # <<>>
        PROVE  AtItsLine(p)'
    <3>1. next = o /\ r.sent = 0 /\ 0 < Len(line) /\ end = o + 2
      BY <1>3, <1>13, <2>2, <2>6 DEF IsWhole
    <3>2. LineAt(o) \in DOMAIN LinesOf(s)'
      BY <1>7, <1>8, <1>13
    <3>3. /\ o % 2 = 0 /\ o + 2 <= written'[s] /\ line = LinesOf(s)'[LineAt(o)]
      BY <1>7, <1>8, <1>13, <2>1, <3>1
    <3>4. SentAreStored(p)'
      <4>1. run'[p].sent = 0 /\ 1 .. 0 = {}
        BY <1>3, <2>3, <2>4
      <4>2. 1 .. run'[p].sent = {}
        BY <4>1, Zenon
      <4> QED
        BY <4>2 DEF SentAreStored
    <3>5. /\ run'[p].at = s /\ s # None /\ run'[p].sent < Len(run'[p].line)
          /\ run'[p].offset = o /\ run'[p].line = line
      BY <1>3, <1>4, <2>3, <2>4, <3>1
    <3> QED
      BY <3>3, <3>4, <3>5 DEF AtItsLine
  <2>7. Growing /\ TypeInv' => /\ n.at # None => Passed(n.at, n.offset)'
                               /\ n.line # <<>> => AtItsLine(p)'
                               /\ n.line = <<>> => n.sent = 0
    BY <1>3, <1>4, <2>3, <2>5, <2>6
  <2> QED
    BY <1>1, <1>2, <1>9, <1>10, <1>13, <2>3, <2>4, <2>7, ReaderStands
<1>14. CASE /\ ~ IsWhole(o, end) /\ missed' = missed \cup {<<s, LineAt(o)>>}
            /\ run' = [run EXCEPT ![p] = [r EXCEPT !.offset = end]]
  <2>7. PICK n : n = [r EXCEPT !.offset = end]
    OBVIOUS
  <2>1. /\ n \in Run
        /\ n.cursors = r.cursors /\ n.at = r.at /\ n.offset = end
        /\ n.line = r.line /\ n.sent = r.sent
    BY <1>2, <1>7, <2>7, SkippedRun
  <2>2. run' = [run EXCEPT ![p] = n]
    BY <1>14, <2>7
  <2>3. LineAt(o) \in Nat /\ 2 * LineAt(o) = IF o % 2 = 0 THEN o + 2 ELSE o + 1
    BY HalfLines
  <2>4. ASSUME Growing, TypeInv'
        PROVE  Passed(s, end)'
    <3>1. Settled(s, LineAt(o))'
      BY <1>14 DEF Settled
    <3>2. end <= 2 * LineAt(o) /\ end <= written'[s]
      BY <1>7, <1>8, <1>14, <2>3
    <3> QED
      BY <1>11, <2>4, <3>1, <3>2, PassedNext
  <2>5. Growing /\ TypeInv' => /\ n.at # None => Passed(n.at, n.offset)'
                               /\ n.line # <<>> => AtItsLine(p)'
                               /\ n.line = <<>> => n.sent = 0
    BY <1>3, <1>4, <2>1, <2>4
  <2>6. missed \subseteq missed' /\ missed' \subseteq Session \X Nat
    BY <1>10, <1>14, <2>3
  <2> QED
    BY <1>1, <1>2, <1>9, <2>1, <2>2, <2>5, <2>6, ReaderStands
<1> QED
  BY <1>2, <1>4, <1>5, <1>7, <1>13, <1>14 DEF ReadLine

LEMMA SameMemory ==
  ASSUME NEW a \in Memory, NEW b \in Memory, SameKey(a, b), a.content = b.content
  PROVE  a = b
BY DEF Memory, SameKey

(* What Remember stores, and that no key holds two memories after it.      *)
LEMMA Remembers ==
  ASSUME TypeInv, SyncInv, NEW p \in Proc, Remember(p)
  PROVE  /\ Running(p) /\ run[p] \in Run /\ RunStands(p) /\ AtItsLine(p)
         /\ run[p].at \in Session /\ run[p].offset \in Nat /\ run[p].sent \in Nat
         /\ run[p].line \in Seq(Content) /\ run[p].sent < Len(run[p].line)
         /\ Marker(p) \in Memory
         /\ stored' \subseteq Memory
         /\ OneMemoryPerKey'
<1>1. /\ Running(p) /\ run[p] \in Run /\ RunStands(p) /\ AtItsLine(p)
  BY RunTypes DEF Remember, TypeInv, SyncInv, RunStands
<1>2. /\ run[p].at \in Session /\ run[p].offset \in Nat /\ run[p].sent \in Nat
      /\ run[p].line \in Seq(Content) /\ run[p].sent < Len(run[p].line)
  BY <1>1, RunFields DEF AtItsLine
<1>3. Marker(p) \in Memory
  <2>1. run[p].line[run[p].sent + 1] \in Content
    BY <1>2
  <2> QED
    BY <1>2, <2>1 DEF Marker, Memory
<1>4. PICK m \in Memory : m = Marker(p)
  BY <1>3
<1>5. stored' = stored \cup {m} /\ stored \subseteq Memory
  BY <1>4 DEF Remember, TypeInv, TypeOK
<1>6. \A c \in stored : SameKey(m, c) => c.content = m.content
  BY <1>4 DEF Remember, Conflicts
<1>7. \A a, b \in stored : SameKey(a, b) => a = b
  BY DEF SyncInv, OneMemoryPerKey
<1>8. ASSUME NEW a \in stored', NEW b \in stored', SameKey(a, b)
      PROVE  a = b
  <2>1. CASE a \in stored /\ b \in stored
    BY <1>7, <1>8, <2>1
  <2>2. CASE a = m /\ b \in stored
    BY <1>4, <1>5, <1>6, <1>8, <2>2, SameMemory
  <2>3. CASE a \in stored /\ b = m
    <3>1. SameKey(m, a)
      BY <1>8, <2>3 DEF SameKey
    <3> QED
      BY <1>4, <1>5, <1>6, <1>8, <2>3, <3>1, SameMemory
  <2>4. CASE a = m /\ b = m
    BY <2>4
  <2> QED
    BY <1>5, <2>1, <2>2, <2>3, <2>4
<1>9. OneMemoryPerKey'
  BY <1>8 DEF OneMemoryPerKey, SameKey
<1> QED
  BY <1>1, <1>2, <1>3, <1>4, <1>5, <1>9

LEMMA RememberStands ==
  ASSUME TypeInv, SyncInv, NEW p \in Proc, Remember(p)
  PROVE  TypeInv' /\ SyncInv'
<1>1. PICK r \in Run : r = run[p]
  BY Remembers
<1>2. PICK s \in Session : s = r.at
  BY <1>1, Remembers
<1>3. PICK o \in Nat : o = r.offset
  BY <1>1, Remembers
<1>4. PICK line \in Seq(Content) : line = r.line
  BY <1>1, Remembers
<1>5. PICK sent \in Nat : sent = r.sent /\ sent < Len(line)
  BY <1>1, <1>4, Remembers
<1>6. PICK m \in Memory :
        /\ stored' = stored \cup {m}
        /\ m = [session |-> s, offset |-> o, index |-> sent, content |-> line[sent + 1]]
  BY <1>1, <1>2, <1>3, <1>4, <1>5, Remembers DEF Remember, Marker
<1>7. /\ OneMemoryPerKey' /\ stored \subseteq stored' /\ stored' \subseteq Memory
      /\ UNCHANGED <<transcripts, saved, lock, mishaps, missed, rewritten>>
      /\ missed' \subseteq Session \X Nat
  BY <1>6, Remembers DEF Remember, TypeInv, TypeOK
<1>8. /\ Passed(s, o) /\ s # None
      /\ s \notin rewritten => o % 2 = 0 /\ o + 2 <= written[s] /\ line = LinesOf(s)[LineAt(o)]
      /\ \A k \in 1 .. sent : [session |-> s, offset |-> o, index |-> k - 1,
                               content |-> line[k]] \in stored
  <2>1. RunStands(p) /\ AtItsLine(p)
    BY Remembers
  <2>2. r.at # None
    BY <1>1, <2>1 DEF AtItsLine
  <2>3. Passed(s, o)
    BY <1>1, <1>2, <1>3, <2>1, <2>2 DEF RunStands
  <2>4. s \notin rewritten =>
          o % 2 = 0 /\ o + 2 <= written[s] /\ line = LinesOf(s)[LineAt(o)]
    BY <1>1, <1>2, <1>3, <1>4, <2>1 DEF AtItsLine
  <2>5. \A k \in 1 .. sent : [session |-> s, offset |-> o, index |-> k - 1,
                              content |-> line[k]] \in stored
    BY <1>1, <1>2, <1>3, <1>4, <1>5, <2>1 DEF AtItsLine, SentAreStored
  <2> QED
    BY <1>2, <2>2, <2>3, <2>4, <2>5
<1>9. \A k \in 1 .. sent + 1 : [session |-> s, offset |-> o, index |-> k - 1,
                                content |-> line[k]] \in stored'
  <2> SUFFICES ASSUME NEW k \in 1 .. sent + 1
               PROVE  [session |-> s, offset |-> o, index |-> k - 1,
                       content |-> line[k]] \in stored'
    OBVIOUS
  <2>1. CASE k = sent + 1
    <3>1. k - 1 = sent
      BY <1>5, <2>1
    <3> QED
      BY <1>6, <2>1, <3>1
  <2>2. CASE k # sent + 1
    <3>1. k \in 1 .. sent
      BY <1>5, <2>2
    <3> QED
      BY <1>6, <1>8, <3>1
  <2> QED
    BY <2>1, <2>2
<1>10. \A t : LinesOf(t)' = LinesOf(t) /\ text' = text /\ written' = written
             /\ rewritten' = rewritten
  BY <1>7 DEF LinesOf, transcripts
<1>11. Growing /\ TypeInv' => Passed(s, o)'
  BY <1>8, PassedStays DEF Passed
<1>12. Running(p)
  BY Remembers
<1>13. CASE sent + 1 < Len(line)
  <2>1. PICK n : n = [r EXCEPT !.sent = sent + 1]
    OBVIOUS
  <2>2. /\ n \in Run
        /\ n.cursors = r.cursors /\ n.at = s /\ n.offset = o
        /\ n.line = line /\ n.sent = sent + 1
    <3>1. sent + 1 \in Nat
      BY <1>5
    <3> QED
      BY <1>1, <1>2, <1>3, <1>4, <2>1, <3>1, SentRun
  <2>3. run' = [run EXCEPT ![p] = n] /\ run'[p] = n
    BY <1>1, <1>4, <1>5, <1>13, <2>1 DEF Remember, TypeInv, TypeOK
  <2>4. AtItsLine(p)'
    <3>1. SentAreStored(p)'
      BY <1>9, <2>2, <2>3 DEF SentAreStored
    <3> QED
      BY <1>8, <1>10, <1>13, <2>2, <2>3, <3>1 DEF AtItsLine
  <2>5. Growing /\ TypeInv' => /\ n.at # None => Passed(n.at, n.offset)'
                               /\ n.line # <<>> => AtItsLine(p)'
                               /\ n.line = <<>> => n.sent = 0
    <3>1. n.line # <<>>
      BY <1>5, <1>13, <2>2
    <3> QED
      BY <1>11, <2>2, <2>4, <3>1
  <2> QED
    BY <1>1, <1>7, <1>12, <2>2, <2>3, <2>5, ReaderStands
<1>14. CASE ~ (sent + 1 < Len(line))
  <2>1. PICK n : n = [r EXCEPT !.line = <<>>, !.sent = 0, !.offset = o + 2]
    OBVIOUS
  <2>2. /\ n \in Run
        /\ n.cursors = r.cursors /\ n.at = s /\ n.offset = o + 2
        /\ n.line = <<>> /\ n.sent = 0
    <3>1. o + 2 \in Nat /\ <<>> \in Seq(Content) /\ 0 \in Nat
      BY <1>3
    <3> QED
      BY <1>1, <1>2, <2>1, <3>1 DEF Run
  <2>3. run' = [run EXCEPT ![p] = n]
    BY <1>1, <1>3, <1>4, <1>5, <1>14, <2>1 DEF Remember
  <2>4. ASSUME Growing, TypeInv', s \notin rewritten'
        PROVE  Passed(s, o + 2)'
    <3>1. /\ o % 2 = 0 /\ o + 2 <= written[s] /\ line = LinesOf(s)[LineAt(o)]
      BY <1>8, <1>10, <2>4
    <3>2. 2 * LineAt(o) = o + 2 /\ LineAt(o) \in Nat \ {0}
      BY <3>1, HalfLines
    <3>3. LineAt(o) \in DOMAIN LinesOf(s)
      <4>1. /\ DOMAIN LinesOf(s) = 1 .. Len(LinesOf(s))
            /\ Len(LinesOf(s)) \in Nat /\ written[s] \in Nat
            /\ written[s] <= 2 * Len(LinesOf(s))
        BY LinesTypes DEF TypeInv, SizesFit
      <4> QED
        BY <3>1, <3>2, <4>1
    <3>4. text'[s][LineAt(o)] = line
      BY <1>10, <3>1, <3>3, LineIsText
    <3>5. IsStored(s, LineAt(o))'
      <4>1. DOMAIN line = 1 .. sent + 1 /\ 2 * (LineAt(o) - 1) = o
        BY <1>3, <1>4, <1>5, <1>14, <3>2
      <4> QED
        BY <1>9, <3>4, <4>1 DEF IsStored
    <3>6. /\ Settled(s, LineAt(o))' /\ o + 2 \in Nat
          /\ o + 2 <= 2 * LineAt(o) /\ o + 2 <= written'[s]
      BY <1>3, <1>10, <3>1, <3>2, <3>5 DEF Settled
    <3> QED
      BY <1>11, <2>4, <3>6, PassedNext
  <2>5. Growing /\ TypeInv' => Passed(s, o + 2)'
    BY <2>4 DEF Passed
  <2>6. Growing /\ TypeInv' => /\ n.at # None => Passed(n.at, n.offset)'
                               /\ n.line # <<>> => AtItsLine(p)'
                               /\ n.line = <<>> => n.sent = 0
    BY <2>2, <2>5
  <2> QED
    BY <1>1, <1>7, <1>12, <2>2, <2>3, <2>6, ReaderStands
<1> QED
  BY <1>13, <1>14

LEMMA SaveCursorsStands ==
  ASSUME TypeInv, SyncInv, NEW p \in Proc, SaveCursors(p)
  PROVE  TypeInv' /\ SyncInv'
<1>1. /\ Running(p) /\ run[p] \in Run /\ RunStands(p)
      /\ UNCHANGED <<transcripts, stored, lock, mishaps, missed, rewritten>>
  BY RunTypes DEF SaveCursors, BetweenLines, TypeInv, SyncInv
<1>2. PICK r \in Run : r = run[p]
  BY <1>1
<1>3. /\ r.at \in Session /\ r.at # None /\ r.offset \in Nat /\ r.line = <<>>
      /\ r.cursors \in [Session -> Nat] /\ r.sent = 0
  BY <1>1, <1>2, RunFields DEF SaveCursors, BetweenLines, RunStands
<1>4. PICK cursors \in [Session -> Nat] : cursors = [r.cursors EXCEPT ![r.at] = r.offset]
  BY <1>3
<1>5. PICK n : n = [r EXCEPT !.cursors = cursors, !.at = None, !.offset = 0]
  OBVIOUS
<1>6. /\ n \in Run /\ n.cursors = cursors /\ n.at = None
      /\ n.line = <<>> /\ n.sent = 0
  <2>1. 0 \in Nat /\ None \in Session \cup {None}
    OBVIOUS
  <2> QED
    BY <1>2, <1>3, <1>4, <1>5, <2>1 DEF Run
<1>7. saved' = cursors /\ run' = [run EXCEPT ![p] = n] /\ run'[p] = n
  BY <1>2, <1>4, <1>5 DEF SaveCursors, TypeInv, TypeOK
<1>8. ASSUME Growing, TypeInv', NEW s \in Session
      PROVE  Passed(s, cursors[s])'
  <2>1. Passed(s, cursors[s]) /\ cursors[s] \in Nat
    BY <1>1, <1>2, <1>3, <1>4 DEF RunStands
  <2> QED
    BY <1>8, <2>1, PassedStays DEF Passed
<1>9. Growing /\ TypeInv' => RunStands(p)'
  BY <1>6, <1>7, <1>8 DEF RunStands
<1>10. Growing /\ TypeInv' => \A s \in Session : Passed(s, saved[s])'
  BY <1>7, <1>8
<1>11. /\ OneMemoryPerKey' /\ stored' \subseteq Memory /\ missed' \subseteq Session \X Nat
       /\ lock' \in Proc \cup {None} /\ saved' \in [Session -> Nat]
       /\ stored \subseteq stored' /\ missed \subseteq missed'
  BY <1>1, <1>7 DEF SyncInv, OneMemoryPerKey, TypeInv, TypeOK
<1> QED
  BY <1>1, <1>6, <1>7, <1>9, <1>10, <1>11, GoesOnStands

LEMMA LoseCursorsStands ==
  ASSUME TypeInv, SyncInv, LoseCursors
  PROVE  TypeInv' /\ SyncInv'
<1>1. /\ mishaps' = mishaps + 1 /\ saved' = NoCursors
      /\ UNCHANGED <<transcripts, stored, lock, run, missed, rewritten>>
  BY DEF LoseCursors
<1>2. NoCursors \in [Session -> Nat] /\ \A s \in Session : NoCursors[s] = 0
  BY DEF NoCursors
<1>3. TypeInv'
  BY <1>1, <1>2 DEF TypeInv, TypeOK, SizesFit, LinesOf, transcripts
<1>4. Growing
  BY <1>1, ReaderGrows
<1>5. \A s \in Session : Passed(s, saved[s])'
  <2> TAKE s \in Session
  <2>1. saved'[s] = 0
    BY <1>1, <1>2
  <2>2. Passed(s, 0)'
    BY <1>3, NothingPassed
  <2> QED
    BY <2>1, <2>2
<1>6. OneMemoryPerKey'
  BY <1>1 DEF SyncInv, OneMemoryPerKey
<1> QED
  BY <1>1, <1>3, <1>4, <1>5, <1>6, SyncSteps

-----------------------------------------------------------------------------
(* The invariant.                                                          *)
LEMMA Initially ==
  ASSUME Init
  PROVE  TypeInv /\ SyncInv
<1>1. \A s \in Session : LinesOf(s) = <<>> /\ written[s] = 0 /\ saved[s] = 0
  BY DEF Init, LinesOf, NoCursors
<1>2. TypeOK
  BY DEF Init, TypeOK, NoCursors
<1>3. SizesFit
  <2>1. Len(<<>>) = 0
    OBVIOUS
  <2> QED
    BY <1>1, <2>1 DEF SizesFit
<1>4. \A s \in Session : Passed(s, saved[s])
  <2>1. DOMAIN <<>> = {}
    OBVIOUS
  <2>2. \A s \in Session : saved[s] <= written[s] /\ DOMAIN LinesOf(s) = {}
    BY <1>1, <2>1
  <2> QED
    BY <2>2 DEF Passed
<1>5. OneMemoryPerKey /\ \A p \in Proc : ~ Running(p)
  BY DEF Init, OneMemoryPerKey, Running
<1> QED
  BY <1>2, <1>3, <1>4, <1>5 DEF TypeInv, SyncInv

LEMMA Inductive ==
  ASSUME TypeInv, SyncInv, [Next]_vars
  PROVE  TypeInv' /\ SyncInv'
<1>1. ASSUME NEW s \in Session, BeginLine(s) \/ EndLine(s) \/ StartOver(s)
      PROVE  TypeInv' /\ SyncInv'
  BY <1>1, OutsideStands
<1>2. ASSUME NEW p \in Proc, Start(p)
      PROVE  TypeInv' /\ SyncInv'
  BY <1>2, StartStands
<1>3. ASSUME NEW p \in Proc, OpenFile(p)
      PROVE  TypeInv' /\ SyncInv'
  BY <1>3, OpenFileStands
<1>4. ASSUME NEW p \in Proc, ReadLine(p)
      PROVE  TypeInv' /\ SyncInv'
  BY <1>4, ReadLineStands
<1>5. ASSUME NEW p \in Proc, Remember(p)
      PROVE  TypeInv' /\ SyncInv'
  BY <1>5, RememberStands
<1>6. ASSUME NEW p \in Proc, Refused(p) \/ Finish(p) \/ Killed(p)
      PROVE  TypeInv' /\ SyncInv'
  <2>1. Stop(p) /\ UNCHANGED <<transcripts, stored, saved, missed, rewritten>>
    BY <1>6 DEF Refused, Finish, Killed
  <2>2. mishaps' \in Nat
    BY <1>6 DEF Refused, Finish, Killed, TypeInv, TypeOK
  <2> QED
    BY <2>1, <2>2, StopsStand
<1>7. ASSUME NEW p \in Proc, SaveCursors(p)
      PROVE  TypeInv' /\ SyncInv'
  BY <1>7, SaveCursorsStands
<1>8. CASE LoseCursors
  BY <1>8, LoseCursorsStands
<1>9. CASE UNCHANGED vars
  BY <1>9 DEF vars, transcripts, TypeInv, TypeOK, SyncInv, SizesFit, OneMemoryPerKey, SameKey,
              Passed, Settled, IsStored, LinesOf, Running, RunStands, AtItsLine, SentAreStored
<1> QED
  BY <1>1, <1>2, <1>3, <1>4, <1>5, <1>6, <1>7, <1>8, <1>9 DEF Next, RunStep

LEMMA Invariant == Spec => [](TypeInv /\ SyncInv)
<1>1. Init => TypeInv /\ SyncInv
  BY Initially
<1>2. (TypeInv /\ SyncInv) /\ [Next]_vars => (TypeInv /\ SyncInv)'
  BY Inductive
<1> QED
  BY <1>1, <1>2, PTL DEF Spec

(* Every variable stays of its type, and a file is never larger than its   *)
(* lines, whatever runs and the other program do at once.                  *)
THEOREM SyncTypeCorrect == Spec => []TypeOK
<1>1. TypeInv => TypeOK
  BY DEF TypeInv
<1> QED
  BY <1>1, Invariant, PTL

(* The cursors in the state file never pass a marker that is not stored    *)
(* under its key, but for a line that was read torn, and no key ever holds *)
(* two memories: for any number of transcripts, of lines, of markers on a  *)
(* line and of runs, refused, killed or started over at any point, and     *)
(* whoever deletes the state file meanwhile.                               *)
THEOREM MarkersAreNotPassed == Spec => []PassedLinesAreStored
<1>1. SyncInv => PassedLinesAreStored
  BY DEF SyncInv, Passed, PassedLinesAreStored
<1> QED
  BY <1>1, Invariant, PTL
=============================================================================

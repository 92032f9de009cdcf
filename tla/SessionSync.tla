----------------------------- MODULE SessionSync -----------------------------
(***************************************************************************)
(* The hourly capture of marked lines out of the transcripts of another    *)
(* program: recipes/openclaw/session_sync_v2.py over the `remember`        *)
(* command of the CLI.  A run takes a lock that no other run waits for,    *)
(* loads the cursors, reads every transcript from its cursor to its end    *)
(* and saves the cursors after each transcript; each marker is remembered  *)
(* by a process of its own, under an id made of session, byte offset and   *)
(* place on the line.  Meanwhile the other program appends, in pieces a    *)
(* reader can see, or starts a transcript over; a run can be killed, its   *)
(* cursors lost, a write refused.                                          *)
(*                                                                         *)
(* Data is abstracted to what the cursors tell apart: a line is the        *)
(* sequence of the eligible contents it marks (labels, roles and secrets   *)
(* are filtered before it), and offsets count half lines, so an odd offset *)
(* lies within a line.  Agent and workspace are fixed; the ids they are    *)
(* hashed into are the keys.                                               *)
(***************************************************************************)
EXTENDS Integers, Sequences, FiniteSets

CONSTANTS
  Session,      \* the transcripts, numbered in the order of their names
  Content,      \* what markers say
  Lines,        \* the lines transcripts are made of
  Proc,         \* processes that run the script, one run after the other
  MaxLines,     \* bound: how many lines each transcript has
  MaxRewrites,  \* bound: transcripts that are started over
  MaxMishaps,   \* bound: runs killed, writes failed, cursors lost
  None

ASSUME SyncAssumption ==
  /\ Session \subseteq Nat
  /\ Lines \subseteq Seq(Content)
  /\ MaxLines \in [Session -> Nat]
  /\ MaxRewrites \in Nat
  /\ MaxMishaps \in Nat
  /\ None \notin Proc \cup Session \cup Seq(Lines)

VARIABLES
  text,       \* Session -> its lines, the last perhaps not whole; None: no file
  written,    \* Session -> its size, in half lines
  stored,     \* the memories, by key: every key has its own record id
  saved,      \* Session -> its cursor in the state file, 0 where it has none
  lock,       \* the process that holds the lock file
  run,        \* Proc -> what the process works on
  mishaps,    \* how many there were
  missed,     \* history: lines that were read before they were whole
  rewritten   \* history: transcripts that were started over

vars == <<text, written, stored, saved, lock, run, mishaps, missed, rewritten>>
transcripts == <<text, written>>

Memory == [session : Session, offset : Nat, index : Nat, content : Content]

(* at = None between two transcripts; line holds the markers of the line   *)
(* at offset that are being remembered, sent of them so far.               *)
Run == [cursors : [Session -> Nat], left : SUBSET Session,
        at : Session \cup {None}, offset : Nat, line : Seq(Content), sent : Nat]

ASSUME RunAssumption == None \notin Run

NoCursors == [s \in Session |-> 0]

Init ==
  /\ text = [s \in Session |-> None]
  /\ written = [s \in Session |-> 0]
  /\ stored = {}
  /\ saved = NoCursors
  /\ lock = None
  /\ run = [p \in Proc |-> None]
  /\ mishaps = 0
  /\ missed = {}
  /\ rewritten = {}

-----------------------------------------------------------------------------
(* The other program.                                                      *)

LinesOf(s) == IF text[s] = None THEN <<>> ELSE text[s]

(* The first piece of a new line, and the rest of it.                      *)
BeginLine(s) ==
  /\ Len(LinesOf(s)) < MaxLines[s]
  /\ written[s] = 2 * Len(LinesOf(s))
  /\ \E line \in Lines : text' = [text EXCEPT ![s] = Append(LinesOf(s), line)]
  /\ written' = [written EXCEPT ![s] = @ + 1]
  /\ UNCHANGED <<stored, saved, lock, run, mishaps, missed, rewritten>>

EndLine(s) ==
  /\ text[s] # None
  /\ written[s] < 2 * Len(text[s])
  /\ written' = [written EXCEPT ![s] = @ + 1]
  /\ UNCHANGED <<text, stored, saved, lock, run, mishaps, missed, rewritten>>

StartOver(s) ==
  /\ text[s] # None
  /\ Cardinality(rewritten) < MaxRewrites
  /\ text' = [text EXCEPT ![s] = <<>>]
  /\ written' = [written EXCEPT ![s] = 0]
  /\ rewritten' = rewritten \cup {s}
  /\ missed' = {m \in missed : m[1] # s}
  /\ UNCHANGED <<stored, saved, lock, run, mishaps>>

-----------------------------------------------------------------------------
(* A run.                                                                  *)

Running(p) == run[p] # None

(* main, FileLock, load_state, the list of files.  A run that finds the    *)
(* lock taken exits at once; cursors that cannot be read are none.         *)
Start(p) ==
  /\ ~ Running(p)
  /\ lock = None
  /\ lock' = p
  /\ run' = [run EXCEPT ![p] =
       [cursors |-> saved, left |-> {s \in Session : text[s] # None}, at |-> None,
        offset |-> 0, line |-> <<>>, sent |-> 0]]
  /\ UNCHANGED <<transcripts, stored, saved, mishaps, missed, rewritten>>

(* Seeded fault: a lock file that a run which failed leaves behind.        *)
StopKeepingLock(p) ==
  /\ run' = [run EXCEPT ![p] = None]
  /\ lock' = IF run[p].left = {} THEN None ELSE lock

(* The run is over, however it ends; the kernel drops the lock with it.    *)
Stop(p) ==
  /\ run' = [run EXCEPT ![p] = None]
  /\ lock' = None

(* The cursor of a transcript, from the start if the file is shorter.      *)
Cursor(s, cursors) == IF written[s] < cursors[s] THEN 0 ELSE cursors[s]

OpenFile(p) ==
  /\ Running(p)
  /\ run[p].at = None
  /\ \E s \in run[p].left :
       /\ \A t \in run[p].left : s <= t
       /\ run' = [run EXCEPT ![p] =
            [run[p] EXCEPT !.left = run[p].left \ {s}, !.at = s,
                           !.offset = Cursor(s, run[p].cursors)]]
  /\ UNCHANGED <<transcripts, stored, saved, lock, mishaps, missed, rewritten>>

BetweenLines(p) ==
  Running(p) /\ run[p].at # None /\ run[p].line = <<>>

LineAt(offset) == offset \div 2 + 1

(* readline: to the end of the line, or of what there is of it.            *)
LineEnd(s, offset) ==
  IF 2 * LineAt(offset) <= written[s] THEN 2 * LineAt(offset) ELSE written[s]

(* extract_memories: only a whole line parses, and a piece has no markers. *)
IsWhole(offset, end) == end = offset + 2

ReadLine(p) ==
  /\ BetweenLines(p)
  /\ LET s == run[p].at  o == run[p].offset  end == LineEnd(s, o) IN
     /\ o < written[s]
     /\ \/ /\ IsWhole(o, end)
           /\ LET line == text[s][LineAt(o)] IN
              run' = [run EXCEPT ![p] =
                [run[p] EXCEPT !.line = line, !.offset = IF line = <<>> THEN end ELSE o]]
           /\ UNCHANGED missed
        \/ /\ ~ IsWhole(o, end)
           /\ run' = [run EXCEPT ![p] = [run[p] EXCEPT !.offset = end]]
           /\ missed' = missed \cup {<<s, LineAt(o)>>}
  /\ UNCHANGED <<transcripts, stored, saved, lock, mishaps, rewritten>>

(* The next marker of the line, with the key it is remembered under.       *)
Marker(p) ==
  [session |-> run[p].at, offset |-> run[p].offset, index |-> run[p].sent,
   content |-> run[p].line[run[p].sent + 1]]

SameKey(a, b) ==
  a.session = b.session /\ a.offset = b.offset /\ a.index = b.index

(* A record with this id and another content: the write is refused.        *)
Conflicts(m) == \E n \in stored : SameKey(m, n) /\ n.content # m.content

(* cortex-mem remember --idempotency-key: stored, or already there and     *)
(* retained.  The cursor moves past the line after its last marker.        *)
Remember(p) ==
  /\ Running(p) /\ run[p].line # <<>>
  /\ ~ Conflicts(Marker(p))
  /\ stored' = stored \cup {Marker(p)}
  /\ LET sent == run[p].sent + 1 IN
     run' = [run EXCEPT ![p] =
       IF sent < Len(run[p].line) THEN [run[p] EXCEPT !.sent = sent]
       ELSE [run[p] EXCEPT !.line = <<>>, !.sent = 0, !.offset = run[p].offset + 2]]
  /\ UNCHANGED <<transcripts, saved, lock, mishaps, missed, rewritten>>

(* Seeded fault: the cursors are saved on the way out as well, past the    *)
(* line that failed.                                                       *)
RefusedSavingPast(p) ==
  /\ Running(p) /\ run[p].line # <<>>
  /\ \/ Conflicts(Marker(p)) /\ UNCHANGED mishaps
     \/ mishaps < MaxMishaps /\ mishaps' = mishaps + 1
  /\ saved' = [run[p].cursors EXCEPT ![run[p].at] = run[p].offset + 2]
  /\ Stop(p)
  /\ UNCHANGED <<transcripts, stored, missed, rewritten>>

(* The command exits non-zero and the run gives up, nothing saved for this *)
(* transcript: on another content, or for any other reason.                *)
Refused(p) ==
  /\ Running(p) /\ run[p].line # <<>>
  /\ \/ Conflicts(Marker(p)) /\ UNCHANGED mishaps
     \/ mishaps < MaxMishaps /\ mishaps' = mishaps + 1
  /\ Stop(p)
  /\ UNCHANGED <<transcripts, stored, saved, missed, rewritten>>

(* The end of the file: all the cursors are written, over whatever the     *)
(* state file holds by now.                                                *)
SaveCursors(p) ==
  /\ BetweenLines(p)
  /\ written[run[p].at] <= run[p].offset
  /\ LET cursors == [run[p].cursors EXCEPT ![run[p].at] = run[p].offset] IN
     /\ saved' = cursors
     /\ run' = [run EXCEPT ![p] =
          [run[p] EXCEPT !.cursors = cursors, !.at = None, !.offset = 0]]
  /\ UNCHANGED <<transcripts, stored, lock, mishaps, missed, rewritten>>

Finish(p) ==
  /\ Running(p)
  /\ run[p].at = None /\ run[p].left = {}
  /\ Stop(p)
  /\ UNCHANGED <<transcripts, stored, saved, mishaps, missed, rewritten>>

Killed(p) ==
  /\ Running(p)
  /\ mishaps < MaxMishaps /\ mishaps' = mishaps + 1
  /\ Stop(p)
  /\ UNCHANGED <<transcripts, stored, saved, missed, rewritten>>

(* The state file is deleted, or no longer parses.                         *)
LoseCursors ==
  /\ mishaps < MaxMishaps /\ mishaps' = mishaps + 1
  /\ saved' = NoCursors
  /\ UNCHANGED <<transcripts, stored, lock, run, missed, rewritten>>

RunStep(p) ==
  \/ OpenFile(p) \/ ReadLine(p) \/ Remember(p) \/ Refused(p)
  \/ SaveCursors(p) \/ Finish(p)

Next ==
  \/ \E s \in Session : BeginLine(s) \/ EndLine(s) \/ StartOver(s)
  \/ \E p \in Proc : Start(p) \/ RunStep(p) \/ Killed(p)
  \/ LoseCursors

Spec == Init /\ [][Next]_vars

(* The timer starts a run every hour and catches up on missed ones, and a  *)
(* run that is not killed goes on; nothing is asked of the other program.  *)
Fairness ==
  /\ WF_vars(\E p \in Proc : Start(p))
  /\ \A p \in Proc : WF_vars(RunStep(p))

FairSpec == Spec /\ Fairness

-----------------------------------------------------------------------------
TypeOK ==
  /\ text \in [Session -> Seq(Lines) \cup {None}]
  /\ written \in [Session -> Nat]
  /\ stored \subseteq Memory
  /\ saved \in [Session -> Nat]
  /\ lock \in Proc \cup {None}
  /\ run \in [Proc -> Run \cup {None}]
  /\ mishaps \in Nat
  /\ missed \subseteq Session \X Nat
  /\ rewritten \subseteq Session

(* All that line j of a transcript marks is stored under its keys.         *)
IsStored(s, j) ==
  \A k \in DOMAIN text[s][j] :
    [session |-> s, offset |-> 2 * (j - 1), index |-> k - 1,
     content |-> text[s][j][k]] \in stored

Settled(s, j) == IsStored(s, j) \/ <<s, j>> \in missed

OneMemoryPerKey == \A a, b \in stored : SameKey(a, b) => a = b

(* A cursor never passes a marker that is not stored, through failures,    *)
(* deaths and lost cursors ("Advance only after every eligible memory on   *)
(* the line succeeded"), but for a line that was read while it was being   *)
(* written; and however often a line is replayed, a key holds one memory.  *)
PassedLinesAreStored ==
  /\ \A s \in Session \ rewritten : \A j \in DOMAIN LinesOf(s) :
       2 * j <= saved[s] => Settled(s, j)
  /\ OneMemoryPerKey

(* A marker that was written whole is stored in the end, unless a          *)
(* transcript that sorts no later was started over: its new lines take the *)
(* keys of the old ones, the write is refused, and every run stops there.  *)
IsWritten(s, j) == j \in DOMAIN LinesOf(s) /\ 2 * j <= written[s]

MayBeBlocked(s) == \E t \in rewritten : t <= s

EveryMarkerArrives ==
  \A s \in Session : \A j \in 1 .. MaxLines[s] :
    IsWritten(s, j) ~> (MayBeBlocked(s) \/ (IsWritten(s, j) /\ Settled(s, j)))

-----------------------------------------------------------------------------
(* Why no marker is passed: neither the cursors in the file, nor those of  *)
(* any run, nor the place a run reads at are past a line that is not       *)
(* settled, and a run that is at a line has stored what it has sent of it. *)
Passed(s, cursor) ==
  s \notin rewritten =>
    /\ cursor <= written[s]
    /\ \A j \in DOMAIN LinesOf(s) : 2 * j <= cursor => Settled(s, j)

SentAreStored(p) ==
  \A k \in 1 .. run[p].sent :
    [session |-> run[p].at, offset |-> run[p].offset, index |-> k - 1,
     content |-> run[p].line[k]] \in stored

AtItsLine(p) ==
  /\ run[p].at # None
  /\ run[p].sent < Len(run[p].line)
  /\ run[p].at \notin rewritten =>
       /\ run[p].offset % 2 = 0
       /\ run[p].offset + 2 <= written[run[p].at]
       /\ run[p].line = LinesOf(run[p].at)[LineAt(run[p].offset)]
  /\ SentAreStored(p)

RunStands(p) ==
  /\ \A s \in Session : Passed(s, run[p].cursors[s])
  /\ run[p].at # None => Passed(run[p].at, run[p].offset)
  /\ run[p].line # <<>> => AtItsLine(p)
  /\ run[p].line = <<>> => run[p].sent = 0

SizesFit == \A s \in Session : written[s] <= 2 * Len(LinesOf(s))

SyncInv ==
  /\ SizesFit
  /\ OneMemoryPerKey
  /\ \A s \in Session : Passed(s, saved[s])
  /\ \A p \in Proc : Running(p) => RunStands(p)
=============================================================================

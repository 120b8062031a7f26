----------------------------- MODULE FileTailer -----------------------------
(***************************************************************************)
(* FileTailer.Run and readNewLines (internal/collector/file_tailer.go),    *)
(* beside a program that writes the file, rotates, removes or truncates it *)
(* at any moment.                                                          *)
(*                                                                         *)
(* A file is a sequence of cells. A line is three of them, two halves of   *)
(* its text and the newline, so that a poll can meet a line after each.    *)
(***************************************************************************)
EXTENDS Naturals, Sequences, FiniteSets, SequencesExt

CONSTANTS
    Inodes,        \* inode numbers the file system hands out
    Valid,         \* the lines the parser accepts
    InParts,       \* bound: lines that the program may write in parts
    MaxLines,      \* bound: lines the program writes
    MaxFiles       \* bound: files it creates, or empties and starts again

Lines == 1 .. MaxLines
Files == 1 .. MaxFiles
NoFile == 0
NoIno == 0
Cells == Lines \X (1 .. 3)
IsNewline(c) == c[2] = 3

ASSUME TailerConstants ==
    /\ Inodes \subseteq Nat \ {NoIno} /\ Inodes # {} /\ Valid \subseteq Lines
    /\ InParts \subseteq Lines
    /\ MaxLines \in Nat /\ MaxFiles \in Nat \ {0}

VARIABLES
    path,      \* the file the path names, or NoFile
    cells,     \* content of each file
    inode,     \* inode of each file, NoIno before it exists
    written,   \* cells of all lines written so far
    pc,        \* the goroutine: "stat", "open", "read", "send", "wait", "done"
    lastSize, lastIno, initialSkip, newSize,
    handle,    \* the file readNewLines has open, or NoFile
    rpos,      \* cells of it that the bufio.Reader has read
    rbuf,      \* the part of them it has not returned yet
    text,      \* the sample being sent
    eof,       \* ReadString returned io.EOF with this line
    stopped,   \* ctx is done or stopCh is closed
    emitted,   \* history: how often each line arrived at out
    garbled,   \* history: cells that arrived in a sample that is no line
    base,      \* history: lines in the file when the tailer skipped it
    split,     \* history: lines whose text was written in two parts
    raced,     \* history: lines written between a Stat and the end of its read
    torn,      \* history: lines held in part when the file was emptied or a read failed
    missed,    \* history: lines of a failed read that the offset passes over
    taints,    \* history: what the tailer cannot notice
    statFile   \* history: the file at the last Stat

fsVars == <<path, cells, inode>>
pollVars == <<lastSize, lastIno, initialSkip, newSize>>
readVars == <<handle, rpos, rbuf, text, eof>>
histVars == <<base, split, raced, torn, missed, taints, statFile>>
outVars == <<emitted, garbled>>
vars == <<fsVars, written, pc, pollVars, readVars, stopped, outVars, histVars>>

Content == IF path = NoFile THEN <<>> ELSE cells[path]
LineOf(c) == c[1]
LinesIn(s) == {LineOf(s[i]) : i \in 1 .. Len(s)}

TailerInit ==
    /\ path = 1 /\ inode = [f \in Files |-> IF f = 1 THEN Min(Inodes) ELSE NoIno]
    /\ cells = [f \in Files |-> <<>>] /\ written = 0
    /\ pc = "stat" /\ lastSize = 0 /\ lastIno = NoIno /\ initialSkip = TRUE
    /\ newSize = 0 /\ handle = NoFile /\ rpos = 0 /\ rbuf = <<>> /\ text = <<>>
    /\ eof = FALSE /\ stopped = FALSE
    /\ emitted = [i \in Lines |-> 0] /\ garbled = {}
    /\ base = {} /\ split = {} /\ raced = {} /\ torn = {} /\ missed = {} /\ taints = {}
    /\ statFile = NoFile
-----------------------------------------------------------------------------
(* The program that owns the file. It writes up to n cells of its current  *)
(* line; lines it writes while a poll is under way are remembered.         *)
CellNo(k) == <<1 + ((k - 1) \div 3), 1 + ((k - 1) % 3)>>

WriteCells(n) ==
    LET new == [k \in 1 .. n |-> CellNo(written + k)]
        line == LineOf(new[1])
    IN  /\ path # NoFile /\ written + n <= 3 * MaxLines
        /\ \A k \in 1 .. n : LineOf(new[k]) = line
        /\ cells' = [cells EXCEPT ![path] = @ \o new]
        /\ written' = written + n
        /\ split' = IF n = 1 /\ new[1][2] = 1 THEN split \cup {line} ELSE split
        /\ raced' = IF pc \in {"open", "read", "send"} THEN raced \cup {line} ELSE raced
        /\ UNCHANGED <<path, inode, pc, pollVars, readVars, stopped, outVars, base, torn,
                       missed, taints, statFile>>

(* Rotation begins by renaming or removing the file.                       *)
TakeAway ==
    /\ path # NoFile /\ path' = NoFile
    /\ UNCHANGED <<cells, inode, written, pc, pollVars, readVars, stopped, outVars, histVars>>

Unused(f) == inode[f] = NoIno /\ \A g \in Files : g < f => inode[g] # NoIno

(* The new file gets another inode, or that of a removed one which nobody  *)
(* has open.                                                               *)
Create(f, n) ==
    /\ path = NoFile /\ Unused(f) /\ (handle # NoFile => inode[handle] # n)
    /\ path' = f /\ inode' = [inode EXCEPT ![f] = n]
    /\ UNCHANGED <<cells, written, pc, pollVars, readVars, stopped, outVars, histVars>>

(* The line that the buffer ends in the middle of.                         *)
Unfinished ==
    IF rbuf = <<>> \/ IsNewline(Last(rbuf)) THEN {} ELSE {LineOf(Last(rbuf))}

(* A truncated file is another content under the same inode; whoever has   *)
(* it open reads the new content, behind what is in its buffer already.    *)
Truncate(f) ==
    /\ path # NoFile /\ cells[path] # <<>> /\ Unused(f)
    /\ path' = f /\ inode' = [inode EXCEPT ![f] = inode[path]]
    /\ handle' = IF handle = path THEN f ELSE handle
    /\ torn' = IF handle = path THEN torn \cup Unfinished ELSE torn
    /\ UNCHANGED <<cells, written, pc, pollVars, rpos, rbuf, text, eof, stopped, outVars,
                   base, split, raced, missed, taints, statFile>>

Cancel ==
    /\ ~stopped /\ stopped' = TRUE
    /\ UNCHANGED <<fsVars, written, pc, pollVars, readVars, outVars, histVars>>
-----------------------------------------------------------------------------
(* One iteration of Run. Stat fails while the path names nothing.          *)
StatFails ==
    /\ pc = "stat" /\ path = NoFile
    /\ pc' = "wait"
    /\ UNCHANGED <<fsVars, written, pollVars, readVars, stopped, outVars, histVars>>

(* Faulty variants: only the size, or only the inode, is compared.         *)
RotatedBySize == Len(Content) < lastSize
RotatedByInode == inode[path] # lastIno

(* Another inode, or a file shorter than before, is read from its start.   *)
Rotated == inode[path] # lastIno \/ Len(Content) < lastSize

(* Another content that inode and size do not tell from the last one.      *)
Unnoticeable == path # statFile /\ inode[path] = lastIno /\ Len(Content) >= lastSize

(* What the Stat tells the tailer about the file it has been following.    *)
Statted ==
    /\ pc = "stat" /\ path # NoFile
    /\ lastIno' = IF Rotated THEN inode[path] ELSE lastIno
    /\ statFile' = path
    /\ taints' = IF Unnoticeable THEN taints \cup {"unnoticed"} ELSE taints

(* The first file found is skipped: its lines are old.                     *)
StatSkips ==
    /\ Statted /\ initialSkip
    /\ initialSkip' = FALSE /\ lastSize' = Len(Content)
    /\ base' = LinesIn(Content)
    /\ pc' = "wait"
    /\ UNCHANGED <<fsVars, written, newSize, readVars, stopped, outVars, split, raced,
                   torn, missed>>

StartsAt == IF Rotated THEN 0 ELSE lastSize

StatFindsNothing ==
    /\ Statted /\ ~initialSkip /\ Len(Content) <= StartsAt
    /\ lastSize' = StartsAt /\ pc' = "wait"
    /\ UNCHANGED <<fsVars, written, initialSkip, newSize, readVars, stopped, outVars,
                   base, split, raced, torn, missed>>

StatFindsMore ==
    /\ Statted /\ ~initialSkip /\ Len(Content) > StartsAt
    /\ lastSize' = StartsAt /\ newSize' = Len(Content) /\ pc' = "open"
    /\ UNCHANGED <<fsVars, written, initialSkip, readVars, stopped, outVars, base,
                   split, raced, torn, missed>>

(* Faulty variant: the offset stays.                                       *)
AdvanceNever == lastSize' = lastSize /\ newSize' = 0

(* Whatever readNewLines returns, the offset moves to the size Stat saw.   *)
Advance == lastSize' = newSize /\ newSize' = 0

(* Faulty variant: the file is not closed.                                 *)
FinishLeavesOpen ==
    /\ Advance /\ pc' = "wait"
    /\ rpos' = 0 /\ rbuf' = <<>> /\ text' = <<>> /\ eof' = FALSE /\ UNCHANGED handle

Finish ==
    /\ Advance /\ pc' = "wait"
    /\ handle' = NoFile /\ rpos' = 0 /\ rbuf' = <<>> /\ text' = <<>> /\ eof' = FALSE

(* readNewLines opens the path again; the file may be another one by now.  *)
OpenFails ==
    /\ pc = "open"
    /\ taints' = IF path = NoFile THEN taints ELSE taints \cup {"openFailed"}
    /\ Finish
    /\ UNCHANGED <<fsVars, written, lastIno, initialSkip, stopped, outVars>>
    /\ UNCHANGED <<base, split, raced, torn, missed, statFile>>

OpenAndSeek ==
    /\ pc = "open" /\ path # NoFile
    /\ handle' = path /\ rpos' = lastSize /\ pc' = "read"
    /\ taints' = IF inode[path] # lastIno THEN taints \cup {"crossed"} ELSE taints
    /\ UNCHANGED <<fsVars, written, pollVars, rbuf, text, eof, stopped, outVars, base,
                   split, raced, torn, missed, statFile>>

(* ReadString: while the reader's buffer holds no newline it is filled     *)
(* with the next bytes of the file, also beyond the size that Stat saw. A  *)
(* fill takes at most the free part of 4096 bytes, so it may end anywhere, *)
(* and the file may change before the next one.                            *)
HasLine == \E i \in 1 .. Len(rbuf) : IsNewline(rbuf[i])

Available == SubSeq(cells[handle], rpos + 1, Len(cells[handle]))

FillBuffer ==
    /\ pc = "read" /\ ~HasLine
    /\ \E n \in 1 .. Len(Available) :
          rbuf' = rbuf \o SubSeq(Available, 1, n) /\ rpos' = rpos + n
    /\ UNCHANGED <<fsVars, written, pc, pollVars, handle, text, eof, stopped, outVars,
                   histVars>>

WholeLine(t) == \E i \in Lines : t = <<<<i, 1>>, <<i, 2>>>>
Accepted(t) == \E i \in Valid : t = <<<<i, 1>>, <<i, 2>>>>

(* trimNewline and Parse: an empty text is passed over, a whole line is    *)
(* accepted or not, and a part of one is anything to the parser.           *)
ParseLine(t, last) ==
    \/ /\ Accepted(t) \/ (t # <<>> /\ ~WholeLine(t))
       /\ text' = t /\ eof' = last /\ pc' = "send"
       /\ UNCHANGED <<handle, rpos, lastSize, newSize>>
    \/ /\ ~Accepted(t)
       /\ IF last THEN Advance /\ pc' = "wait" /\ handle' = NoFile /\ rpos' = 0
                  ELSE UNCHANGED <<lastSize, newSize, pc, handle, rpos>>
       /\ UNCHANGED <<text, eof>>

ReadLine ==
    /\ pc = "read" /\ HasLine
    /\ LET k == Min({i \in 1 .. Len(rbuf) : IsNewline(rbuf[i])})
       IN  ParseLine(SubSeq(rbuf, 1, k - 1), FALSE) /\ rbuf' = SubSeq(rbuf, k + 1, Len(rbuf))
    /\ UNCHANGED <<fsVars, written, lastIno, initialSkip, stopped, outVars,
                   histVars>>

(* The last line has no newline yet; at the very end there is nothing.     *)
ReadLast ==
    /\ pc = "read" /\ ~HasLine /\ Available = <<>>
    /\ ParseLine(rbuf, TRUE) /\ rbuf' = <<>>
    /\ UNCHANGED <<fsVars, written, lastIno, initialSkip, stopped, outVars,
                   histVars>>

(* What the read has not returned of the file up to the size of the Stat.  *)
Unread ==
    LinesIn(SubSeq(cells[handle], rpos - Len(rbuf) + 1, Min({newSize, Len(cells[handle])})))

(* A fill fails with another error than io.EOF. The part of a line that    *)
(* came with it is parsed like a last line; readNewLines returns, and Run  *)
(* logs the error and moves the offset on.                                 *)
ReadFails ==
    /\ pc = "read" /\ ~HasLine
    /\ torn' = torn \cup LinesIn(rbuf) /\ missed' = missed \cup Unread
    /\ ParseLine(rbuf, TRUE) /\ rbuf' = <<>>
    /\ UNCHANGED <<fsVars, written, lastIno, initialSkip, stopped, outVars>>
    /\ UNCHANGED <<base, split, raced, taints, statFile>>

(* The send on out, which may wait, or the context ends the read.          *)
SendSample ==
    /\ pc = "send"
    /\ emitted' = [i \in Lines |-> IF Accepted(text) /\ LineOf(text[1]) = i
                                     THEN emitted[i] + 1 ELSE emitted[i]]
    /\ garbled' = IF WholeLine(text) THEN garbled ELSE garbled \cup LinesIn(text)
    /\ IF eof THEN Finish
              ELSE pc' = "read" /\ text' = <<>> /\ UNCHANGED <<lastSize, newSize, handle, rpos, rbuf, eof>>
    /\ UNCHANGED <<fsVars, written, lastIno, initialSkip, stopped, histVars>>

SendStopped ==
    /\ pc = "send" /\ stopped
    /\ Finish
    /\ UNCHANGED <<fsVars, written, lastIno, initialSkip, stopped, outVars,
                   histVars>>

Tick ==
    /\ pc = "wait" /\ pc' = "stat"
    /\ UNCHANGED <<fsVars, written, pollVars, readVars, stopped, outVars, histVars>>

Return ==
    /\ pc = "wait" /\ stopped /\ pc' = "done"
    /\ UNCHANGED <<fsVars, written, pollVars, readVars, stopped, outVars, histVars>>

(* Bound: the program rests once the tailer is stopped or has been misled, *)
(* because no property speaks of what follows.                             *)
(* A write adds a part of a line, or all of it.                            *)
Sizes == IF CellNo(written + 1)[1] \in InParts THEN 1 .. 3 ELSE {3}

Program ==
    /\ ~stopped /\ taints = {}
    /\ \/ \E n \in Sizes : WriteCells(n)
       \/ TakeAway
       \/ \E f \in Files : Truncate(f) \/ \E n \in Inodes : Create(f, n)

TailerStep ==
    \/ StatFails \/ StatSkips \/ StatFindsNothing \/ StatFindsMore
    \/ OpenFails \/ OpenAndSeek \/ FillBuffer \/ ReadLine \/ ReadLast \/ ReadFails
    \/ SendSample \/ SendStopped \/ Tick \/ Return

TailerNext == Program \/ Cancel \/ TailerStep

(* The ticker fires and the agent takes samples from out.                  *)
TailerSpec == TailerInit /\ [][TailerNext]_vars /\ WF_vars(TailerStep)
-----------------------------------------------------------------------------
(* Type invariant of the tailer.                                           *)
TailerTypeOK ==
    /\ path \in Files \cup {NoFile} /\ cells \in [Files -> Seq(Cells)]
    /\ inode \in [Files -> Inodes \cup {NoIno}] /\ written \in 0 .. 3 * MaxLines
    /\ pc \in {"stat", "open", "read", "send", "wait", "done"}
    /\ lastSize \in Nat /\ lastIno \in Inodes \cup {NoIno} /\ initialSkip \in BOOLEAN
    /\ newSize \in Nat /\ (pc = "open" => newSize > lastSize)
    /\ (handle # NoFile) <=> (pc \in {"read", "send"})
    /\ rbuf \in Seq(Cells) /\ text \in Seq(Cells) /\ (text # <<>> <=> pc = "send")

(* A valid line arrives at most once, unless it was written between the    *)
(* Stat and the end of the read (readNewLines ignores end). A sample that  *)
(* is not a line never arrives, unless the line was written then, was seen *)
(* half written, or was in the reader's hands in part when the file was    *)
(* truncated or the read failed. A file that was exchanged in a way that   *)
(* inode and size do not show is not spoken of.                            *)
NoDuplicates ==
    taints = {} =>
        /\ \A i \in Lines : emitted[i] > 1 => i \in raced
        /\ garbled \subseteq split \cup raced \cup torn

(* Complete lines of s, a prefix of a file.                                *)
CompleteIn(s) == {i \in Lines : {<<i, 1>>, <<i, 2>>, <<i, 3>>} \subseteq ToSet(s)}

(* What the tailer counts as read was read: between polls every valid line *)
(* before lastSize in the file it follows has arrived, over any number of  *)
(* rotations and truncations, unless it was there at the start, was seen   *)
(* half written, was written during a poll, or is one of those that a      *)
(* failed read had not returned.                                           *)
ReadUpToOffset ==
    (taints = {} /\ ~stopped /\ pc = "wait" /\ path = statFile /\ path # NoFile)
    => \A i \in CompleteIn(SubSeq(cells[path], 1, Min({lastSize, Len(cells[path])}))) \cap Valid :
          emitted[i] > 0 \/ i \in base \cup split \cup raced \cup missed

(* A line that is in the file arrives, unless it leaves the file before a  *)
(* poll, was there at the start or seen half written, or a failed read     *)
(* passed it over.                                                         *)
LinesArrive ==
    \A i \in Lines :
        (i \in CompleteIn(Content) \cap Valid) ~>
            \/ emitted[i] > 0 \/ i \in base \cup split \cup missed
            \/ i \notin CompleteIn(Content) \/ taints # {} \/ stopped
=============================================================================

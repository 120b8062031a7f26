---------------------------- MODULE TailerProofs ----------------------------
(***************************************************************************)
(* Proofs about module FileTailer: a line arrives twice, a piece of a line *)
(* arrives, and a line in front of the offset is missing, only with the    *)
(* exceptions that NoDuplicates and ReadUpToOffset name, however the file  *)
(* is written, rotated and truncated between the tailer's steps, wherever  *)
(* its fills end and whichever reads fail.                                 *)
(***************************************************************************)
EXTENDS FileTailer, LoopProofs

(* The cells of all lines, in the order in which they are written.         *)
Num(c) == 3 * (LineOf(c) - 1) + c[2]

Part(c) == c[2]
Used(f) == inode[f] # NoIno

(* What the type invariant leaves open: the remaining types, files that    *)
(* are used in order, the latest of them under the path, and flags that    *)
(* follow the goroutine.                                                   *)
HistoryTypes ==
    /\ emitted \in [Lines -> Nat] /\ rpos \in Nat /\ eof \in BOOLEAN
    /\ statFile \in Files \cup {NoFile} /\ handle \in Files \cup {NoFile}

FilesInOrder ==
    /\ \A f, g \in Files : g < f /\ Used(f) => Used(g)
    /\ path # NoFile => Used(path) /\ \A g \in Files : path < g => ~Used(g)
    /\ handle # NoFile => Used(handle)
    /\ statFile # NoFile => Used(statFile)
    /\ \A f \in Files : ~Used(f) => cells[f] = <<>>

ShapeInv == TailerTypeOK /\ HistoryTypes /\ FilesInOrder /\ (pc # "send" => ~eof)

(* Every cell is in one place, and the places follow the order of writing. *)
WrittenInOrder ==
    /\ \A f \in Files : \A p \in DOMAIN cells[f] : Num(cells[f][p]) <= written
    /\ \A f \in Files : \A p, q \in DOMAIN cells[f] :
          Num(cells[f][q]) + p = Num(cells[f][p]) + q
    /\ \A f, g \in Files : f < g =>
          \A p \in DOMAIN cells[f], q \in DOMAIN cells[g] : Num(cells[f][p]) < Num(cells[g][q])
    /\ \A k \in 1 .. written : \E f \in Files : \E p \in DOMAIN cells[f] : Num(cells[f][p]) = k

(* A line of which a file holds the first half last, or the second half    *)
(* first, was written in two parts.                                        *)
HalvesAreSplit ==
    /\ \A f \in Files : cells[f] # <<>> =>
          /\ Part(cells[f][Len(cells[f])]) = 1 => LineOf(cells[f][Len(cells[f])]) \in split
          /\ Part(cells[f][1]) = 2 => LineOf(cells[f][1]) \in split
    /\ written > 0 /\ Part(CellNo(written)) = 1 => LineOf(CellNo(written)) \in split

FilesInv == WrittenInOrder /\ HalvesAreSplit

Polling == pc \in {"open", "read", "send"}
Reading == pc \in {"read", "send"}

(* A size of the file that a Stat returned.                                *)
Cut(n) ==
    /\ n <= Len(cells[statFile])
    /\ n > 0 /\ Part(cells[statFile][n]) = 1 => LineOf(cells[statFile][n]) \in split

Followed ==
    /\ statFile = NoFile => lastSize = 0 /\ ~Polling
    /\ statFile # NoFile => lastIno = inode[statFile] /\ ~initialSkip /\ Cut(lastSize)
    /\ Polling => lastSize < newSize /\ Cut(newSize)
    /\ Reading => statFile <= handle
    /\ ~Reading => rbuf = <<>>

(* What lies behind the size that the Stat of this poll returned was       *)
(* written since.                                                          *)
BehindStat ==
    Polling =>
        \A f \in Files : \A p \in DOMAIN cells[f] :
            (statFile < f \/ (f = statFile /\ newSize < p)) => LineOf(cells[f][p]) \in raced

(* The reader's buffer is a part of the file of the Stat, and begins with  *)
(* a line unless the line was split.                                       *)
Clean ==
    /\ rpos <= Len(cells[statFile]) /\ Len(rbuf) <= rpos
    /\ \A i \in DOMAIN rbuf : rbuf[i] = cells[statFile][rpos - Len(rbuf) + i]
    /\ rbuf # <<>> /\ Part(rbuf[1]) = 2 => LineOf(rbuf[1]) \in split
    /\ rbuf = <<>> /\ ~eof /\ rpos > 0 /\ Part(cells[statFile][rpos]) = 1
          => LineOf(cells[statFile][rpos]) \in split

(* Once the open file was truncated, a line that the buffer ends in the    *)
(* middle of is known to be torn; what is read from then on was written    *)
(* since the Stat, and may stand behind the piece of that line.            *)
TornEnd ==
    rbuf # <<>> /\ ~IsNewline(rbuf[Len(rbuf)]) => LineOf(rbuf[Len(rbuf)]) \in torn

Mixed ==
    \A k \in DOMAIN rbuf :
        \/ LineOf(rbuf[k]) \in raced
        \/ /\ LineOf(rbuf[k]) \in torn
           /\ \E p \in DOMAIN cells[statFile] : cells[statFile][p] = rbuf[k]
           /\ \A m \in DOMAIN rbuf : rbuf[m] = rbuf[k] => m = k

BufferInv ==
    Reading => /\ handle = statFile => Clean
               /\ handle # statFile => (Clean /\ TornEnd) \/ Mixed

(* The place p of file f has been read, or will not be.                    *)
Passed(f, p) ==
    \/ f < statFile
    \/ /\ f = statFile
       /\ ~Reading => p <= lastSize
       /\ Reading /\ handle = statFile => p <= rpos

Arrived(i) ==
    /\ \E f \in Files : \E p \in DOMAIN cells[f] : cells[f][p] = <<i, 1>> /\ Passed(f, p)
    /\ Reading => <<i, 1>> \notin ToSet(rbuf)

ArrivedOnce ==
    \A i \in Lines : emitted[i] > 0 /\ i \notin raced => emitted[i] = 1 /\ Arrived(i)

SendingInv ==
    pc = "send" =>
        /\ \A i \in Lines : text = <<<<i, 1>>, <<i, 2>>>> /\ i \notin raced =>
              emitted[i] = 0 /\ Arrived(i)
        /\ ~WholeLine(text) => LinesIn(text) \subseteq split \cup raced \cup torn

TailOK ==
    /\ Followed /\ BehindStat /\ BufferInv /\ ArrivedOnce /\ SendingInv
    /\ garbled \subseteq split \cup raced \cup torn

TailInv == taints = {} => TailOK
-----------------------------------------------------------------------------
(* A nonempty set of naturals has a least element, and Min is it.          *)
LEMMA LeastIsMin ==
    ASSUME NEW T \in SUBSET Nat, T # {}
    PROVE  Min(T) \in T /\ \A m \in T : Min(T) <= m
BY Least DEF Min

(* Cells and their numbers.                                                *)
LEMMA NumOfCell ==
    ASSUME NEW k \in 1 .. 3 * MaxLines
    PROVE  CellNo(k) \in Cells /\ Num(CellNo(k)) = k
<1> DEFINE d == (k - 1) \div 3
           m == (k - 1) % 3
<1>1. MaxLines \in Nat
  BY TailerConstants
<1>2. d \in Int /\ m \in 0 .. 2 /\ k - 1 = 3 * d + m
  OBVIOUS
<1> HIDE DEF d, m
<1>3. d \in 0 .. MaxLines - 1
  BY <1>1, <1>2
<1>4. CellNo(k) = <<1 + d, 1 + m>>
  BY DEF CellNo, d, m
<1> QED
  BY <1>1, <1>2, <1>3, <1>4 DEF Num, Cells, Lines, LineOf

LEMMA CellTypes ==
    ASSUME NEW c \in Cells
    PROVE  /\ LineOf(c) \in Lines /\ LineOf(c) \in Nat /\ Part(c) \in 1 .. 3
           /\ c = <<LineOf(c), Part(c)>> /\ Num(c) = 3 * (LineOf(c) - 1) + Part(c)
           /\ Num(c) \in 1 .. 3 * MaxLines /\ (IsNewline(c) <=> Part(c) = 3)
  BY TailerConstants DEF Cells, Lines, LineOf, Part, Num, IsNewline

LEMMA SameNumber ==
    ASSUME NEW c \in Cells, NEW d \in Cells, Num(c) = Num(d)
    PROVE  c = d
<1>1. LineOf(c) = LineOf(d) /\ Part(c) = Part(d)
  BY CellTypes
<1> QED
  BY <1>1, CellTypes

LEMMA NextNumber ==
    ASSUME NEW c \in Cells, NEW d \in Cells, Num(d) = Num(c) + 1
    PROVE  /\ Part(c) = 3 => Part(d) = 1
           /\ Part(c) # 3 => LineOf(d) = LineOf(c) /\ Part(d) = Part(c) + 1
  BY CellTypes
-----------------------------------------------------------------------------
(* The types of the variables, one by one.                                 *)
Parts ==
    /\ path \in Files \cup {NoFile} /\ cells \in [Files -> Seq(Cells)]
    /\ inode \in [Files -> Inodes \cup {NoIno}] /\ written \in 0 .. 3 * MaxLines
    /\ written \in Nat /\ MaxLines \in Nat /\ MaxFiles \in Nat /\ Inodes \subseteq Nat \ {NoIno}
    /\ pc \in {"stat", "open", "read", "send", "wait", "done"}
    /\ lastSize \in Nat /\ lastIno \in Inodes \cup {NoIno} /\ initialSkip \in BOOLEAN
    /\ newSize \in Nat /\ (pc = "open" => newSize > lastSize)
    /\ (handle # NoFile) <=> (pc \in {"read", "send"})
    /\ rbuf \in Seq(Cells) /\ text \in Seq(Cells) /\ (text # <<>> <=> pc = "send")
    /\ emitted \in [Lines -> Nat] /\ rpos \in Nat /\ eof \in BOOLEAN
    /\ statFile \in Files \cup {NoFile} /\ handle \in Files \cup {NoFile}
    /\ Files \subseteq Nat \ {NoFile} /\ NoFile = 0 /\ NoIno = 0
    /\ (pc # "send" => ~eof)

LEMMA PartTypes == ShapeInv => Parts
  BY TailerConstants DEF ShapeInv, TailerTypeOK, HistoryTypes, Parts, Files, NoFile, NoIno

LEMMA ShapeFromParts ==
    Parts /\ FilesInOrder => ShapeInv
  BY DEF ShapeInv, TailerTypeOK, HistoryTypes, Parts

LEMMA ShapeInit == TailerInit => ShapeInv
<1> SUFFICES ASSUME TailerInit PROVE ShapeInv
  OBVIOUS
<1>1. Min(Inodes) \in Inodes /\ Min(Inodes) # NoIno
  BY LeastIsMin, TailerConstants
<1>2. Parts
  <2>1. path \in Files /\ 0 \in 0 .. 3 * MaxLines
    BY TailerConstants DEF TailerInit, Files
  <2>2. cells \in [Files -> Seq(Cells)] /\ emitted \in [Lines -> Nat]
    BY DEF TailerInit
  <2>3. inode \in [Files -> Inodes \cup {NoIno}]
    BY <1>1 DEF TailerInit
  <2>4. Files \subseteq Nat \ {NoFile}
    BY DEF Files, NoFile
  <2> QED
    BY <2>1, <2>2, <2>3, <2>4, TailerConstants DEF TailerInit, Parts, NoFile, NoIno
<1>3. FilesInOrder
  BY <1>1, TailerConstants DEF TailerInit, FilesInOrder, Used, Files, NoFile, NoIno
<1> QED
  BY <1>2, <1>3, ShapeFromParts

(* A write adds the next cells, all of one line, to the file of the path.  *)
LEMMA WrittenCells ==
    ASSUME ShapeInv, NEW n \in 1 .. 3, WriteCells(n)
    PROVE  /\ path \in Files /\ cells' \in [Files -> Seq(Cells)]
           /\ \A f \in Files \ {path} : cells'[f] = cells[f]
           /\ Len(cells'[path]) = Len(cells[path]) + n
           /\ \A p \in 1 .. Len(cells[path]) : cells'[path][p] = cells[path][p]
           /\ \A k \in 1 .. n :
                 /\ cells'[path][Len(cells[path]) + k] = CellNo(written + k)
                 /\ CellNo(written + k) \in Cells /\ Num(CellNo(written + k)) = written + k
                 /\ LineOf(CellNo(written + k)) = LineOf(CellNo(written + 1))
           /\ written' = written + n /\ written' \in 0 .. 3 * MaxLines
           /\ split \subseteq split' /\ raced \subseteq raced' /\ torn' = torn /\ missed' = missed
           /\ (n = 1 /\ Part(CellNo(written + 1)) = 1
                 => LineOf(CellNo(written + 1)) \in split')
           /\ (pc \in {"open", "read", "send"} => LineOf(CellNo(written + 1)) \in raced')
<1>0. Parts
  BY PartTypes
<1> DEFINE new == [k \in 1 .. n |-> CellNo(written + k)]
           s == cells[path]
<1>1. /\ path \in Files /\ written + n <= 3 * MaxLines
      /\ cells' = [cells EXCEPT ![path] = s \o new] /\ written' = written + n
      /\ \A k \in 1 .. n : LineOf(new[k]) = LineOf(new[1])
  BY <1>0 DEF WriteCells, Parts
<1>2. \A k \in 1 .. n : CellNo(written + k) \in Cells /\ Num(CellNo(written + k)) = written + k
  <2> SUFFICES ASSUME NEW k \in 1 .. n
               PROVE  CellNo(written + k) \in Cells /\ Num(CellNo(written + k)) = written + k
    OBVIOUS
  <2>1. written + k \in 1 .. 3 * MaxLines
    BY <1>0, <1>1 DEF Parts
  <2> QED
    BY <2>1, NumOfCell
<1>3. /\ new \in Seq(Cells) /\ Len(new) = n /\ \A k \in 1 .. n : new[k] = CellNo(written + k)
  BY <1>2
<1>4. s \in Seq(Cells) /\ Len(s) \in Nat
  BY <1>0, <1>1 DEF Parts
<1>5. new[1] = CellNo(written + 1)
  BY <1>3
<1>6. /\ split \subseteq split' /\ raced \subseteq raced' /\ torn' = torn /\ missed' = missed
      /\ (n = 1 /\ Part(new[1]) = 1 => LineOf(new[1]) \in split')
      /\ (pc \in {"open", "read", "send"} => LineOf(new[1]) \in raced')
  BY DEF WriteCells, Part
<1>7. \A k \in 1 .. n : LineOf(CellNo(written + k)) = LineOf(CellNo(written + 1))
  BY <1>1, <1>3, <1>5
<1> HIDE DEF new
<1>8. /\ s \o new \in Seq(Cells) /\ Len(s \o new) = Len(s) + n
      /\ \A p \in 1 .. Len(s) : (s \o new)[p] = s[p]
      /\ \A k \in 1 .. n : (s \o new)[Len(s) + k] = new[k]
  BY <1>3, <1>4
<1>9. /\ cells' \in [Files -> Seq(Cells)] /\ cells'[path] = s \o new
      /\ \A f \in Files \ {path} : cells'[f] = cells[f]
  <2>1. cells \in [Files -> Seq(Cells)]
    BY <1>0 DEF Parts
  <2> QED
    BY <2>1, <1>1, <1>8
<1>10. written' \in 0 .. 3 * MaxLines
  BY <1>0, <1>1 DEF Parts
<1> QED
  BY <1>1, <1>2, <1>3, <1>5, <1>6, <1>7, <1>8, <1>9, <1>10

(* Reading: the newline that ends the first line of the buffer.            *)
LEMMA FirstNewline ==
    ASSUME NEW s \in Seq(Cells), \E i \in 1 .. Len(s) : IsNewline(s[i])
    PROVE  LET k == Min({i \in 1 .. Len(s) : IsNewline(s[i])})
           IN  /\ k \in 1 .. Len(s) /\ IsNewline(s[k])
               /\ \A i \in 1 .. k - 1 : ~IsNewline(s[i])
               /\ SubSeq(s, 1, k - 1) \in Seq(Cells) /\ Len(SubSeq(s, 1, k - 1)) = k - 1
               /\ \A i \in 1 .. k - 1 : SubSeq(s, 1, k - 1)[i] = s[i]
               /\ SubSeq(s, k + 1, Len(s)) \in Seq(Cells)
               /\ Len(SubSeq(s, k + 1, Len(s))) = Len(s) - k
               /\ \A i \in 1 .. Len(s) - k : SubSeq(s, k + 1, Len(s))[i] = s[k + i]
<1> DEFINE T == {i \in 1 .. Len(s) : IsNewline(s[i])}
           k == Min(T)
<1>1. T \in SUBSET Nat /\ T # {}
  OBVIOUS
<1>2. k \in T /\ \A m \in T : k <= m
  BY <1>1, LeastIsMin
<1>3. k \in 1 .. Len(s) /\ IsNewline(s[k])
  BY <1>2
<1>4. \A i \in 1 .. k - 1 : ~IsNewline(s[i])
  <2> SUFFICES ASSUME NEW i \in 1 .. k - 1, IsNewline(s[i]) PROVE FALSE
    OBVIOUS
  <2> HIDE DEF k
  <2>1. i \in T /\ i < k
    BY <1>3
  <2> QED
    BY <2>1, <1>2, <1>3
<1> HIDE DEF k
<1>5. Len(s) \in Nat /\ k \in Nat
  BY <1>3
<1>6. /\ SubSeq(s, 1, k - 1) \in Seq(Cells) /\ Len(SubSeq(s, 1, k - 1)) = k - 1
      /\ \A i \in 1 .. k - 1 : SubSeq(s, 1, k - 1)[i] = s[i]
  BY <1>3, <1>5
<1>7. /\ SubSeq(s, k + 1, Len(s)) \in Seq(Cells)
      /\ Len(SubSeq(s, k + 1, Len(s))) = Len(s) - k
      /\ \A i \in 1 .. Len(s) - k : SubSeq(s, k + 1, Len(s))[i] = s[k + i]
  BY <1>3, <1>5
<1> QED
  BY <1>3, <1>4, <1>6, <1>7 DEF k

(* Reading: what the open file has behind the reader's position.           *)
LEMMA AvailableCells ==
    ASSUME ShapeInv, handle # NoFile
    PROVE  /\ handle \in Files /\ cells[handle] \in Seq(Cells) /\ Available \in Seq(Cells)
           /\ Available = <<>> <=> Len(cells[handle]) <= rpos
           /\ Available # <<>> => Len(Available) = Len(cells[handle]) - rpos
           /\ \A i \in 1 .. Len(Available) :
                 /\ rpos + i \in 1 .. Len(cells[handle])
                 /\ Available[i] = cells[handle][rpos + i]
<1>0. Parts
  BY PartTypes
<1>1. handle \in Files /\ cells[handle] \in Seq(Cells) /\ rpos \in Nat
  BY <1>0 DEF Parts
<1> DEFINE s == cells[handle]
<1> HIDE DEF s
<1>2. s \in Seq(Cells) /\ Len(s) \in Nat
  BY <1>1 DEF s
<1>3. CASE Len(s) <= rpos
  <2>1. Available = <<>>
    BY <1>1, <1>2, <1>3 DEF Available, s
  <2> HIDE DEF Available
  <2>2. Available \in Seq(Cells) /\ Len(Available) = 0
    BY <2>1
  <2> QED
    BY <1>1, <1>2, <1>3, <2>1, <2>2 DEF s
<1>4. CASE rpos < Len(s)
  <2>1. /\ Available \in Seq(Cells) /\ Len(Available) = Len(s) - rpos
        /\ \A i \in 1 .. Len(s) - rpos : Available[i] = s[rpos + i]
    BY <1>1, <1>2, <1>4 DEF Available, s
  <2> HIDE DEF Available
  <2>2. Available # <<>>
    BY <2>1, <1>1, <1>2, <1>4
  <2>3. \A i \in 1 .. Len(s) - rpos : rpos + i \in 1 .. Len(s)
    BY <1>1, <1>2
  <2>4. ~(Len(s) <= rpos)
    BY <1>1, <1>2, <1>4
  <2> QED
    BY <1>1, <1>2, <2>1, <2>2, <2>3, <2>4 DEF s
<1> QED
  BY <1>1, <1>2, <1>3, <1>4

(* A write has at most the cells of a line.                                *)
LEMMA SizesAre == Sizes \subseteq 1 .. 3
  BY DEF Sizes

(* A fill adds cells of the open file, from the reader's position on.      *)
LEMMA Filled ==
    ASSUME ShapeInv, FillBuffer
    PROVE  \E u \in Seq(Cells) :
              /\ Len(u) \in Nat \ {0} /\ rbuf' = rbuf \o u /\ rpos' = rpos + Len(u)
              /\ \A i \in 1 .. Len(u) :
                    rpos + i \in 1 .. Len(cells[handle]) /\ u[i] = cells[handle][rpos + i]
<1>1. handle # NoFile
  BY PartTypes DEF Parts, FillBuffer
<1>2. Available \in Seq(Cells) /\ Len(Available) \in Nat
      /\ \A i \in 1 .. Len(Available) :
            /\ rpos + i \in 1 .. Len(cells[handle])
            /\ Available[i] = cells[handle][rpos + i]
  BY <1>1, AvailableCells
<1> HIDE DEF Available
<1>3. PICK n \in 1 .. Len(Available) :
         rbuf' = rbuf \o SubSeq(Available, 1, n) /\ rpos' = rpos + n
  BY DEF FillBuffer
<1> DEFINE u == SubSeq(Available, 1, n)
<1>4. u \in Seq(Cells) /\ Len(u) = n /\ \A i \in 1 .. n : u[i] = Available[i]
  BY <1>2
<1> HIDE DEF u
<1>5. Len(u) \in Nat \ {0} /\ \A i \in 1 .. Len(u) : i \in 1 .. Len(Available)
  BY <1>2, <1>4
<1> QED
  BY <1>2, <1>3, <1>4, <1>5 DEF u
-----------------------------------------------------------------------------
(* The program, and the cancellation, keep the shape.                      *)
LEMMA ShapeProgram ==
    ASSUME ShapeInv, Program \/ Cancel
    PROVE  ShapeInv'
<1>0. Parts /\ FilesInOrder
  BY PartTypes DEF ShapeInv
<1>u. /\ UNCHANGED <<pc, pollVars, rpos, rbuf, text, eof, emitted, statFile>>
      /\ handle' = handle \/ \E f \in Files : Truncate(f)
  BY DEF Program, Cancel, WriteCells, TakeAway, Create, Truncate, histVars, readVars, outVars
<1>1. CASE Cancel \/ TakeAway
  <2>1. UNCHANGED <<cells, inode, written, handle>> /\ (path' = path \/ path' = NoFile)
    BY <1>1 DEF Cancel, TakeAway, fsVars, readVars
  <2>2. Parts'
    BY <1>0, <1>u, <2>1 DEF Parts, pollVars
  <2>3. FilesInOrder'
    BY <1>0, <1>u, <2>1 DEF FilesInOrder, Used, Parts
  <2> QED
    BY <2>2, <2>3, ShapeFromParts, PTL
<1>2. ASSUME NEW n \in 1 .. 3, WriteCells(n) PROVE ShapeInv'
  <2>1. UNCHANGED <<path, inode, handle>>
    BY <1>2 DEF WriteCells, readVars
  <2>2. Parts'
    <3>1. cells' \in [Files -> Seq(Cells)] /\ written' \in 0 .. 3 * MaxLines
      BY <1>2, WrittenCells
    <3>2. written' \in Nat
      BY <3>1, <1>0 DEF Parts
    <3> QED
      BY <1>0, <1>u, <2>1, <3>1, <3>2 DEF Parts, pollVars
  <2>3. FilesInOrder'
    <3>1. path \in Files /\ Used(path) /\ \A f \in Files \ {path} : cells'[f] = cells[f]
      BY <1>2, WrittenCells, <1>0 DEF FilesInOrder, WriteCells
    <3> QED
      BY <1>0, <1>u, <2>1, <3>1 DEF FilesInOrder, Used
  <2> QED
    BY <2>2, <2>3, ShapeFromParts, PTL
<1>3. ASSUME NEW f \in Files, Truncate(f) \/ \E n \in Inodes : Create(f, n) PROVE ShapeInv'
  <2>1. PICK x \in Inodes : inode' = [inode EXCEPT ![f] = x]
    <3>1. CASE Truncate(f)
      <4>1. path \in Files /\ Used(path)
        BY <1>0, <3>1 DEF Truncate, Parts, FilesInOrder
      <4>2. inode[path] \in Inodes
        BY <4>1, <1>0 DEF Parts, Used
      <4> QED
        BY <3>1, <4>2 DEF Truncate
    <3>2. CASE \E n \in Inodes : Create(f, n)
      BY <3>2 DEF Create
    <3> QED
      BY <1>3, <3>1, <3>2
  <2>2. /\ path' = f /\ UNCHANGED <<cells, written>> /\ Unused(f)
        /\ handle' = handle \/ (handle # NoFile /\ handle' = f)
    BY <1>3, <1>0 DEF Truncate, Create, readVars, Parts
  <2>3. x # NoIno /\ inode' \in [Files -> Inodes \cup {NoIno}]
        /\ inode'[f] = x /\ \A g \in Files \ {f} : inode'[g] = inode[g]
    BY <2>1, <1>0 DEF Parts
  <2>4. Parts'
    BY <1>0, <1>u, <2>2, <2>3 DEF Parts, pollVars
  <2>5. FilesInOrder'
    <3>1. /\ \A g \in Files : Used(g)' <=> g = f \/ Used(g)
          /\ ~Used(f) /\ \A g \in Files : g < f => Used(g)
      BY <2>2, <2>3 DEF Used, Unused
    <3>2. \A g \in Files : f < g => ~Used(g)
      BY <3>1, <1>0 DEF FilesInOrder
    <3>n. Files \subseteq Nat
      BY <1>0 DEF Parts
    <3> HIDE DEF Used
    <3>3. \A g, h \in Files : h < g /\ Used(g)' => Used(h)'
      <4> SUFFICES ASSUME NEW g \in Files, NEW h \in Files, h < g, Used(g)' PROVE Used(h)'
        OBVIOUS
      <4>1. CASE g = f
        BY <3>1, <4>1
      <4>2. CASE g # f
        BY <3>1, <4>2, <1>0 DEF FilesInOrder
      <4> QED
        BY <4>1, <4>2
    <3>4. \A g \in Files : f < g => ~Used(g)'
      BY <3>1, <3>2, <3>n
    <3>6. \A g \in Files : ~Used(g)' => cells'[g] = <<>>
      BY <3>1, <2>2, <1>0 DEF FilesInOrder
    <3>7. handle' # NoFile => inode'[handle'] # NoIno
      BY <2>2, <2>3, <1>0 DEF FilesInOrder, Used, Parts
    <3>8. statFile' # NoFile => inode'[statFile'] # NoIno
      BY <1>u, <2>3, <1>0 DEF FilesInOrder, Used, Parts
    <3> QED
      BY <3>1, <3>3, <3>4, <3>6, <3>7, <3>8, <2>2 DEF FilesInOrder, Used
  <2> QED
    BY <2>4, <2>5, ShapeFromParts, PTL
<1> QED
  BY <1>1, <1>2, <1>3, SizesAre DEF Program

(* The tailer leaves the files alone, opens and stats only the one of the  *)
(* path, and keeps the shape.                                              *)
LEMMA TailerLooks ==
    ASSUME TailerStep
    PROVE  /\ UNCHANGED <<path, cells, inode, written, split, raced>>
           /\ handle' \in {handle, NoFile, path} /\ statFile' \in {statFile, path}
  BY DEF TailerStep, StatFails, StatSkips, StatFindsNothing, StatFindsMore, OpenFails, OpenAndSeek,
         FillBuffer, ReadLine, ReadLast, ReadFails, SendSample, SendStopped, Tick, Return, Statted, Finish,
         ParseLine, fsVars, readVars, histVars

LEMMA ShapeTailer ==
    ASSUME ShapeInv, TailerStep
    PROVE  ShapeInv'
<1>0. Parts /\ FilesInOrder
  BY PartTypes DEF ShapeInv
<1>f. UNCHANGED <<path, cells, inode, written>>
  BY TailerLooks
<1>1. FilesInOrder'
  <2>1. /\ handle' \in {handle, NoFile, path} /\ statFile' \in {statFile, path}
    BY TailerLooks
  <2> QED
    BY <1>0, <1>f, <2>1 DEF FilesInOrder, Used
<1> SUFFICES Parts'
  BY <1>1, ShapeFromParts, PTL
<1>p. path # NoFile => path \in Files /\ inode[path] \in Inodes /\ Len(Content) \in Nat
  BY <1>0 DEF Parts, FilesInOrder, Used, Content
<1>2. CASE StatFails \/ Tick \/ Return
  BY SMTT(30), <1>0, <1>f, <1>2 DEF StatFails, Tick, Return, Parts, pollVars, readVars, outVars, histVars
<1>3. CASE StatSkips \/ StatFindsNothing \/ StatFindsMore
  <2>1. path # NoFile /\ pc = "stat" /\ lastIno' \in Inodes \cup {NoIno} /\ statFile' = path
    BY <1>0, <1>3, <1>p DEF StatSkips, StatFindsNothing, StatFindsMore, Statted, Parts
  <2>2. StartsAt \in Nat
    BY <1>0 DEF StartsAt, Parts
  <2>3. /\ lastSize' \in Nat /\ newSize' \in Nat /\ initialSkip' \in BOOLEAN
        /\ pc' \in {"wait", "open"} /\ (pc' = "open" => newSize' > lastSize')
    BY <1>0, <1>3, <1>p, <2>1, <2>2 DEF StatSkips, StatFindsNothing, StatFindsMore, Parts
  <2>4. UNCHANGED <<handle, rpos, rbuf, text, eof, emitted>>
    BY <1>3 DEF StatSkips, StatFindsNothing, StatFindsMore, readVars, outVars
  <2> QED
    BY <1>0, <1>f, <1>p, <2>1, <2>3, <2>4 DEF Parts
<1>q. ASSUME Finish, emitted' \in [Lines -> Nat], UNCHANGED <<lastIno, initialSkip, statFile>>
      PROVE  Parts'
  <2>1. /\ pc' = "wait" /\ lastSize' = newSize /\ newSize' = 0 /\ handle' = NoFile
        /\ rpos' = 0 /\ rbuf' = <<>> /\ text' = <<>>
    BY <1>q DEF Finish, Advance
  <2>2. UNCHANGED <<path, cells, inode, written>>
    BY <1>f
  <2>3. /\ lastIno' = lastIno /\ initialSkip' = initialSkip /\ statFile' = statFile
        /\ emitted' \in [Lines -> Nat]
    BY <1>q
  <2>4. <<>> \in Seq(Cells)
    OBVIOUS
  <2>5. eof' \in BOOLEAN /\ ~eof'
    BY <1>q, Zenon DEF Finish
  <2> QED
    BY <1>0, <2>1, <2>2, <2>3, <2>4, <2>5 DEF Parts
<1>e. emitted \in [Lines -> Nat]
  BY <1>0 DEF Parts
<1>4. CASE OpenFails
  BY <1>e, <1>q, <1>4 DEF OpenFails, outVars
<1>5. CASE OpenAndSeek
  <2>1. UNCHANGED <<lastSize, lastIno, initialSkip, newSize, rbuf, text, eof, emitted, statFile>>
    BY <1>5 DEF OpenAndSeek, pollVars, outVars
  <2> QED
    BY <1>0, <1>f, <1>p, <1>5, <2>1 DEF OpenAndSeek, Parts
<1>6. CASE FillBuffer
  <2>1. UNCHANGED <<pc, lastSize, lastIno, initialSkip, newSize, handle, text, eof, emitted,
                    statFile>>
    BY <1>6 DEF FillBuffer, pollVars, outVars, histVars
  <2>2. PICK u \in Seq(Cells) : Len(u) \in Nat /\ rbuf' = rbuf \o u /\ rpos' = rpos + Len(u)
    BY <1>6, Filled
  <2>3. rbuf' \in Seq(Cells) /\ rpos' \in Nat
    BY <1>0, <2>2 DEF Parts
  <2> QED
    BY <1>0, <1>f, <2>1, <2>3 DEF Parts
<1>7. ASSUME NEW t \in Seq(Cells), NEW last \in BOOLEAN, ParseLine(t, last), pc = "read",
             rbuf' \in Seq(Cells),
             UNCHANGED <<lastIno, initialSkip, outVars, statFile>>
      PROVE  Parts'
  <2>1. UNCHANGED <<lastIno, initialSkip, emitted, statFile>>
    BY <1>7 DEF outVars
  <2>2. CASE text' = t /\ eof' = last /\ pc' = "send"
    <3>1. t # <<>> /\ UNCHANGED <<handle, rpos, lastSize, newSize>>
      BY <1>7, <2>2 DEF ParseLine, Accepted
    <3> QED
      BY <1>0, <1>f, <1>7, <2>1, <2>2, <3>1 DEF Parts
  <2>3. CASE /\ UNCHANGED <<text, eof>>
             /\ \/ UNCHANGED <<lastSize, newSize, pc, handle, rpos>>
                \/ Advance /\ pc' = "wait" /\ handle' = NoFile /\ rpos' = 0
    <3>1. CASE UNCHANGED <<lastSize, newSize, pc, handle, rpos>>
      BY <1>0, <1>f, <1>7, <2>1, <2>3, <3>1 DEF Parts
    <3>2. CASE Advance /\ pc' = "wait" /\ handle' = NoFile /\ rpos' = 0
      <4>1. lastSize' = newSize /\ newSize' = 0
        BY <3>2 DEF Advance
      <4> QED
        BY <1>0, <1>f, <1>7, <2>1, <2>3, <3>2, <4>1 DEF Parts
    <3> QED
      BY <2>3, <3>1, <3>2
  <2> QED
    BY <1>7, <2>2, <2>3 DEF ParseLine
<1>8. CASE ReadLine
  <2>1. rbuf \in Seq(Cells)
    BY <1>0 DEF Parts
  <2> DEFINE k == Min({i \in 1 .. Len(rbuf) : IsNewline(rbuf[i])})
  <2>2. SubSeq(rbuf, 1, k - 1) \in Seq(Cells) /\ SubSeq(rbuf, k + 1, Len(rbuf)) \in Seq(Cells)
    BY <1>8, <2>1, FirstNewline DEF ReadLine, HasLine
  <2>3. ParseLine(SubSeq(rbuf, 1, k - 1), FALSE) /\ rbuf' = SubSeq(rbuf, k + 1, Len(rbuf))
    BY <1>8 DEF ReadLine
  <2> HIDE DEF k
  <2> QED
    BY <1>7, <1>8, <2>2, <2>3 DEF ReadLine, histVars
<1>9. CASE ReadLast \/ ReadFails
  BY <1>0, <1>7, <1>9 DEF ReadLast, ReadFails, Parts, histVars
<1>10. CASE SendSample
  <2>1. emitted' \in [Lines -> Nat]
    BY <1>0, <1>10 DEF SendSample, Parts
  <2>2. UNCHANGED <<lastIno, initialSkip, statFile>>
    BY <1>10 DEF SendSample, histVars
  <2>3. CASE eof
    BY <1>10, <1>q, <2>1, <2>2, <2>3 DEF SendSample
  <2>4. CASE ~eof
    BY <1>0, <1>f, <1>10, <2>1, <2>2, <2>4 DEF SendSample, Parts
  <2> QED
    BY <2>3, <2>4
<1>11. CASE SendStopped
  BY <1>e, <1>q, <1>11 DEF SendStopped, outVars, histVars
<1> QED
  BY <1>2, <1>3, <1>4, <1>5, <1>6, <1>8, <1>9, <1>10, <1>11 DEF TailerStep

(* The type invariant, and what goes with it.                              *)
LEMMA ShapeInvariant == TailerSpec => []ShapeInv
<1>1. ShapeInv /\ [TailerNext]_vars => ShapeInv'
  <2>1. ShapeInv /\ UNCHANGED vars => ShapeInv'
    BY DEF vars, fsVars, pollVars, readVars, outVars, histVars, ShapeInv, TailerTypeOK,
           HistoryTypes, FilesInOrder, Used
  <2> QED
    BY <2>1, ShapeProgram, ShapeTailer DEF TailerNext
<1> QED
  BY <1>1, ShapeInit, PTL DEF TailerSpec

(* Type correctness: paths, sizes, inodes and the phases of a poll are     *)
(* those of Run and readNewLines, whatever the program does to the file.   *)
THEOREM TailerTypeCorrect == TailerSpec => []TailerTypeOK
<1>1. ShapeInv => TailerTypeOK
  BY DEF ShapeInv
<1> QED
  BY <1>1, ShapeInvariant, PTL
-----------------------------------------------------------------------------
(* Places of cells.                                                        *)
LEMMA PlaceTypes ==
    ASSUME ShapeInv, NEW f \in Files, NEW p \in DOMAIN cells[f]
    PROVE  /\ cells[f][p] \in Cells /\ Used(f) /\ cells[f] # <<>>
           /\ cells[f] \in Seq(Cells) /\ Len(cells[f]) \in Nat /\ p \in 1 .. Len(cells[f])
<1>0. Parts /\ FilesInOrder
  BY PartTypes DEF ShapeInv
<1>1. cells[f] \in Seq(Cells) /\ cells[f] # <<>>
  BY <1>0 DEF Parts
<1>2. Used(f)
  BY <1>0, <1>1 DEF FilesInOrder
<1> QED
  BY <1>1, <1>2

LEMMA PlaceNumbers ==
    ASSUME ShapeInv, WrittenInOrder, NEW f \in Files, NEW p \in DOMAIN cells[f]
    PROVE  /\ Num(cells[f][p]) \in Nat /\ 0 < Num(cells[f][p]) /\ Num(cells[f][p]) <= written
           /\ written \in Nat /\ p \in Nat /\ 0 < p /\ p <= Len(cells[f])
<1>1. cells[f][p] \in Cells /\ p \in 1 .. Len(cells[f]) /\ Len(cells[f]) \in Nat
  BY PlaceTypes
<1>2. Num(cells[f][p]) \in 1 .. 3 * MaxLines
  BY <1>1, CellTypes
<1>3. written \in Nat
  BY PartTypes DEF Parts
<1>4. Num(cells[f][p]) <= written
  BY DEF WrittenInOrder
<1> QED
  BY <1>1, <1>2, <1>3, <1>4

(* A cell is in one place.                                                 *)
LEMMA OnePlace ==
    ASSUME ShapeInv, WrittenInOrder, NEW f \in Files, NEW p \in DOMAIN cells[f],
           NEW g \in Files, NEW q \in DOMAIN cells[g], cells[f][p] = cells[g][q]
    PROVE  f = g /\ p = q
<1>0. Parts
  BY PartTypes
<1>1. cells[f][p] \in Cells /\ p \in Nat /\ q \in Nat /\ f \in Nat /\ g \in Nat
  <2>1. p \in Nat /\ cells[f][p] \in Cells
    BY PlaceTypes
  <2>2. q \in Nat
    BY PlaceTypes
  <2> QED
    BY <2>1, <2>2, <1>0 DEF Parts
<1>2. Num(cells[f][p]) \in Nat
  BY <1>1, CellTypes
<1>3. f = g
  BY <1>1, <1>2 DEF WrittenInOrder
<1>4. Num(cells[f][q]) + p = Num(cells[f][p]) + q
  BY <1>3 DEF WrittenInOrder
<1> QED
  BY <1>1, <1>2, <1>3, <1>4

(* The file of the path ends with the newest cell.                         *)
LEMMA PathIsNewest ==
    ASSUME ShapeInv, WrittenInOrder, path # NoFile
    PROVE  \A p \in DOMAIN cells[path] : Num(cells[path][p]) + Len(cells[path]) = written + p
<1>0. Parts /\ FilesInOrder
  BY PartTypes DEF ShapeInv
<1> SUFFICES ASSUME NEW p \in DOMAIN cells[path]
             PROVE  Num(cells[path][p]) + Len(cells[path]) = written + p
  OBVIOUS
<1> DEFINE l == Len(cells[path])
<1>1. /\ path \in Files /\ path \in Nat /\ l \in Nat /\ p \in 1 .. l /\ l \in DOMAIN cells[path]
      /\ written \in Nat
  BY <1>0, PlaceTypes DEF Parts
<1>2. /\ Num(cells[path][l]) \in 1 .. written /\ Num(cells[path][p]) \in Nat
      /\ Num(cells[path][l]) + p = Num(cells[path][p]) + l
  <2>1. Num(cells[path][l]) + p = Num(cells[path][p]) + l
    BY <1>1 DEF WrittenInOrder
  <2>2. /\ Num(cells[path][l]) \in Nat /\ 0 < Num(cells[path][l])
        /\ Num(cells[path][l]) <= written /\ Num(cells[path][p]) \in Nat
    BY <1>1, PlaceNumbers
  <2> HIDE DEF l
  <2> QED
    BY <2>1, <2>2, <1>1
<1>3. PICK f \in Files : \E q \in DOMAIN cells[f] : Num(cells[f][q]) = written
  <2>1. written \in 1 .. written
    BY <1>1, <1>2
  <2> QED
    BY <2>1 DEF WrittenInOrder
<1>4. PICK q \in DOMAIN cells[f] : Num(cells[f][q]) = written
  BY <1>3
<1>5. f = path
  <2>1. Used(f) /\ f \in Nat
    BY <1>0, PlaceTypes DEF Parts
  <2>2. ~(path < f)
    BY <2>1, <1>0, <1>1 DEF FilesInOrder
  <2>3. ~(f < path)
    <3> SUFFICES ASSUME f < path PROVE FALSE
      OBVIOUS
    <3>1. Num(cells[f][q]) < Num(cells[path][l])
      BY <1>1 DEF WrittenInOrder
    <3> QED
      BY <3>1, <1>1, <1>2, <1>4
  <2> QED
    BY <1>1, <2>1, <2>2, <2>3
<1>6. Num(cells[path][q]) + l = Num(cells[path][l]) + q /\ q \in 1 .. l
  BY <1>1, <1>4, <1>5 DEF WrittenInOrder
<1> HIDE DEF l
<1>7. Num(cells[path][l]) = written
  BY <1>1, <1>2, <1>4, <1>5, <1>6
<1> QED
  BY <1>1, <1>2, <1>7 DEF l

LEMMA OrderWrite ==
    ASSUME ShapeInv, WrittenInOrder, NEW n \in 1 .. 3, WriteCells(n)
    PROVE  WrittenInOrder'
<1>0. Parts /\ FilesInOrder /\ path # NoFile
  BY PartTypes DEF ShapeInv, WriteCells
<1> DEFINE l == Len(cells[path])
<1>1. /\ path \in Files /\ \A f \in Files \ {path} : cells'[f] = cells[f]
      /\ Len(cells'[path]) = l + n /\ cells'[path] \in Seq(Cells)
      /\ \A p \in 1 .. l : cells'[path][p] = cells[path][p]
      /\ \A k \in 1 .. n : /\ cells'[path][l + k] = CellNo(written + k)
                           /\ Num(CellNo(written + k)) = written + k
      /\ written' = written + n
  BY WrittenCells
<1>2. l \in Nat /\ DOMAIN cells[path] = 1 .. l /\ DOMAIN cells'[path] = 1 .. l + n
  BY <1>0, <1>1 DEF Parts
<1> HIDE DEF l
<1>3. written \in Nat /\ written' \in Nat /\ n \in Nat /\ Files \subseteq Nat
  BY <1>0, <1>1 DEF Parts
<1>4. \A p \in 1 .. l : Num(cells[path][p]) + l = written + p /\ Num(cells[path][p]) \in Nat
  BY <1>0, <1>1, <1>2, PathIsNewest, PlaceNumbers DEF l
<1>5. \A p \in 1 .. l + n : /\ Num(cells'[path][p]) + l = written + p
                            /\ Num(cells'[path][p]) \in Nat
                            /\ l < p => Num(cells'[path][p]) = written + (p - l)
  <2> SUFFICES ASSUME NEW p \in 1 .. l + n
               PROVE  /\ Num(cells'[path][p]) + l = written + p
                      /\ Num(cells'[path][p]) \in Nat
                      /\ l < p => Num(cells'[path][p]) = written + (p - l)
    OBVIOUS
  <2> DEFINE m == Num(cells'[path][p])
  <2>1. CASE p \in 1 .. l
    <3>1. cells'[path][p] = cells[path][p]
      BY <2>1, <1>1
    <3>2. m + l = written + p /\ m \in Nat
      BY <2>1, <3>1, <1>4
    <3> HIDE DEF m
    <3> QED
      BY <2>1, <3>2, <1>2 DEF m
  <2>2. CASE p \notin 1 .. l
    <3>1. p - l \in 1 .. n /\ l + (p - l) = p
      BY <2>2, <1>2, <1>3
    <3>2. m = written + (p - l)
      BY <3>1, <1>1
    <3> HIDE DEF m
    <3>3. m + l = written + p /\ m \in Nat
      BY <3>1, <3>2, <1>2, <1>3
    <3> QED
      BY <3>2, <3>3 DEF m
  <2> QED
    BY <2>1, <2>2
<1>6. \A f \in Files : \A p \in DOMAIN cells'[f] : Num(cells'[f][p]) <= written'
  <2> SUFFICES ASSUME NEW f \in Files, NEW p \in DOMAIN cells'[f]
               PROVE  Num(cells'[f][p]) <= written'
    OBVIOUS
  <2> DEFINE m == Num(cells'[f][p])
  <2>1. CASE f = path
    <3>1. p \in 1 .. l + n /\ m + l = written + p /\ m \in Nat
      BY <2>1, <1>2, <1>5
    <3> HIDE DEF m
    <3>2. m <= written'
      BY <3>1, <1>1, <1>2, <1>3
    <3> QED
      BY <3>2 DEF m
  <2>2. CASE f # path
    <3>1. p \in DOMAIN cells[f] /\ cells'[f][p] = cells[f][p]
      BY <2>2, <1>1
    <3>2. Num(cells[f][p]) <= written /\ Num(cells[f][p]) \in Nat
      BY <3>1, PlaceNumbers
    <3> QED
      BY <3>1, <3>2, <1>1, <1>3
  <2> QED
    BY <2>1, <2>2
<1>7. \A f \in Files : \A p, q \in DOMAIN cells'[f] :
          Num(cells'[f][q]) + p = Num(cells'[f][p]) + q
  <2> SUFFICES ASSUME NEW f \in Files, NEW p \in DOMAIN cells'[f], NEW q \in DOMAIN cells'[f]
               PROVE  Num(cells'[f][q]) + p = Num(cells'[f][p]) + q
    OBVIOUS
  <2>1. CASE f = path
    <3>1. p \in 1 .. l + n /\ q \in 1 .. l + n
      BY <2>1, <1>2
    <3> DEFINE a == Num(cells'[f][p])
               b == Num(cells'[f][q])
    <3>2. a + l = written + p /\ b + l = written + q /\ a \in Nat /\ b \in Nat
      BY <2>1, <3>1, <1>5
    <3> HIDE DEF a, b
    <3>i. p \in Nat /\ q \in Nat
      BY <3>1, <1>2, <1>3
    <3>3. b + p = a + q
      BY <3>i, <3>2, <1>2, <1>3
    <3> QED
      BY <3>3 DEF a, b
  <2>2. CASE f # path
    BY <2>2, <1>1 DEF WrittenInOrder
  <2> QED
    BY <2>1, <2>2
<1>8. ASSUME NEW f \in Files, NEW g \in Files, f < g, NEW p \in DOMAIN cells'[f],
             NEW q \in DOMAIN cells'[g]
      PROVE  Num(cells'[f][p]) < Num(cells'[g][q])
  <2>1. f # path
    <3> SUFFICES ASSUME f = path PROVE FALSE
      OBVIOUS
    <3>1. ~Used(g) /\ g # path
      BY <1>0, <1>3, <1>8 DEF FilesInOrder
    <3>2. cells'[g] = <<>>
      BY <3>1, <1>0, <1>1 DEF FilesInOrder
    <3> QED
      BY <3>2, <1>8
  <2>2. p \in DOMAIN cells[f] /\ cells'[f][p] = cells[f][p]
    BY <2>1, <1>1, <1>8
  <2>3. Num(cells[f][p]) <= written /\ Num(cells[f][p]) \in Nat
    BY <2>2, PlaceNumbers, <1>8
  <2>4. CASE g = path /\ q \notin 1 .. l
    <3>1. q \in 1 .. l + n /\ l < q
      BY <2>4, <1>2, <1>8
    <3>2. Num(cells'[g][q]) = written + (q - l)
      BY <3>1, <2>4, <1>5
    <3> QED
      BY <3>1, <3>2, <2>2, <2>3, <1>2, <1>3
  <2>5. CASE ~(g = path /\ q \notin 1 .. l)
    <3>1. q \in DOMAIN cells[g] /\ cells'[g][q] = cells[g][q]
      BY <2>5, <1>1, <1>2, <1>8
    <3> QED
      BY <3>1, <2>2, <1>8 DEF WrittenInOrder
  <2> QED
    BY <2>4, <2>5
<1>9. ASSUME NEW k \in 1 .. written'
      PROVE  \E f \in Files : \E p \in DOMAIN cells'[f] : Num(cells'[f][p]) = k
  <2>1. CASE k <= written
    <3>1. PICK f \in Files : \E p \in DOMAIN cells[f] : Num(cells[f][p]) = k
      BY <2>1, <1>3 DEF WrittenInOrder
    <3>2. PICK p \in DOMAIN cells[f] : Num(cells[f][p]) = k
      BY <3>1
    <3>3. p \in DOMAIN cells'[f] /\ cells'[f][p] = cells[f][p]
      <4>1. CASE f = path
        BY <4>1, <1>1, <1>2, <1>3
      <4>2. CASE f # path
        BY <4>2, <1>1
      <4> QED
        BY <4>1, <4>2
    <3> QED
      BY <3>2, <3>3
  <2>2. CASE written < k
    <3>1. k - written \in 1 .. n /\ l + (k - written) \in 1 .. l + n
      <4>1. k - written \in 1 .. n
        BY <2>2, <1>1, <1>3
      <4> QED
        BY <4>1, <1>2, <1>3
    <3>2. Num(cells'[path][l + (k - written)]) = written + (k - written)
      BY <3>1, <1>1
    <3>3. Num(cells'[path][l + (k - written)]) = k
      BY <3>2, <1>3
    <3> QED
      BY <3>1, <3>3, <1>1, <1>2
  <2> QED
    BY <2>1, <2>2, <1>3
<1> QED
  BY <1>6, <1>7, <1>8, <1>9 DEF WrittenInOrder

LEMMA HalvesWrite ==
    ASSUME ShapeInv, FilesInv, NEW n \in 1 .. 3, WriteCells(n)
    PROVE  HalvesAreSplit'
<1>0. Parts /\ FilesInOrder /\ path # NoFile /\ WrittenInOrder /\ HalvesAreSplit
  BY PartTypes DEF ShapeInv, WriteCells, FilesInv
<1> DEFINE l == Len(cells[path])
<1>1. /\ path \in Files /\ \A f \in Files \ {path} : cells'[f] = cells[f]
      /\ Len(cells'[path]) = l + n /\ cells'[path] \in Seq(Cells)
      /\ \A p \in 1 .. l : cells'[path][p] = cells[path][p]
      /\ \A k \in 1 .. n : /\ cells'[path][l + k] = CellNo(written + k)
                           /\ CellNo(written + k) \in Cells
                           /\ Num(CellNo(written + k)) = written + k
                           /\ LineOf(CellNo(written + k)) = LineOf(CellNo(written + 1))
      /\ written' = written + n /\ written' \in 0 .. 3 * MaxLines
      /\ split \subseteq split'
      /\ (n = 1 /\ Part(CellNo(written + 1)) = 1 => LineOf(CellNo(written + 1)) \in split')
  BY WrittenCells
<1>2. l \in Nat /\ written \in Nat /\ MaxLines \in Nat /\ cells[path] \in Seq(Cells)
  BY <1>0, <1>1 DEF Parts
<1> HIDE DEF l
<1> DEFINE last == CellNo(written')
<1>3. Part(last) = 1 => LineOf(last) \in split'
  <2> SUFFICES ASSUME Part(last) = 1 PROVE LineOf(last) \in split'
    OBVIOUS
  <2>1. CASE n = 1
    BY <2>1, <1>1
  <2>2. CASE n # 1
    <3>1. n - 1 \in 1 .. n /\ n \in 1 .. n /\ written + n = (written + (n - 1)) + 1
      BY <2>2, <1>2
    <3> DEFINE c == CellNo(written + (n - 1))
    <3>2. /\ c \in Cells /\ last \in Cells /\ Num(c) = written + (n - 1)
          /\ Num(last) = written + n /\ LineOf(c) = LineOf(last)
      BY <3>1, <1>1
    <3> HIDE DEF c, last
    <3>3. Num(last) = Num(c) + 1
      BY <3>1, <3>2
    <3>4. Part(c) = 3
      BY <3>2, <3>3, NextNumber, CellTypes
    <3> QED
      BY <3>2, <3>3, <3>4, CellTypes
  <2> QED
    BY <2>1, <2>2
<1>4. cells'[path] # <<>> /\ cells'[path][Len(cells'[path])] = last
  BY <1>1, <1>2
<1>5. Part(cells'[path][1]) = 2 => LineOf(cells'[path][1]) \in split'
  <2>1. CASE cells[path] # <<>>
    <3>1. 1 \in 1 .. l
      BY <2>1, <1>2 DEF l
    <3> QED
      BY <2>1, <3>1, <1>0, <1>1 DEF HalvesAreSplit
  <2>2. CASE cells[path] = <<>>
    <3> DEFINE d == CellNo(written + 1)
               c == CellNo(written)
    <3>1. l = 0
      BY <2>2 DEF l
    <3>2. cells'[path][1] = d /\ d \in Cells /\ Num(d) = written + 1
      BY <3>1, <1>1
    <3> SUFFICES ASSUME Part(d) = 2 PROVE LineOf(d) \in split'
      BY <3>2
    <3>3. written \in 1 .. 3 * MaxLines
      <4>1. written # 0
        BY <3>2, CellTypes
      <4> QED
        BY <4>1, <1>0, <1>2 DEF Parts
    <3>4. c \in Cells /\ Num(c) = written
      BY <3>3, NumOfCell
    <3> HIDE DEF c, d
    <3>5. Num(d) = Num(c) + 1
      BY <3>2, <3>4
    <3>6. Part(c) # 3 /\ LineOf(d) = LineOf(c) /\ Part(c) = 1
      BY <3>2, <3>4, <3>5, NextNumber, CellTypes
    <3>7. LineOf(c) \in split
      BY <3>3, <3>6, <1>0, <1>2 DEF HalvesAreSplit, c
    <3> QED
      BY <3>6, <3>7, <1>1
  <2> QED
    BY <2>1, <2>2
<1> HIDE DEF last
<1>6. ASSUME NEW f \in Files, cells'[f] # <<>>
      PROVE  /\ Part(cells'[f][Len(cells'[f])]) = 1 => LineOf(cells'[f][Len(cells'[f])]) \in split'
             /\ Part(cells'[f][1]) = 2 => LineOf(cells'[f][1]) \in split'
  <2>1. CASE f = path
    BY <2>1, <1>3, <1>4, <1>5
  <2>2. CASE f # path
    <3>1. cells'[f] = cells[f]
      BY <2>2, <1>1
    <3> QED
      BY <3>1, <1>0, <1>1, <1>6 DEF HalvesAreSplit
  <2> QED
    BY <2>1, <2>2
<1> QED
  BY <1>3, <1>6 DEF HalvesAreSplit, last

LEMMA FilesStep ==
    ASSUME ShapeInv, FilesInv, [TailerNext]_vars
    PROVE  FilesInv'
<1>1. CASE UNCHANGED <<cells, written, split>>
  BY <1>1 DEF FilesInv, WrittenInOrder, HalvesAreSplit
<1>2. ASSUME NEW n \in 1 .. 3, WriteCells(n) PROVE FilesInv'
  BY <1>2, OrderWrite, HalvesWrite DEF FilesInv
<1>3. CASE Program \/ Cancel
  BY <1>1, <1>2, <1>3, SizesAre DEF Program, Cancel, TakeAway, Create, Truncate, fsVars, histVars
<1>4. CASE TailerStep
  BY <1>1, <1>4, TailerLooks
<1>5. CASE UNCHANGED vars
  BY <1>1, <1>5 DEF vars, fsVars, histVars
<1> QED
  BY <1>3, <1>4, <1>5 DEF TailerNext

LEMMA FilesInit == TailerInit => FilesInv
<1> SUFFICES ASSUME TailerInit PROVE FilesInv
  OBVIOUS
<1>1. written = 0 /\ \A f \in Files : cells[f] = <<>>
  BY DEF TailerInit
<1>2. \A f \in Files : DOMAIN cells[f] = {}
  BY <1>1
<1>3. WrittenInOrder
  BY <1>1, <1>2 DEF WrittenInOrder
<1>4. HalvesAreSplit
  BY <1>1 DEF HalvesAreSplit
<1> QED
  BY <1>3, <1>4 DEF FilesInv
-----------------------------------------------------------------------------
(* What the program does to the files keeps the tailer's view of them.     *)
LEMMA TailInit == TailerInit => TailOK
<1> SUFFICES ASSUME TailerInit PROVE TailOK
  OBVIOUS
<1>1. /\ ~Polling /\ ~Reading /\ pc # "send" /\ statFile = NoFile /\ lastSize = 0 /\ rbuf = <<>>
      /\ garbled = {} /\ \A i \in Lines : emitted[i] = 0
  BY DEF TailerInit, Polling, Reading
<1>2. Followed
  BY <1>1 DEF Followed
<1>3. BehindStat /\ BufferInv /\ ArrivedOnce /\ SendingInv
  BY <1>1 DEF BehindStat, BufferInv, ArrivedOnce, SendingInv
<1> QED
  BY <1>1, <1>2, <1>3 DEF TailOK

LEMMA TailWrite ==
    ASSUME ShapeInv, FilesInv, TailOK, NEW n \in 1 .. 3, WriteCells(n)
    PROVE  TailOK'
<1>0. Parts
  BY PartTypes
<1>1. UNCHANGED <<inode, pc, lastSize, lastIno, initialSkip, newSize, handle, rpos, rbuf, text, eof,
                  emitted, garbled, statFile>>
  BY DEF WriteCells, pollVars, readVars, outVars
<1>2. split \subseteq split' /\ raced \subseteq raced' /\ torn' = torn
  BY WrittenCells
<1>3. \A f \in Files : \A p \in DOMAIN cells[f] :
          p \in DOMAIN cells'[f] /\ cells'[f][p] = cells[f][p]
  <2> SUFFICES ASSUME NEW f \in Files, NEW p \in DOMAIN cells[f]
               PROVE  p \in DOMAIN cells'[f] /\ cells'[f][p] = cells[f][p]
    OBVIOUS
  <2>1. CASE f = path
    <3>1. p \in 1 .. Len(cells[path]) /\ Len(cells[path]) \in Nat
      BY <2>1, PlaceTypes
    <3>2. Len(cells'[path]) = Len(cells[path]) + n /\ cells'[path] \in Seq(Cells)
          /\ cells'[path][p] = cells[path][p]
      BY <3>1, <2>1, WrittenCells
    <3> QED
      BY <2>1, <3>1, <3>2
  <2>2. CASE f # path
    BY <2>2, WrittenCells
  <2> QED
    BY <2>1, <2>2
<1>4. \A f \in Files : Len(cells[f]) \in Nat /\ Len(cells'[f]) \in Nat
                       /\ Len(cells[f]) <= Len(cells'[f]) /\ DOMAIN cells[f] = 1 .. Len(cells[f])
  <2> SUFFICES ASSUME NEW f \in Files
               PROVE  Len(cells[f]) \in Nat /\ Len(cells'[f]) \in Nat
                      /\ Len(cells[f]) <= Len(cells'[f]) /\ DOMAIN cells[f] = 1 .. Len(cells[f])
    OBVIOUS
  <2>1. cells[f] \in Seq(Cells)
    BY <1>0 DEF Parts
  <2>2. CASE f = path
    BY <2>1, <2>2, WrittenCells
  <2>3. CASE f # path
    BY <2>1, <2>3, WrittenCells
  <2> QED
    BY <2>2, <2>3
<1>5. ASSUME NEW m \in Nat, statFile # NoFile, Cut(m) PROVE Cut(m)'
  <2>1. statFile \in Files /\ m <= Len(cells[statFile])
    BY <1>0, <1>5 DEF Cut, Parts
  <2>2. m <= Len(cells'[statFile])
    BY <2>1, <1>4
  <2>3. m > 0 => m \in DOMAIN cells[statFile]
    BY <2>1, <1>4
  <2> QED
    BY <2>1, <2>2, <2>3, <1>1, <1>2, <1>3, <1>5 DEF Cut
<1>6. Followed'
  <2>1. lastSize \in Nat /\ newSize \in Nat
    BY <1>0 DEF Parts
  <2> QED
    BY <2>1, <1>1, <1>5 DEF TailOK, Followed, Polling, Reading
<1>7. BehindStat'
  <2> SUFFICES ASSUME Polling, NEW f \in Files, NEW p \in DOMAIN cells'[f],
                      statFile < f \/ (f = statFile /\ newSize < p)
               PROVE  LineOf(cells'[f][p]) \in raced'
    BY <1>1 DEF BehindStat, Polling
  <2>1. CASE p \in DOMAIN cells[f]
    BY <2>1, <1>2, <1>3 DEF TailOK, BehindStat
  <2>2. CASE p \notin DOMAIN cells[f]
    <3> DEFINE l == Len(cells[path])
    <3>1. f = path
      BY <2>2, WrittenCells
    <3>2. l \in Nat /\ cells'[path] \in Seq(Cells) /\ Len(cells'[path]) = l + n
      BY <3>1, <1>4, WrittenCells
    <3>3. p \in 1 .. l + n /\ p \notin 1 .. l
      BY <3>1, <3>2, <2>2, <1>4
    <3> HIDE DEF l
    <3>4. p - l \in 1 .. n /\ p = l + (p - l)
      BY <3>2, <3>3
    <3>5. cells'[path][l + (p - l)] = CellNo(written + (p - l))
          /\ LineOf(CellNo(written + (p - l))) = LineOf(CellNo(written + 1))
      BY <3>4, WrittenCells DEF l
    <3>6. LineOf(CellNo(written + 1)) \in raced'
      BY WrittenCells DEF Polling
    <3> QED
      BY <3>1, <3>4, <3>5, <3>6
  <2> QED
    BY <2>1, <2>2
<1>8. ASSUME Reading, Clean PROVE Clean'
  <2>1. statFile \in Files
    BY <1>0, <1>8 DEF TailOK, Followed, Parts, Polling, Reading
  <2>2. rpos \in Nat /\ Len(rbuf) \in Nat /\ DOMAIN rbuf = 1 .. Len(rbuf)
    BY <1>0 DEF Parts
  <2>3. rpos <= Len(cells[statFile]) /\ Len(rbuf) <= rpos
    BY <1>8 DEF Clean
  <2>4. rpos <= Len(cells'[statFile])
    BY <2>1, <2>2, <2>3, <1>4
  <2>5. \A i \in DOMAIN rbuf : rpos - Len(rbuf) + i \in DOMAIN cells[statFile]
    BY <2>1, <2>2, <2>3, <1>4
  <2>6. rpos > 0 => cells'[statFile][rpos] = cells[statFile][rpos]
    BY <2>1, <2>2, <2>3, <1>3, <1>4
  <2>7. \A i \in DOMAIN rbuf : rbuf[i] = cells'[statFile][rpos - Len(rbuf) + i]
    BY <2>1, <2>5, <1>3, <1>8 DEF Clean
  <2> QED
    BY <2>3, <2>4, <2>6, <2>7, <1>1, <1>2, <1>8 DEF Clean
<1>9. BufferInv'
  <2>1. Reading' <=> Reading
    BY <1>1 DEF Reading
  <2>2. TornEnd => TornEnd'
    BY <1>1, <1>2 DEF TornEnd
  <2>3. Reading => statFile \in Files
    BY <1>0 DEF TailOK, Followed, Parts, Polling, Reading
  <2>4. Reading /\ Mixed => Mixed'
    BY <2>3, <1>1, <1>2, <1>3 DEF Mixed
  <2> QED
    BY <2>1, <2>2, <2>4, <1>1, <1>8 DEF TailOK, BufferInv
<1>10. ASSUME NEW i \in Lines, Arrived(i) PROVE Arrived(i)'
  <2>1. PICK f \in Files : \E p \in DOMAIN cells[f] : cells[f][p] = <<i, 1>> /\ Passed(f, p)
    BY <1>10 DEF Arrived
  <2>2. PICK p \in DOMAIN cells[f] : cells[f][p] = <<i, 1>> /\ Passed(f, p)
    BY <2>1
  <2>3. p \in DOMAIN cells'[f] /\ cells'[f][p] = <<i, 1>> /\ Passed(f, p)'
    BY <2>2, <1>1, <1>3 DEF Passed, Reading
  <2> QED
    BY <2>3, <1>1, <1>10 DEF Arrived, Reading
<1>11. ArrivedOnce'
  BY <1>1, <1>2, <1>10 DEF TailOK, ArrivedOnce
<1>12. SendingInv'
  BY <1>1, <1>2, <1>10 DEF TailOK, SendingInv, LinesIn, WholeLine
<1> QED
  BY <1>1, <1>2, <1>6, <1>7, <1>9, <1>11, <1>12 DEF TailOK

(* Rotation and truncation leave the file of the Stat as it is; an open    *)
(* file that is truncated becomes a later one.                             *)
LEMMA TailRotate ==
    ASSUME ShapeInv, TailOK,
           Cancel \/ TakeAway \/ \E f \in Files : Truncate(f) \/ \E n \in Inodes : Create(f, n)
    PROVE  TailOK'
<1>0. Parts /\ FilesInOrder
  BY PartTypes DEF ShapeInv
<1>1. UNCHANGED <<cells, written, pc, lastSize, lastIno, initialSkip, newSize, rpos, rbuf, text, eof,
                  emitted, garbled, split, raced, statFile>> /\ torn \subseteq torn'
  BY DEF Cancel, TakeAway, Truncate, Create, fsVars, pollVars, readVars, outVars, histVars
<1>2. statFile # NoFile => inode'[statFile] = inode[statFile]
  <2> SUFFICES ASSUME statFile # NoFile PROVE inode'[statFile] = inode[statFile]
    OBVIOUS
  <2>1. statFile \in Files /\ Used(statFile)
    BY <1>0 DEF Parts, FilesInOrder
  <2>2. CASE inode' = inode
    BY <2>2
  <2>3. ASSUME NEW f \in Files, Unused(f), NEW x, inode' = [inode EXCEPT ![f] = x]
        PROVE  inode'[statFile] = inode[statFile]
    <3>1. f # statFile
      BY <2>1, <2>3 DEF Unused, Used
    <3> QED
      BY <2>1, <2>3, <3>1, <1>0 DEF Parts
  <2> QED
    BY <2>2, <2>3 DEF Cancel, TakeAway, Truncate, Create, fsVars
<1>3. handle' = handle \/ (Reading => statFile < handle')
  <2> SUFFICES ASSUME NEW f \in Files, Truncate(f), handle' = f, Reading PROVE statFile < f
    BY <1>1 DEF Cancel, TakeAway, Create, Truncate, readVars
  <2>1. statFile \in Files /\ Used(statFile)
    BY <1>0 DEF TailOK, Followed, Parts, FilesInOrder, Polling, Reading
  <2>2. f # statFile /\ ~(f < statFile)
    BY <2>1, <1>0 DEF Truncate, Unused, Used, FilesInOrder
  <2> QED
    BY <2>1, <2>2, <1>0 DEF Parts
<1>4. Reading => (handle' = statFile => handle = statFile) /\ statFile <= handle'
  <2>1. statFile \in Nat /\ handle \in Nat /\ handle' \in Nat
    <3>1. handle' \in {handle} \cup Files
      BY DEF Cancel, TakeAway, Create, Truncate, readVars
    <3> QED
      BY <1>0, <3>1 DEF Parts
  <2> QED
    BY <1>3, <2>1 DEF TailOK, Followed
<1>5. Followed'
  BY <1>1, <1>2, <1>4 DEF TailOK, Followed, Cut, Polling, Reading
<1>6. BehindStat'
  BY <1>1 DEF TailOK, BehindStat, Polling
<1>t. handle' # handle => TornEnd'
  <2> SUFFICES ASSUME handle' # handle, rbuf # <<>>, ~IsNewline(rbuf[Len(rbuf)])
               PROVE  LineOf(rbuf[Len(rbuf)]) \in torn'
    BY <1>1 DEF TornEnd
  <2>1. PICK f \in Files : Truncate(f) /\ handle = path
    BY DEF Cancel, TakeAway, Create, Truncate, readVars
  <2>2. Last(rbuf) = rbuf[Len(rbuf)]
    BY DEF Last
  <2> QED
    BY <2>1, <2>2 DEF Truncate, Unfinished
<1>7. BufferInv'
  <2>1. (Clean => Clean') /\ (Mixed => Mixed') /\ (TornEnd => TornEnd') /\ (Reading' <=> Reading)
    BY <1>1 DEF Clean, Mixed, TornEnd, Reading
  <2>2. handle' # handle /\ Clean => Clean' /\ TornEnd'
    BY <1>t, <2>1
  <2> QED
    BY <1>1, <1>4, <2>1, <2>2 DEF TailOK, BufferInv
<1>8. ASSUME NEW i \in Lines, Arrived(i) PROVE Arrived(i)'
  <2>1. \A f \in Files : \A p \in DOMAIN cells[f] : Passed(f, p) => Passed(f, p)'
    BY <1>1, <1>4 DEF Passed, Reading
  <2> QED
    BY <2>1, <1>1, <1>8 DEF Arrived, Reading
<1>9. ArrivedOnce' /\ SendingInv'
  BY <1>1, <1>8 DEF TailOK, ArrivedOnce, SendingInv, LinesIn, WholeLine
<1> QED
  BY <1>1, <1>5, <1>6, <1>7, <1>9 DEF TailOK

(* Steps between polls.                                                    *)
LEMMA TailQuiet ==
    ASSUME TailOK, StatFails \/ Tick \/ Return
    PROVE  TailOK'
<1>1. /\ UNCHANGED <<cells, inode, lastSize, lastIno, initialSkip, newSize, handle, rpos, rbuf, text,
                     eof, emitted, garbled, split, raced, torn, statFile>>
      /\ ~Polling /\ ~Reading /\ ~Polling' /\ ~Reading' /\ pc' # "send"
  BY DEF StatFails, Tick, Return, fsVars, pollVars, readVars, outVars, histVars, Polling, Reading
<1>2. Followed'
  BY <1>1 DEF TailOK, Followed, Cut
<1>3. BehindStat' /\ BufferInv' /\ SendingInv'
  BY <1>1 DEF BehindStat, BufferInv, SendingInv
<1>4. ArrivedOnce'
  <2>1. ASSUME NEW i \in Lines, Arrived(i) PROVE Arrived(i)'
    <3>1. \A f \in Files : \A p \in DOMAIN cells[f] : Passed(f, p) => Passed(f, p)'
      BY <1>1 DEF Passed
    <3> QED
      BY <1>1, <2>1, <3>1 DEF Arrived
  <2> QED
    BY <1>1, <2>1 DEF TailOK, ArrivedOnce
<1> QED
  BY <1>1, <1>2, <1>3, <1>4 DEF TailOK

(* A Stat that misses nothing: the same file is longer or as long, another *)
(* one is read from its start.                                             *)
LEMMA TailStat ==
    ASSUME ShapeInv, FilesInv, TailOK, StatSkips \/ StatFindsNothing \/ StatFindsMore,
           ~Unnoticeable
    PROVE  TailOK'
<1>0. Parts /\ FilesInOrder
  BY PartTypes DEF ShapeInv
<1>1. /\ Statted /\ path # NoFile /\ pc = "stat" /\ statFile' = path
      /\ UNCHANGED <<path, cells, inode, handle, rpos, rbuf, text, eof, emitted, garbled, split, raced, torn>>
      /\ pc' \in {"wait", "open"} /\ initialSkip' = FALSE
      /\ lastIno' = inode[path]
      /\ pc' = "open" => newSize' = Len(Content) /\ lastSize' < newSize'
  <2>1. lastIno' = inode[path] /\ path # NoFile /\ pc = "stat" /\ statFile' = path
    BY DEF StatSkips, StatFindsNothing, StatFindsMore, Statted, Rotated
  <2>2. initialSkip' = FALSE
    BY <1>0 DEF StatSkips, StatFindsNothing, StatFindsMore, Parts
  <2>3. lastSize' \in Nat /\ Len(Content) \in Nat
    BY <1>0, <2>1 DEF StatSkips, StatFindsNothing, StatFindsMore, StartsAt, Content, Parts
  <2>4. /\ pc' \in {"wait", "open"}
        /\ pc' = "open" => newSize' = Len(Content) /\ lastSize' < newSize'
    BY <2>3 DEF StatSkips, StatFindsNothing, StatFindsMore
  <2> QED
    BY <2>1, <2>2, <2>4
    DEF StatSkips, StatFindsNothing, StatFindsMore, fsVars, readVars, outVars
<1>2. ~Polling /\ ~Reading /\ ~Reading' /\ pc' # "send"
  BY <1>1 DEF Polling, Reading
<1>3. /\ path \in Files /\ path \in Nat /\ statFile \in Nat /\ ~(path < statFile)
      /\ cells[path] \in Seq(Cells) /\ Len(cells[path]) \in Nat /\ Content = cells[path]
  BY <1>0, <1>1 DEF Parts, FilesInOrder, Content
<1>4. Len(cells[path]) > 0 /\ Part(cells[path][Len(cells[path])]) = 1
        => LineOf(cells[path][Len(cells[path])]) \in split
  <2>1. Len(cells[path]) > 0 => cells[path] # <<>>
    BY <1>3
  <2> QED
    BY <2>1, <1>3 DEF FilesInv, HalvesAreSplit
<1> DEFINE CutAt(n) == /\ n <= Len(cells[path])
                       /\ n > 0 /\ Part(cells[path][n]) = 1 => LineOf(cells[path][n]) \in split
<1>5. CutAt(lastSize') /\ (statFile = path => lastSize' = lastSize)
  <2>1. CASE StatSkips
    <3>1. lastSize' = Len(cells[path]) /\ initialSkip
      BY <1>3, <2>1 DEF StatSkips
    <3>2. statFile = NoFile
      BY <3>1 DEF TailOK, Followed
    <3> QED
      BY <3>1, <3>2, <1>1, <1>3, <1>4
  <2>2. CASE ~StatSkips /\ path = statFile
    <3>1. lastIno = inode[path] /\ lastSize <= Len(cells[path]) /\ CutAt(lastSize)
      BY <2>2, <1>1 DEF TailOK, Followed, Cut
    <3>2. ~(Len(Content) < lastSize)
      BY <3>1, <1>0, <1>3 DEF Parts
    <3>3. lastSize' = lastSize
      BY <2>2, <3>1, <3>2 DEF Rotated, StartsAt, StatFindsNothing, StatFindsMore
    <3> QED
      BY <3>1, <3>3
  <2>3. CASE ~StatSkips /\ path # statFile
    <3>1. inode[path] # lastIno \/ ~(Len(Content) >= lastSize)
      BY <2>3 DEF Unnoticeable
    <3>2. inode[path] # lastIno \/ Len(Content) < lastSize
      BY <3>1, <1>0, <1>3 DEF Parts
    <3>3. lastSize' = 0
      BY <2>3, <3>2 DEF Rotated, StartsAt, StatFindsNothing, StatFindsMore
    <3> QED
      BY <3>3, <2>3, <1>3
  <2> QED
    BY <2>1, <2>2, <2>3
<1>6. Followed'
  <2>1. path # NoFile /\ Cut(lastSize)'
    BY <1>1, <1>5 DEF Cut
  <2>2. pc' = "open" => Cut(newSize)' /\ lastSize' < newSize'
    BY <1>1, <1>3, <1>4 DEF Cut
  <2>3. Polling' => pc' = "open"
    BY <1>1 DEF Polling
  <2>4. ~Reading' /\ rbuf' = <<>>
    BY <1>1, <1>2 DEF TailOK, Followed
  <2> QED
    BY <2>1, <2>2, <2>3, <2>4, <1>1 DEF Followed
<1>7. BehindStat'
  <2> SUFFICES ASSUME Polling', NEW f \in Files, NEW p \in DOMAIN cells'[f],
                      statFile' < f \/ (f = statFile' /\ newSize' < p)
               PROVE  FALSE
    BY DEF BehindStat
  <2>1. newSize' = Len(cells[path])
    BY <1>1, <1>3 DEF Polling
  <2>2. p \in DOMAIN cells[f] /\ p \in 1 .. Len(cells[f]) /\ Used(f)
    BY <1>1, PlaceTypes
  <2>3. ~(path < f)
    BY <2>2, <1>0, <1>1 DEF FilesInOrder
  <2> QED
    BY <2>1, <2>2, <2>3, <1>1, <1>3
<1>8. BufferInv' /\ SendingInv'
  BY <1>2 DEF BufferInv, SendingInv
<1>9. ASSUME NEW i \in Lines, Arrived(i) PROVE Arrived(i)'
  <2>1. ASSUME NEW f \in Files, NEW p, Passed(f, p) PROVE Passed(f, p)'
    <3>1. f \in Nat
      BY <1>0 DEF Parts
    <3>2. CASE statFile = path
      BY <3>2, <2>1, <1>1, <1>2, <1>5 DEF Passed
    <3>3. CASE statFile # path
      <4>1. f < path
        BY <3>1, <3>3, <2>1, <1>3 DEF Passed
      <4> QED
        BY <4>1, <1>1 DEF Passed
    <3> QED
      BY <3>2, <3>3
  <2> QED
    BY <2>1, <1>1, <1>2, <1>9 DEF Arrived
<1>10. ArrivedOnce'
  BY <1>1, <1>9 DEF TailOK, ArrivedOnce
<1> QED
  BY <1>1, <1>6, <1>7, <1>8, <1>10 DEF TailOK
-----------------------------------------------------------------------------
(* The end of a poll: what was read lies before the size of the Stat, or   *)
(* was written since.                                                      *)
Reached(i) ==
    \E f \in Files : \E p \in DOMAIN cells[f] : cells[f][p] = <<i, 1>> /\ f <= statFile

LEMMA ArrivedReached ==
    ASSUME ShapeInv, NEW i \in Lines, Arrived(i)
    PROVE  Reached(i)
<1>1. Files \subseteq Nat /\ statFile \in Nat
  BY PartTypes DEF Parts
<1>2. \A f \in Files, p \in Nat : Passed(f, p) => f <= statFile
  BY <1>1 DEF Passed
<1>3. PICK f \in Files : \E p \in DOMAIN cells[f] : cells[f][p] = <<i, 1>> /\ Passed(f, p)
  BY DEF Arrived
<1>4. PICK p \in DOMAIN cells[f] : cells[f][p] = <<i, 1>> /\ Passed(f, p)
  BY <1>3
<1>5. p \in Nat
  BY PlaceTypes
<1> QED
  BY <1>2, <1>4, <1>5 DEF Reached

LEMMA TailFinish ==
    ASSUME ShapeInv, TailOK, Polling, pc' = "wait", lastSize' = newSize, rbuf' = <<>>,
           UNCHANGED <<cells, inode, lastIno, initialSkip, split, raced, statFile>>,
           \A i \in Lines : emitted'[i] > 0 /\ i \notin raced => emitted'[i] = 1 /\ Reached(i),
           garbled' \subseteq split \cup raced \cup torn'
    PROVE  TailOK'
<1>0. Parts
  BY PartTypes
<1>1. statFile # NoFile /\ statFile \in Files /\ statFile \in Nat
  BY <1>0 DEF TailOK, Followed, Parts
<1>2. ~Polling' /\ ~Reading' /\ pc' # "send"
  BY DEF Polling, Reading
<1>3. Followed'
  BY <1>1, <1>2 DEF TailOK, Followed, Cut
<1>4. BehindStat' /\ BufferInv' /\ SendingInv'
  BY <1>2 DEF BehindStat, BufferInv, SendingInv
<1>5. ASSUME NEW i \in Lines, i \notin raced, Reached(i) PROVE Arrived(i)'
  <2>1. PICK f \in Files : \E p \in DOMAIN cells[f] : cells[f][p] = <<i, 1>> /\ f <= statFile
    BY <1>5 DEF Reached
  <2>2. PICK p \in DOMAIN cells[f] : cells[f][p] = <<i, 1>>
    BY <2>1
  <2>3. p \in Nat /\ f \in Nat /\ newSize \in Nat
    BY <1>0, PlaceTypes DEF Parts
  <2>4. LineOf(cells[f][p]) = i
    BY <2>2 DEF LineOf
  <2>5. f = statFile => p <= newSize
    BY <2>3, <2>4, <1>5 DEF TailOK, BehindStat
  <2>6. Passed(f, p)'
    BY <2>1, <2>3, <2>5, <1>1, <1>2 DEF Passed
  <2> QED
    BY <2>2, <2>6, <1>2 DEF Arrived
<1>6. ArrivedOnce'
  BY <1>5 DEF ArrivedOnce
<1> QED
  BY <1>3, <1>4, <1>6 DEF TailOK

LEMMA TailOpenFails ==
    ASSUME ShapeInv, TailOK, OpenFails
    PROVE  TailOK'
<1>1. /\ Polling /\ pc' = "wait" /\ lastSize' = newSize /\ rbuf' = <<>>
      /\ UNCHANGED <<cells, inode, lastIno, initialSkip, split, raced, torn, statFile, emitted, garbled>>
  BY DEF OpenFails, Finish, Advance, Polling, fsVars, outVars
<1>2. \A i \in Lines : emitted'[i] > 0 /\ i \notin raced => emitted'[i] = 1 /\ Reached(i)
  BY <1>1, ArrivedReached DEF TailOK, ArrivedOnce
<1>3. garbled' \subseteq split \cup raced \cup torn
  BY <1>1 DEF TailOK
<1> QED
  BY <1>1, <1>2, <1>3, TailFinish

(* The open, with the offset of the last poll.                             *)
LEMMA TailOpen ==
    ASSUME ShapeInv, TailOK, OpenAndSeek
    PROVE  TailOK'
<1>0. Parts /\ FilesInOrder
  BY PartTypes DEF ShapeInv
<1>1. /\ pc = "open" /\ path # NoFile /\ handle' = path /\ rpos' = lastSize /\ pc' = "read"
      /\ UNCHANGED <<cells, inode, lastSize, lastIno, initialSkip, newSize, rbuf, text, eof, emitted,
                     garbled, split, raced, torn, statFile>>
  BY DEF OpenAndSeek, fsVars, pollVars, outVars
<1>2. Polling /\ ~Reading /\ Polling' /\ Reading' /\ pc' # "send"
  BY <1>1 DEF Polling, Reading
<1>3. /\ statFile # NoFile /\ statFile \in Files /\ path \in Nat /\ statFile \in Nat
      /\ ~(path < statFile)
  BY <1>0, <1>1, <1>2 DEF TailOK, Followed, Parts, FilesInOrder
<1>4. Followed'
  BY <1>1, <1>2, <1>3 DEF TailOK, Followed, Cut
<1>5. BehindStat' /\ SendingInv'
  BY <1>1, <1>2 DEF TailOK, BehindStat, SendingInv
<1>6. rbuf = <<>>
  BY <1>2 DEF TailOK, Followed
<1>7. BufferInv'
  <2>1. Len(rbuf) = 0 /\ DOMAIN rbuf = {} /\ Mixed'
    BY <1>1, <1>6 DEF Mixed
  <2>2. Cut(lastSize) /\ lastSize \in Nat
    BY <1>0, <1>3 DEF TailOK, Followed, Parts
  <2>3. Clean'
    BY <2>1, <2>2, <1>1, <1>6 DEF Clean, Cut
  <2> QED
    BY <2>1, <2>3 DEF BufferInv
<1>8. ASSUME NEW i \in Lines, Arrived(i) PROVE Arrived(i)'
  <2>1. \A f \in Files : \A p \in DOMAIN cells[f] : Passed(f, p) => Passed(f, p)'
    BY <1>1, <1>2 DEF Passed
  <2>2. <<i, 1>> \notin ToSet(rbuf')
    BY <1>1, <1>6 DEF ToSet
  <2> QED
    BY <2>1, <2>2, <1>1, <1>8 DEF Arrived
<1>9. ArrivedOnce'
  BY <1>1, <1>8 DEF TailOK, ArrivedOnce
<1> QED
  BY <1>1, <1>4, <1>5, <1>7, <1>9 DEF TailOK

(* Cells without a newline that follow one another are a part of one line. *)
LEMMA Piece ==
    ASSUME NEW s \in Seq(Cells), \A i \in DOMAIN s : ~IsNewline(s[i]),
           \A i, k \in DOMAIN s : Num(s[k]) + i = Num(s[i]) + k
    PROVE  \/ s = <<>>
           \/ \E i \in Lines : s \in {<<<<i, 1>>>>, <<<<i, 2>>>>, <<<<i, 1>>, <<i, 2>>>>}
<1> SUFFICES ASSUME s # <<>>
             PROVE  \E i \in Lines : s \in {<<<<i, 1>>>>, <<<<i, 2>>>>, <<<<i, 1>>, <<i, 2>>>>}
  OBVIOUS
<1>1. Len(s) \in Nat \ {0} /\ DOMAIN s = 1 .. Len(s)
  OBVIOUS
<1>2. \A i \in DOMAIN s : s[i] \in Cells /\ Part(s[i]) \in {1, 2} /\ Num(s[i]) \in Nat
  <2> SUFFICES ASSUME NEW i \in DOMAIN s
               PROVE  s[i] \in Cells /\ Part(s[i]) \in {1, 2} /\ Num(s[i]) \in Nat
    OBVIOUS
  <2>1. s[i] \in Cells
    OBVIOUS
  <2> QED
    BY SMTT(30), <2>1, CellTypes
<1> DEFINE c == s[1]
           l == LineOf(c)
<1>3. c \in Cells /\ Part(c) \in {1, 2} /\ l \in Lines /\ c = <<l, Part(c)>>
  <2>1. 1 \in DOMAIN s
    BY <1>1
  <2> QED
    BY <2>1, <1>2, CellTypes
<1>4. ASSUME NEW i \in DOMAIN s, i + 1 \in DOMAIN s
      PROVE  Part(s[i]) = 1 /\ s[i + 1] = <<LineOf(s[i]), 2>>
  <2> DEFINE j == i + 1
             a == Num(s[i])
             b == Num(s[j])
  <2>0. i \in Nat /\ j \in DOMAIN s /\ a \in Nat /\ b \in Nat
    BY <1>1, <1>2, <1>4
  <2>1. b + i = a + j
    BY <2>0
  <2> HIDE DEF a, b
  <2>i. b = a + 1
    BY <2>0, <2>1
  <2>2. Num(s[i + 1]) = Num(s[i]) + 1
    BY <2>i DEF a, b
  <2>3. /\ Part(s[i]) # 3 => LineOf(s[i + 1]) = LineOf(s[i]) /\ Part(s[i + 1]) = Part(s[i]) + 1
        /\ s[i + 1] = <<LineOf(s[i + 1]), Part(s[i + 1])>>
    BY <2>2, <1>2, <1>4, NextNumber, CellTypes
  <2> QED
    BY <2>3, <1>2, <1>4
<1> HIDE DEF c, l
<1>5. CASE Len(s) = 1
  <2>1. s = <<c>>
    BY <1>5, <1>1 DEF c
  <2> QED
    BY <2>1, <1>3
<1>6. CASE Len(s) = 2
  <2>1. 1 \in DOMAIN s /\ 1 + 1 \in DOMAIN s
    BY <1>6, <1>1
  <2>2. Part(s[1]) = 1 /\ s[1 + 1] = <<LineOf(s[1]), 2>>
    BY <2>1, <1>4
  <2>3. s[1] = <<l, 1>> /\ s[2] = <<l, 2>>
    BY <2>2, <1>3 DEF c, l
  <2>4. s = <<<<l, 1>>, <<l, 2>>>>
    BY <2>3, <1>6, <1>1
  <2> QED
    BY <2>4, <1>3
<1>7. CASE Len(s) > 2
  <2>1. 1 \in DOMAIN s /\ 1 + 1 \in DOMAIN s /\ 2 \in DOMAIN s /\ 2 + 1 \in DOMAIN s
    BY <1>7, <1>1
  <2>2. s[1 + 1] = <<LineOf(s[1]), 2>> /\ Part(s[2]) = 1
    BY <2>1, <1>4
  <2> QED
    BY <2>2 DEF Part
<1> QED
  BY <1>1, <1>5, <1>6, <1>7

(* The buffer as a part of the file of the Stat.                           *)
LEMMA CleanCells ==
    ASSUME ShapeInv, FilesInv, TailOK, Reading, Clean
    PROVE  /\ statFile \in Files /\ cells[statFile] \in Seq(Cells)
           /\ rpos \in Nat /\ Len(rbuf) \in Nat /\ rpos - Len(rbuf) \in Nat
           /\ DOMAIN rbuf = 1 .. Len(rbuf)
           /\ rpos <= Len(cells[statFile]) /\ Len(cells[statFile]) \in Nat
           /\ \A i \in DOMAIN rbuf : /\ rpos - Len(rbuf) + i \in DOMAIN cells[statFile]
                                     /\ rbuf[i] = cells[statFile][rpos - Len(rbuf) + i]
                                     /\ rbuf[i] \in Cells /\ Num(rbuf[i]) \in Nat
           /\ \A i, k \in DOMAIN rbuf : Num(rbuf[k]) + i = Num(rbuf[i]) + k
<1>0. Parts
  BY PartTypes
<1>1. statFile \in Files
  BY <1>0 DEF TailOK, Followed, Parts, Polling, Reading
<1>2. /\ cells[statFile] \in Seq(Cells) /\ rpos \in Nat /\ rbuf \in Seq(Cells)
      /\ rpos <= Len(cells[statFile]) /\ Len(rbuf) <= rpos
  BY <1>0, <1>1 DEF Parts, Clean
<1>3. /\ Len(rbuf) \in Nat /\ Len(cells[statFile]) \in Nat /\ DOMAIN rbuf = 1 .. Len(rbuf)
      /\ DOMAIN cells[statFile] = 1 .. Len(cells[statFile]) /\ rpos - Len(rbuf) \in Nat
  BY <1>2
<1>4. \A i \in DOMAIN rbuf : /\ rpos - Len(rbuf) + i \in DOMAIN cells[statFile]
                             /\ rbuf[i] = cells[statFile][rpos - Len(rbuf) + i]
                             /\ rbuf[i] \in Cells
  BY <1>2, <1>3 DEF Clean
<1>5. \A i \in DOMAIN rbuf : Num(rbuf[i]) \in Nat
  BY <1>4, CellTypes
<1>6. ASSUME NEW i \in DOMAIN rbuf, NEW k \in DOMAIN rbuf
      PROVE  Num(rbuf[k]) + i = Num(rbuf[i]) + k
  <2> DEFINE o == rpos - Len(rbuf)
             a == Num(rbuf[i])
             b == Num(rbuf[k])
  <2>1. b + (o + i) = a + (o + k)
    BY <1>1, <1>4 DEF FilesInv, WrittenInOrder
  <2>2. a \in Nat /\ b \in Nat /\ o \in Nat /\ i \in Nat /\ k \in Nat
    BY <1>3, <1>5
  <2> HIDE DEF o, a, b
  <2>3. b + i = a + k
    BY <2>1, <2>2
  <2> QED
    BY <2>3 DEF a, b
<1> QED
  BY <1>1, <1>2, <1>3, <1>4, <1>5, <1>6

(* The rest of an unfinished line behind the size of the Stat was written  *)
(* since, in this file or in a later one.                                  *)
LEMMA RestIsRaced ==
    ASSUME ShapeInv, FilesInv, TailOK, Polling, NEW q \in DOMAIN cells[statFile],
           newSize <= q, ~IsNewline(cells[statFile][q]),
           Num(cells[statFile][q]) < written
    PROVE  LineOf(cells[statFile][q]) \in raced
<1>0. Parts
  BY PartTypes
<1>1. statFile \in Files /\ statFile \in Nat
  BY <1>0 DEF TailOK, Followed, Parts
<1> DEFINE c == cells[statFile][q]
<1>2. c \in Cells /\ Num(c) \in Nat /\ Num(c) < written /\ written \in Nat /\ q \in Nat
      /\ newSize \in Nat /\ Part(c) # 3
  <2>1. c \in Cells
    BY <1>1, PlaceTypes
  <2>2. Num(c) \in Nat /\ q \in Nat
    BY <1>1, PlaceNumbers DEF FilesInv
  <2>3. Part(c) # 3
    BY <2>1, CellTypes
  <2> QED
    BY <2>1, <2>2, <2>3, <1>0 DEF Parts
<1>3. Num(c) + 1 \in 1 .. written
  BY <1>2
<1>4. PICK f \in Files : \E p \in DOMAIN cells[f] : Num(cells[f][p]) = Num(c) + 1
  BY <1>3 DEF FilesInv, WrittenInOrder
<1>5. PICK p \in DOMAIN cells[f] : Num(cells[f][p]) = Num(c) + 1
  BY <1>4
<1>6. cells[f][p] \in Cells /\ p \in Nat /\ f \in Nat
  BY <1>0, PlaceTypes DEF Parts
<1>7. LineOf(cells[f][p]) = LineOf(c)
  BY <1>2, <1>5, <1>6, NextNumber
<1>8. ~(f < statFile)
  <2> SUFFICES ASSUME f < statFile PROVE FALSE
    OBVIOUS
  <2>1. Num(cells[f][p]) < Num(c)
    BY <1>1 DEF FilesInv, WrittenInOrder
  <2> HIDE DEF c
  <2> QED
    BY <2>1, <1>2, <1>5
<1>9. f = statFile => newSize < p
  <2> SUFFICES ASSUME f = statFile PROVE newSize < p
    OBVIOUS
  <2>1. Num(cells[f][p]) + q = Num(c) + p
    BY <1>1 DEF FilesInv, WrittenInOrder
  <2> HIDE DEF c
  <2> QED
    BY <2>1, <1>2, <1>5, <1>6
<1>10. statFile < f \/ (f = statFile /\ newSize < p)
  BY <1>1, <1>6, <1>8, <1>9
<1> QED
  BY <1>7, <1>10 DEF TailOK, BehindStat

(* The cells of two sequences, one behind the other.                       *)
LEMMA Joined ==
    ASSUME NEW s \in Seq(Cells), NEW t \in Seq(Cells)
    PROVE  /\ s \o t \in Seq(Cells) /\ Len(s \o t) = Len(s) + Len(t)
           /\ \A i \in 1 .. Len(s) : (s \o t)[i] = s[i]
           /\ \A i \in 1 .. Len(t) : (s \o t)[Len(s) + i] = t[i]
  OBVIOUS

(* What the buffer gets from the open file.                                *)
LEMMA TailFill ==
    ASSUME ShapeInv, FilesInv, TailOK, FillBuffer
    PROVE  TailOK'
<1>0. Parts
  BY PartTypes
<1>1. /\ pc = "read" /\ ~HasLine
      /\ UNCHANGED <<cells, inode, pc, lastSize, lastIno, initialSkip, newSize, handle, text, eof,
                     emitted, garbled, split, raced, torn, statFile>>
  BY DEF FillBuffer, fsVars, pollVars, outVars, histVars
<1>2. Polling /\ Reading /\ Polling' /\ Reading' /\ pc' # "send" /\ ~eof /\ handle # NoFile
  BY <1>0, <1>1 DEF Polling, Reading, Parts
<1>3. /\ statFile # NoFile /\ statFile \in Files /\ statFile \in Nat
      /\ statFile <= handle /\ Cut(newSize) /\ newSize \in Nat
  BY <1>0, <1>2 DEF TailOK, Followed, Parts
<1>u. PICK u \in Seq(Cells) :
         /\ Len(u) \in Nat \ {0} /\ rbuf' = rbuf \o u /\ rpos' = rpos + Len(u)
         /\ \A i \in 1 .. Len(u) :
               rpos + i \in 1 .. Len(cells[handle]) /\ u[i] = cells[handle][rpos + i]
  BY Filled
<1>4. /\ handle \in Files /\ handle \in Nat /\ cells[handle] \in Seq(Cells)
      /\ rpos \in Nat /\ Len(cells[handle]) \in Nat
  BY <1>0, <1>2 DEF Parts
<1> DEFINE l == Len(rbuf)
           a == Len(u)
<1>5. /\ rbuf \in Seq(Cells) /\ l \in Nat /\ a \in Nat \ {0} /\ rpos' = rpos + a
      /\ Len(rbuf') = l + a /\ DOMAIN rbuf' = 1 .. l + a /\ rbuf' # <<>>
      /\ \A i \in 1 .. l : rbuf'[i] = rbuf[i]
      /\ \A i \in 1 .. a : rbuf'[l + i] = u[i]
  <2>1. rbuf \in Seq(Cells) /\ l \in Nat /\ a \in Nat \ {0}
    BY <1>0, <1>u DEF Parts
  <2>2. /\ Len(rbuf \o u) = l + a /\ DOMAIN (rbuf \o u) = 1 .. l + a
        /\ \A i \in 1 .. l : (rbuf \o u)[i] = rbuf[i]
        /\ \A i \in 1 .. a : (rbuf \o u)[l + i] = u[i]
    <3>1. rbuf \o u \in Seq(Cells)
      BY <2>1, Joined
    <3>2. DOMAIN (rbuf \o u) = 1 .. Len(rbuf \o u)
      BY <3>1
    <3> QED
      BY <2>1, <3>2, Joined
  <2>3. rbuf' = rbuf \o u /\ rpos' = rpos + a
    BY <1>u
  <2> HIDE DEF l, a
  <2>4. rbuf' # <<>>
    <3>1. 1 \in 1 .. l + a
      BY <2>1
    <3>2. 1 \in DOMAIN rbuf'
      BY <3>1, <2>2, <2>3
    <3> QED
      BY <3>2
  <2> QED
    BY <2>1, <2>2, <2>3, <2>4
<1> HIDE DEF l, a
<1>6. \A i \in 1 .. l + a : i \in 1 .. l \/ (i - l \in 1 .. a /\ i = l + (i - l))
  BY <1>5
<1>7. ASSUME handle = statFile PROVE Clean'
  <2>1. Clean /\ Reading
    BY <1>2, <1>7 DEF TailOK, BufferInv
  <2>2. l <= rpos /\ \A i \in 1 .. l : rbuf[i] = cells[statFile][rpos - l + i]
    BY <2>1, CleanCells, <1>5 DEF l, Clean
  <2>3. rpos' - (l + a) = rpos - l
    BY <1>4, <1>5
  <2>4. ASSUME NEW i \in 1 .. l + a PROVE rbuf'[i] = cells[statFile][rpos' - (l + a) + i]
    <3>1. CASE i \in 1 .. l
      BY <2>2, <2>3, <3>1, <1>5
    <3>2. CASE i - l \in 1 .. a /\ i = l + (i - l)
      <4>1. rbuf'[i] = cells[statFile][rpos + (i - l)]
        BY <3>2, <1>u, <1>5, <1>7 DEF a
      <4>2. rpos + (i - l) = rpos - l + i
        BY <1>4, <1>5
      <4> QED
        BY <4>1, <4>2, <2>3
    <3> QED
      BY <3>1, <3>2, <1>6
  <2>5. Part(rbuf'[1]) = 2 => LineOf(rbuf'[1]) \in split
    <3>1. CASE rbuf # <<>>
      <4>1. 1 \in 1 .. l
        BY <3>1, <1>5 DEF l
      <4> QED
        BY <4>1, <3>1, <2>1, <1>5 DEF Clean
    <3>2. CASE rbuf = <<>>
      <4>1. l = 0
        BY <3>2 DEF l
      <4>2. 1 \in 1 .. a /\ 0 + 1 = 1
        BY <1>5
      <4>3. rbuf'[1] = cells[statFile][rpos + 1] /\ rpos + 1 \in DOMAIN cells[statFile]
        BY <4>1, <4>2, <1>u, <1>4, <1>5, <1>7 DEF a
      <4>4. CASE rpos = 0
        BY <4>3, <4>4, <1>3, PlaceTypes DEF FilesInv, HalvesAreSplit
      <4>5. CASE rpos # 0
        <5> DEFINE c == cells[statFile][rpos]
                   d == cells[statFile][rpos + 1]
        <5>1. rpos \in DOMAIN cells[statFile]
          <6>1. rpos + 1 \in 1 .. Len(cells[statFile])
            BY <4>2, <1>u, <1>7 DEF a
          <6>2. rpos \in 1 .. Len(cells[statFile])
            BY <6>1, <4>5, <1>4, <1>7
          <6> QED
            BY <6>2, <1>4, <1>7
        <5>2. c \in Cells /\ d \in Cells /\ Num(c) \in Nat /\ Num(d) \in Nat
          <6>1. c \in Cells /\ d \in Cells
            BY <5>1, <4>3, <1>3, PlaceTypes
          <6> QED
            BY <5>1, <6>1, <4>3, <1>3, PlaceNumbers DEF FilesInv
        <5>3. Num(d) + rpos = Num(c) + (rpos + 1)
          BY <5>1, <4>3, <1>3 DEF FilesInv, WrittenInOrder
        <5>4. Part(c) = 1 => LineOf(c) \in split
          BY <2>1, <3>2, <4>5, <1>2, <1>4 DEF Clean
        <5> HIDE DEF c, d
        <5>5. Num(d) = Num(c) + 1
          <6> DEFINE x == Num(c)
                     y == Num(d)
          <6>1. y + rpos = x + (rpos + 1) /\ x \in Nat /\ y \in Nat /\ rpos \in Nat
            BY <5>2, <5>3, <1>4
          <6> HIDE DEF x, y
          <6>2. y = x + 1
            BY <6>1
          <6> QED
            BY <6>2 DEF x, y
        <5>6. Part(d) = 2 => Part(c) = 1 /\ LineOf(d) = LineOf(c)
          BY <5>2, <5>5, NextNumber, CellTypes
        <5> QED
          BY <5>4, <5>6, <4>3 DEF d
      <4> QED
        BY <4>4, <4>5
    <3> QED
      BY <3>1, <3>2
  <2>6. rpos' <= Len(cells[statFile]) /\ l + a <= rpos'
    <3>1. a \in 1 .. a
      BY <1>5
    <3>2. rpos + a \in 1 .. Len(cells[handle])
      BY <3>1, <1>u DEF a
    <3> QED
      BY <3>2, <1>4, <1>5, <1>7, <2>2
  <2> QED
    <3>1. \A i \in DOMAIN rbuf' : rbuf'[i] = cells[statFile][rpos' - Len(rbuf') + i]
      BY <2>4, <1>5
    <3> QED
      BY <3>1, <2>5, <2>6, <1>1, <1>5 DEF Clean
<1>8. ASSUME handle # statFile PROVE Mixed'
  <2>1. ASSUME NEW i \in 1 .. a PROVE LineOf(u[i]) \in raced
    <3>1. statFile < handle
      BY <1>3, <1>4, <1>8
    <3>2. \A p \in DOMAIN cells[handle] : LineOf(cells[handle][p]) \in raced
      BY <3>1, <1>2, <1>4 DEF TailOK, BehindStat
    <3>3. rpos + i \in DOMAIN cells[handle] /\ u[i] = cells[handle][rpos + i]
      BY <1>u, <1>4 DEF a
    <3> QED
      BY <3>2, <3>3
  <2>2. Mixed
    <3>1. CASE Clean /\ TornEnd /\ l # 0
      <4>1. /\ DOMAIN rbuf = 1 .. l /\ \A i, k \in DOMAIN rbuf : Num(rbuf[k]) + i = Num(rbuf[i]) + k
            /\ \A i \in DOMAIN rbuf : /\ rpos - l + i \in DOMAIN cells[statFile]
                                      /\ rbuf[i] = cells[statFile][rpos - l + i]
                                      /\ Num(rbuf[i]) \in Nat
            /\ l \in DOMAIN rbuf /\ rbuf # <<>>
        <5>1. /\ DOMAIN rbuf = 1 .. l
              /\ \A i, k \in DOMAIN rbuf : Num(rbuf[k]) + i = Num(rbuf[i]) + k
              /\ \A i \in DOMAIN rbuf : /\ rpos - l + i \in DOMAIN cells[statFile]
                                        /\ rbuf[i] = cells[statFile][rpos - l + i]
                                        /\ Num(rbuf[i]) \in Nat
          BY <3>1, <1>2, CleanCells DEF l
        <5> QED
          BY <5>1, <3>1, <1>5 DEF l
      <4>2. \A i \in DOMAIN rbuf : ~IsNewline(rbuf[i])
        BY <1>1, <4>1 DEF HasLine, l
      <4>3. PICK n \in Lines : rbuf \in {<<<<n, 1>>>>, <<<<n, 2>>>>, <<<<n, 1>>, <<n, 2>>>>}
        BY <4>1, <4>2, <1>5, Piece
      <4>4. \A i \in DOMAIN rbuf : LineOf(rbuf[i]) = n
        BY <4>3 DEF LineOf
      <4>5. n \in torn
        BY <3>1, <4>1, <4>2, <4>4 DEF TornEnd, l
      <4>6. ASSUME NEW k \in DOMAIN rbuf, NEW m \in DOMAIN rbuf, rbuf[m] = rbuf[k] PROVE m = k
        <5> DEFINE x == Num(rbuf[k])
        <5>1. x + m = x + k /\ x \in Nat /\ m \in Nat /\ k \in Nat
          BY <4>1, <4>6, <1>5
        <5> HIDE DEF x
        <5> QED
          BY <5>1
      <4> QED
        BY <4>1, <4>4, <4>5, <4>6 DEF Mixed
    <3>2. CASE l = 0
      BY <3>2, <1>5 DEF Mixed, l
    <3> QED
      BY <3>1, <3>2, <1>2, <1>8 DEF TailOK, BufferInv
  <2>3. ASSUME NEW k \in DOMAIN rbuf'
        PROVE  \/ LineOf(rbuf'[k]) \in raced
               \/ /\ LineOf(rbuf'[k]) \in torn
                  /\ \E p \in DOMAIN cells[statFile] : cells[statFile][p] = rbuf'[k]
                  /\ \A m \in DOMAIN rbuf' : rbuf'[m] = rbuf'[k] => m = k
    <3>1. CASE k \in 1 .. l
      <4>1. k \in DOMAIN rbuf /\ rbuf'[k] = rbuf[k] /\ DOMAIN rbuf = 1 .. l
        BY <3>1, <1>5 DEF l
      <4>2. CASE LineOf(rbuf[k]) \in raced
        BY <4>1, <4>2
      <4>3. CASE LineOf(rbuf[k]) \notin raced
        <5>1. /\ LineOf(rbuf[k]) \in torn
              /\ \E p \in DOMAIN cells[statFile] : cells[statFile][p] = rbuf[k]
              /\ \A m \in DOMAIN rbuf : rbuf[m] = rbuf[k] => m = k
          BY <4>1, <4>3, <2>2 DEF Mixed
        <5>2. ASSUME NEW m \in DOMAIN rbuf', rbuf'[m] = rbuf'[k] PROVE m = k
          <6>1. CASE m \in 1 .. l
            BY <6>1, <5>1, <5>2, <4>1, <1>5
          <6>2. CASE m - l \in 1 .. a /\ m = l + (m - l)
            BY <6>2, <2>1, <4>1, <4>3, <5>2, <1>5
          <6> QED
            BY <6>1, <6>2, <1>5, <1>6
        <5> QED
          BY <4>1, <5>1, <5>2
      <4> QED
        BY <4>2, <4>3
    <3>2. CASE k - l \in 1 .. a /\ k = l + (k - l)
      BY <3>2, <2>1, <1>5
    <3> QED
      BY <3>1, <3>2, <1>5, <1>6
  <2> QED
    BY <2>3, <1>1 DEF Mixed
<1>9. BufferInv'
  BY <1>1, <1>7, <1>8 DEF BufferInv
<1>10. Followed' /\ BehindStat' /\ SendingInv'
  BY <1>1, <1>2 DEF TailOK, Followed, BehindStat, SendingInv, Cut
<1>11. ASSUME NEW i \in Lines, i \notin raced, Arrived(i) PROVE Arrived(i)'
  <2>1. PICK f \in Files : \E p \in DOMAIN cells[f] : cells[f][p] = <<i, 1>> /\ Passed(f, p)
    BY <1>11 DEF Arrived
  <2>2. PICK p \in DOMAIN cells[f] : cells[f][p] = <<i, 1>> /\ Passed(f, p)
    BY <2>1
  <2>3. p \in Nat /\ f \in Nat
    BY <1>0, PlaceTypes DEF Parts
  <2>4. Passed(f, p)'
    BY <2>2, <2>3, <1>1, <1>2, <1>4, <1>5 DEF Passed
  <2>5. ASSUME NEW k \in 1 .. a, u[k] = <<i, 1>> PROVE FALSE
    <3>1. rpos + k \in DOMAIN cells[handle] /\ cells[handle][rpos + k] = <<i, 1>>
          /\ k \in Nat /\ 0 < k
      <4>1. k \in Nat /\ 0 < k
        BY <2>5, <1>5
      <4>2. rpos + k \in 1 .. Len(cells[handle]) /\ u[k] = cells[handle][rpos + k]
        BY <2>5, <1>u DEF a
      <4> QED
        BY <4>1, <4>2, <2>5, <1>4, SMTT(30)
    <3>2. f = handle /\ p = rpos + k
      <4>1. p \in DOMAIN cells[f] /\ cells[f][p] = cells[handle][rpos + k]
        BY <3>1, <2>2
      <4> QED
        <5> DEFINE q == rpos + k
        <5>1. q \in DOMAIN cells[handle] /\ cells[f][p] = cells[handle][q] /\ p \in DOMAIN cells[f]
          BY <4>1, <3>1
        <5> HIDE DEF q
        <5>2. f = handle /\ p = q
          BY <5>1, <1>4, OnePlace DEF FilesInv
        <5> QED
          BY <5>2 DEF q
    <3>3. CASE handle = statFile
      BY <3>1, <3>2, <3>3, <2>2, <1>2, <1>3, <1>4 DEF Passed
    <3>4. CASE handle # statFile
      <4>1. statFile < handle
        BY <3>4, <1>3, <1>4
      <4>2. LineOf(cells[handle][rpos + k]) \in raced
        BY <4>1, <3>1, <1>2, <1>4 DEF TailOK, BehindStat
      <4> QED
        BY <4>2, <3>1, <1>11 DEF LineOf
    <3> QED
      BY <3>3, <3>4
  <2>6. \A k \in 1 .. l : rbuf[k] # <<i, 1>>
    <3>1. <<i, 1>> \notin ToSet(rbuf)
      BY <1>2, <1>11 DEF Arrived
    <3>2. DOMAIN rbuf = 1 .. l
      BY <1>5 DEF l
    <3> QED
      BY <3>1, <3>2 DEF ToSet
  <2>7. ASSUME NEW k \in DOMAIN rbuf' PROVE rbuf'[k] # <<i, 1>>
    <3>1. k \in 1 .. l + a
      BY <1>5
    <3>2. CASE k \in 1 .. l
      BY <3>2, <2>6, <1>5
    <3>3. CASE k - l \in 1 .. a /\ k = l + (k - l)
      <4>1. rbuf'[k] = u[k - l]
        BY <3>3, <1>5
      <4> QED
        BY <3>3, <4>1, <2>5
    <3> QED
      BY <3>1, <3>2, <3>3, <1>6
  <2>8. <<i, 1>> \notin ToSet(rbuf')
    BY <2>7, <1>5 DEF ToSet
  <2> QED
    BY <2>2, <2>4, <2>8, <1>1 DEF Arrived
<1>12. ArrivedOnce'
  BY <1>1, <1>11 DEF TailOK, ArrivedOnce
<1> QED
  BY <1>1, <1>9, <1>10, <1>12 DEF TailOK

(* t is the text of a line at the head of the buffer, r a part of what     *)
(* lies behind it, and nothing but the lines of c shows the first half of  *)
(* a line alone.                                                           *)
HeadAndRest(t, r, c) ==
    /\ t \in Seq(Cells) /\ t # <<>> /\ Len(t) <= Len(rbuf)
    /\ \A m \in 1 .. Len(t) : t[m] = rbuf[m] /\ ~IsNewline(rbuf[m])
    /\ \A i \in Lines : Clean /\ t = <<<<i, 1>>>> => i \in split \cup raced \cup c
    /\ \A j \in DOMAIN r : \E m \in DOMAIN rbuf : m > Len(t) /\ r[j] = rbuf[m]

(* A whole line has not arrived yet, and a part of one is what the         *)
(* exceptions allow.                                                       *)
MayBeSent(t, r, c) ==
    /\ \A i \in Lines : t = <<<<i, 1>>, <<i, 2>>>> /\ i \notin raced =>
          /\ emitted[i] = 0 /\ <<i, 1>> \notin ToSet(r)
          /\ \E p \in DOMAIN cells[statFile] :
                (handle = statFile => p <= rpos) /\ cells[statFile][p] = <<i, 1>>
    /\ ~WholeLine(t) => LinesIn(t) \subseteq split \cup raced \cup c

LEMMA BufferText ==
    ASSUME ShapeInv, FilesInv, TailOK, Reading, NEW t, NEW r, NEW c, torn \subseteq c,
           HeadAndRest(t, r, c)
    PROVE  MayBeSent(t, r, c)
<1>h. /\ t \in Seq(Cells) /\ t # <<>> /\ Len(t) <= Len(rbuf)
      /\ \A m \in 1 .. Len(t) : t[m] = rbuf[m] /\ ~IsNewline(rbuf[m])
      /\ \A i \in Lines : Clean /\ t = <<<<i, 1>>>> => i \in split \cup raced \cup c
      /\ \A j \in DOMAIN r : \E m \in DOMAIN rbuf : m > Len(t) /\ r[j] = rbuf[m]
  BY DEF HeadAndRest
<1>0. Parts /\ handle # NoFile
  BY PartTypes DEF Parts, Reading
<1>1. /\ rbuf \in Seq(Cells) /\ Len(rbuf) \in Nat /\ DOMAIN rbuf = 1 .. Len(rbuf)
      /\ Len(t) \in Nat /\ 1 \in 1 .. Len(t) /\ 1 \in 1 .. Len(rbuf) /\ DOMAIN t = 1 .. Len(t)
      /\ \A m \in 1 .. Len(t) : m \in 1 .. Len(rbuf)
  <2>1. rbuf \in Seq(Cells) /\ t \in Seq(Cells) /\ t # <<>>
    BY <1>0, <1>h DEF Parts
  <2>2. Len(t) \in Nat /\ Len(t) # 0 /\ Len(rbuf) \in Nat
    BY <2>1
  <2> QED
    BY <2>1, <2>2, <1>h
<1>2. CASE Mixed /\ handle # statFile
  <2>1. \A m \in 1 .. Len(t) : LineOf(t[m]) \in raced \cup torn
    BY <1>1, <1>2, <1>h DEF Mixed
  <2>2. LinesIn(t) \subseteq raced \cup torn
    BY <2>1, <1>1 DEF LinesIn
  <2>3. ASSUME NEW i \in Lines, t = <<<<i, 1>>, <<i, 2>>>>, i \notin raced
        PROVE  /\ emitted[i] = 0 /\ <<i, 1>> \notin ToSet(r)
               /\ \E p \in DOMAIN cells[statFile] : cells[statFile][p] = <<i, 1>>
    <3>1. rbuf[1] = <<i, 1>> /\ 1 \in DOMAIN rbuf
      BY <2>3, <1>1, <1>h
    <3>2. <<i, 1>> \in ToSet(rbuf)
      BY <3>1 DEF ToSet
    <3>3. emitted[i] = 0
      <4>1. ~Arrived(i)
        BY <3>2 DEF Arrived
      <4>2. ~(emitted[i] > 0)
        BY <4>1, <2>3 DEF TailOK, ArrivedOnce
      <4> QED
        BY <4>2, <1>0 DEF Parts
    <3>4. LineOf(rbuf[1]) = i
      BY <3>1 DEF LineOf
    <3>5. /\ \E p \in DOMAIN cells[statFile] : cells[statFile][p] = rbuf[1]
          /\ \A m \in DOMAIN rbuf : rbuf[m] = rbuf[1] => m = 1
      BY <3>1, <3>4, <2>3, <1>2 DEF Mixed
    <3>6. ASSUME NEW j \in DOMAIN r, r[j] = <<i, 1>> PROVE FALSE
      <4>1. PICK m \in DOMAIN rbuf : m > Len(t) /\ r[j] = rbuf[m]
        BY <3>6, <1>h
      <4>2. m = 1
        BY <4>1, <3>1, <3>5, <3>6
      <4> QED
        BY <4>1, <4>2, <1>1
    <3> QED
      BY <3>1, <3>3, <3>5, <3>6 DEF ToSet
  <2> QED
    BY <2>2, <2>3, <1>2 DEF MayBeSent
<1>3. CASE Clean
  <2>1. /\ statFile \in Files /\ rpos \in Nat
        /\ \A i \in DOMAIN rbuf : /\ rpos - Len(rbuf) + i \in DOMAIN cells[statFile]
                                  /\ rbuf[i] = cells[statFile][rpos - Len(rbuf) + i]
                                  /\ rbuf[i] \in Cells /\ Num(rbuf[i]) \in Nat
        /\ \A i, k \in DOMAIN rbuf : Num(rbuf[k]) + i = Num(rbuf[i]) + k
    BY <1>3, CleanCells
  <2>2. ASSUME NEW i \in Lines, t = <<<<i, 1>>, <<i, 2>>>>, i \notin raced
        PROVE  /\ emitted[i] = 0 /\ <<i, 1>> \notin ToSet(r)
               /\ \E p \in DOMAIN cells[statFile] : p <= rpos /\ cells[statFile][p] = <<i, 1>>
    <3>1. rbuf[1] = <<i, 1>>
      <4>1. t[1] = <<i, 1>>
        BY <2>2
      <4> QED
        BY <4>1, <1>1, <1>h
    <3>2. <<i, 1>> \in ToSet(rbuf)
      BY <3>1, <1>1 DEF ToSet
    <3>3. emitted[i] = 0
      <4>1. ~Arrived(i)
        BY <3>2 DEF Arrived
      <4>2. ~(emitted[i] > 0)
        BY <4>1, <2>2 DEF TailOK, ArrivedOnce
      <4>3. emitted[i] \in Nat
        BY <1>0 DEF Parts
      <4> QED
        BY <4>2, <4>3
    <3>4. ASSUME NEW j \in DOMAIN r, r[j] = <<i, 1>> PROVE FALSE
      <4>1. PICK m \in DOMAIN rbuf : m > Len(t) /\ r[j] = rbuf[m]
        BY <3>4, <1>h
      <4>2. Num(rbuf[m]) + 1 = Num(rbuf[1]) + m
        BY <2>1, <1>1
      <4>3. rbuf[m] = rbuf[1] /\ Num(rbuf[1]) \in Nat
        BY <4>1, <3>1, <3>4, <2>1, <1>1
      <4> DEFINE a == Num(rbuf[1])
      <4>4. a + 1 = a + m /\ a \in Nat /\ m \in Nat
        BY <4>2, <4>3, <1>1
      <4> HIDE DEF a
      <4>5. m = 1
        BY <4>4
      <4> QED
        BY <4>1, <4>5, <1>1
    <3>5. <<i, 1>> \notin ToSet(r)
      BY <3>4 DEF ToSet
    <3>6. /\ rpos - Len(rbuf) + 1 \in DOMAIN cells[statFile]
          /\ cells[statFile][rpos - Len(rbuf) + 1] = <<i, 1>>
      BY <2>1, <3>1, <1>1
    <3>7. rpos - Len(rbuf) + 1 <= rpos
      BY <2>1, <1>1
    <3> QED
      BY <3>3, <3>5, <3>6, <3>7
  <2>3. ASSUME ~WholeLine(t) PROVE LinesIn(t) \subseteq split \cup raced \cup c
    <3>1. \A m \in DOMAIN t : ~IsNewline(t[m]) /\ t[m] = rbuf[m] /\ m \in DOMAIN rbuf
      BY <1>1, <1>h
    <3>2. \A i, k \in DOMAIN t : Num(t[k]) + i = Num(t[i]) + k
      BY <3>1, <2>1
    <3>3. PICK n \in Lines : t \in {<<<<n, 1>>>>, <<<<n, 2>>>>, <<<<n, 1>>, <<n, 2>>>>}
      BY <3>1, <3>2, <1>h, Piece
    <3>4. t # <<<<n, 1>>, <<n, 2>>>>
      BY <2>3 DEF WholeLine
    <3>5. LinesIn(t) = {n}
      <4>1. Len(t) = 1 /\ LineOf(t[1]) = n
        BY <3>3, <3>4 DEF LineOf
      <4> QED
        BY <4>1 DEF LinesIn
    <3>6. n \in split \cup raced \cup c
      <4>1. CASE t = <<<<n, 1>>>>
        BY <4>1, <1>3, <1>h
      <4>2. CASE t = <<<<n, 2>>>>
        <5>1. t[1] = <<n, 2>>
          BY <4>2
        <5>2. rbuf[1] = <<n, 2>> /\ rbuf # <<>>
          BY <5>1, <1>1, <1>h
        <5> QED
          BY <5>2, <1>3 DEF Clean, Part, LineOf
      <4> QED
        BY <4>1, <4>2, <3>3, <3>4
    <3> QED
      BY <3>5, <3>6
  <2> QED
    BY <2>2, <2>3 DEF MayBeSent
<1> QED
  BY <1>2, <1>3 DEF TailOK, BufferInv

(* Taking a line out of the buffer.                                        *)
LEMMA TailTake ==
    ASSUME ShapeInv, TailOK, pc = "read", pc' \in {"read", "send"},
           UNCHANGED <<cells, inode, lastSize, lastIno, initialSkip, newSize, handle, rpos,
                       emitted, garbled, split, raced, statFile>>,
           torn \subseteq torn', ToSet(rbuf') \subseteq ToSet(rbuf), BufferInv', SendingInv'
    PROVE  TailOK'
<1>1. Polling /\ Reading /\ Polling' /\ Reading'
  BY DEF Polling, Reading
<1>2. Followed' /\ BehindStat'
  BY <1>1 DEF TailOK, Followed, BehindStat, Cut
<1>3. \A i \in Lines : Arrived(i) => Arrived(i)'
  BY <1>1 DEF Arrived, Passed
<1>4. ArrivedOnce'
  BY <1>3 DEF TailOK, ArrivedOnce
<1> QED
  BY <1>2, <1>4 DEF TailOK

(* A line up to its newline.                                               *)
LEMMA TailReadLine ==
    ASSUME ShapeInv, FilesInv, TailOK, ReadLine
    PROVE  TailOK'
<1>0. Parts
  BY PartTypes
<1> DEFINE k == Min({i \in 1 .. Len(rbuf) : IsNewline(rbuf[i])})
           t == SubSeq(rbuf, 1, k - 1)
           r == SubSeq(rbuf, k + 1, Len(rbuf))
           L == Len(rbuf)
<1>1. pc = "read" /\ HasLine /\ ParseLine(t, FALSE) /\ rbuf' = r
      /\ UNCHANGED <<cells, inode, lastIno, initialSkip, emitted, garbled, split, raced, torn, statFile>>
  BY DEF ReadLine, fsVars, outVars, histVars
<1>2. /\ pc' \in {"read", "send"} /\ UNCHANGED <<lastSize, newSize, handle, rpos>> /\ ~eof'
      /\ pc' = "send" => text' = t /\ (Accepted(t) \/ t # <<>>)
  BY <1>0, <1>1 DEF ParseLine, Parts
<1>3. Polling /\ Reading /\ Reading' /\ handle # NoFile
  BY <1>0, <1>1, <1>2 DEF Polling, Reading, Parts
<1>4. /\ rbuf \in Seq(Cells) /\ L \in Nat /\ DOMAIN rbuf = 1 .. L /\ rpos \in Nat
  BY <1>0 DEF Parts
<1>5. /\ k \in 1 .. L /\ IsNewline(rbuf[k]) /\ \A i \in 1 .. k - 1 : ~IsNewline(rbuf[i])
      /\ t \in Seq(Cells) /\ Len(t) = k - 1 /\ \A i \in 1 .. k - 1 : t[i] = rbuf[i]
      /\ r \in Seq(Cells) /\ Len(r) = L - k /\ \A i \in 1 .. L - k : r[i] = rbuf[k + i]
  BY <1>1, <1>4, FirstNewline DEF HasLine
<1> HIDE DEF k, t, r, L
<1>6. /\ DOMAIN r = 1 .. L - k /\ L - k \in Nat
      /\ \A j \in 1 .. L - k : k + j \in 1 .. L /\ k + j > k - 1 /\ k + j > k
  BY <1>4, <1>5
<1>7. ToSet(rbuf') \subseteq ToSet(rbuf)
  <2>1. \A j \in DOMAIN r : k + j \in DOMAIN rbuf /\ r[j] = rbuf[k + j]
    BY <1>4, <1>5, <1>6
  <2> QED
    BY <2>1, <1>1 DEF ToSet
<1>8. ASSUME Clean PROVE Clean'
  <2>1. /\ statFile \in Files
        /\ \A i \in DOMAIN rbuf : /\ rbuf[i] \in Cells /\ Num(rbuf[i]) \in Nat
                                  /\ rbuf[i] = cells[statFile][rpos - L + i]
        /\ \A i, m \in DOMAIN rbuf : Num(rbuf[m]) + i = Num(rbuf[i]) + m
    BY <1>3, <1>8, CleanCells DEF L
  <2>2. rpos <= Len(cells[statFile]) /\ L <= rpos
    BY <1>8 DEF Clean, L
  <2>3. \A i \in DOMAIN r : r[i] = cells[statFile][rpos - (L - k) + i]
    <3> SUFFICES ASSUME NEW i \in 1 .. L - k PROVE r[i] = cells[statFile][rpos - (L - k) + i]
      BY <1>6
    <3>1. r[i] = cells[statFile][rpos - L + (k + i)]
      BY <2>1, <1>4, <1>5, <1>6
    <3>2. rpos - L + (k + i) = rpos - (L - k) + i
      BY <1>4, <1>5
    <3> QED
      BY <3>1, <3>2
  <2>4. L - k <= rpos
    BY <2>2, <1>4, <1>5
  <2>6. r # <<>> => Part(r[1]) # 2
    <3> SUFFICES ASSUME r # <<>> PROVE Part(r[1]) # 2
      OBVIOUS
    <3>1. 1 \in 1 .. L - k
      <4>1. Len(r) # 0
        BY <1>5
      <4> QED
        BY <4>1, <1>5, <1>6
    <3>2. r[1] = rbuf[k + 1] /\ k + 1 \in DOMAIN rbuf /\ k \in DOMAIN rbuf
      BY <3>1, <1>4, <1>5, <1>6
    <3>3. Num(rbuf[k + 1]) + k = Num(rbuf[k]) + (k + 1)
      BY <3>2, <2>1
    <3> DEFINE a == Num(rbuf[k])
               b == Num(rbuf[k + 1])
    <3>4. a \in Nat /\ b \in Nat /\ b + k = a + (k + 1) /\ k \in Nat
      BY <3>2, <3>3, <2>1, <1>5
    <3> HIDE DEF a, b
    <3>5. b = a + 1
      BY <3>4
    <3>6. Part(rbuf[k]) = 3
      BY <3>2, <2>1, <1>5, CellTypes
    <3>7. Part(rbuf[k + 1]) = 1
      BY <3>2, <3>5, <3>6, <2>1, NextNumber DEF a, b
    <3> QED
      BY <3>2, <3>7
  <2>7. r = <<>> => Part(cells[statFile][rpos]) # 1
    <3> SUFFICES ASSUME r = <<>> PROVE Part(cells[statFile][rpos]) # 1
      OBVIOUS
    <3>1. k = L
      <4>1. L - k = 0
        BY <1>5
      <4> QED
        BY <4>1, <1>4, <1>5
    <3>2. L \in DOMAIN rbuf /\ rpos - L + L = rpos
      BY <3>1, <1>4, <1>5
    <3>3. rbuf[L] = cells[statFile][rpos] /\ rbuf[L] \in Cells
      BY <3>2, <2>1
    <3> QED
      BY <3>1, <3>3, <1>5, CellTypes
  <2> QED
    BY <2>2, <2>3, <2>4, <2>6, <2>7, <1>1, <1>2, <1>5 DEF Clean
<1>9. Mixed => Mixed'
  <2> SUFFICES ASSUME Mixed, NEW j \in DOMAIN r, LineOf(r[j]) \notin raced
               PROVE  /\ LineOf(r[j]) \in torn
                      /\ \E p \in DOMAIN cells[statFile] : cells[statFile][p] = r[j]
                      /\ \A m \in DOMAIN r : r[m] = r[j] => m = j
    BY <1>1 DEF Mixed
  <2>1. \A m \in DOMAIN r : k + m \in DOMAIN rbuf /\ r[m] = rbuf[k + m]
    BY <1>4, <1>5, <1>6
  <2>2. /\ LineOf(r[j]) \in torn
        /\ \E p \in DOMAIN cells[statFile] : cells[statFile][p] = r[j]
        /\ \A m \in DOMAIN rbuf : rbuf[m] = r[j] => m = k + j
    BY <2>1 DEF Mixed
  <2>3. ASSUME NEW m \in DOMAIN r, r[m] = r[j] PROVE m = j
    <3>1. k + m = k + j
      BY <2>1, <2>2, <2>3
    <3> QED
      BY <3>1, <1>5, <1>6
  <2> QED
    BY <2>2, <2>3
<1>t. TornEnd => TornEnd'
  <2> SUFFICES ASSUME TornEnd, r # <<>>, ~IsNewline(r[Len(r)]) PROVE LineOf(r[Len(r)]) \in torn
    BY <1>1 DEF TornEnd
  <2>1. Len(r) # 0
    BY <1>5
  <2>2. r[Len(r)] = rbuf[k + (L - k)] /\ k + (L - k) = L
    BY <2>1, <1>4, <1>5, <1>6
  <2>3. rbuf # <<>>
    BY <1>4, <1>5
  <2> QED
    BY <2>2, <2>3 DEF TornEnd, L
<1>10. BufferInv'
  BY <1>1, <1>2, <1>3, <1>8, <1>9, <1>t DEF TailOK, BufferInv
<1>11. ASSUME pc' = "send" PROVE SendingInv'
  <2>1. t # <<>> /\ text' = t
    BY <1>2, <1>11 DEF Accepted
  <2>2. ASSUME NEW i \in Lines, Clean, t = <<<<i, 1>>>> PROVE FALSE
    <3>1. k = 2 /\ rbuf[1] = <<i, 1>>
      <4>1. Len(t) = 1 /\ t[1] = <<i, 1>>
        BY <2>2
      <4>2. k = 2
        <5>1. k - 1 = Len(t) /\ k \in Nat
          BY <1>4, <1>5
        <5> QED
          BY <5>1, <4>1
      <4> QED
        BY <4>1, <4>2, <1>5
    <3>2. 1 \in DOMAIN rbuf /\ 2 \in DOMAIN rbuf
      BY <3>1, <1>4, <1>5
    <3>3. /\ Num(rbuf[2]) + 1 = Num(rbuf[1]) + 2 /\ Num(rbuf[1]) \in Nat /\ Num(rbuf[2]) \in Nat
          /\ rbuf[1] \in Cells /\ rbuf[2] \in Cells
      BY <3>2, <2>2, <1>3, CleanCells
    <3> DEFINE a == Num(rbuf[1])
               b == Num(rbuf[2])
    <3>4. b + 1 = a + 2 /\ a \in Nat /\ b \in Nat
      BY <3>3
    <3> HIDE DEF a, b
    <3>5. b = a + 1
      BY <3>4
    <3>6. Part(rbuf[1]) = 1
      BY <3>1 DEF Part
    <3>7. Part(rbuf[2]) = 2
      BY <3>3, <3>5, <3>6, NextNumber DEF a, b
    <3>8. Part(rbuf[2]) = 3
      BY <3>1, <3>3, <1>5, CellTypes
    <3> QED
      BY <3>7, <3>8
  <2>3. MayBeSent(t, r, torn)
    <3>1. Len(t) <= Len(rbuf) /\ \A m \in 1 .. Len(t) : t[m] = rbuf[m] /\ ~IsNewline(rbuf[m])
      BY <1>4, <1>5 DEF L
    <3>2. \A j \in DOMAIN r : \E m \in DOMAIN rbuf : m > Len(t) /\ r[j] = rbuf[m]
      <4>1. \A j \in DOMAIN r : k + j \in DOMAIN rbuf /\ k + j > Len(t) /\ r[j] = rbuf[k + j]
        BY <1>4, <1>5, <1>6
      <4> QED
        BY <4>1
    <3>3. \A i \in Lines : Clean /\ t = <<<<i, 1>>>> => i \in split \cup raced \cup torn
      BY <2>2
    <3> QED
      <4>1. t \in Seq(Cells) /\ t # <<>> /\ Reading
        BY <2>1, <1>3, <1>5
      <4> QED
        BY <3>1, <3>2, <3>3, <4>1, BufferText DEF HeadAndRest
  <2>4. ASSUME NEW i \in Lines, t = <<<<i, 1>>, <<i, 2>>>>, i \notin raced
        PROVE  emitted[i] = 0 /\ Arrived(i)'
    <3>1. PICK p \in DOMAIN cells[statFile] :
                   (handle = statFile => p <= rpos) /\ cells[statFile][p] = <<i, 1>>
      BY <2>3, <2>4 DEF MayBeSent
    <3>2. statFile \in Files
      BY <1>0, <1>3 DEF TailOK, Followed, Parts
    <3>3. Passed(statFile, p)'
      BY <3>1, <1>1, <1>2, <1>3 DEF Passed
    <3> QED
      BY <3>1, <3>2, <3>3, <2>3, <2>4, <1>1 DEF Arrived, MayBeSent
  <2> QED
    BY <2>1, <2>3, <2>4, <1>1 DEF SendingInv, MayBeSent
<1>12. SendingInv'
  BY <1>2, <1>11 DEF SendingInv
<1> QED
  BY <1>1, <1>2, <1>7, <1>10, <1>12, TailTake

(* The last text, which has no newline, at the end of the file or before   *)
(* an error.                                                               *)
LEMMA TailReadEnds ==
    ASSUME ShapeInv, FilesInv, TailOK, ReadLast \/ ReadFails
    PROVE  TailOK'
<1>0. Parts
  BY PartTypes
<1>1. pc = "read" /\ ~HasLine /\ ParseLine(rbuf, TRUE) /\ rbuf' = <<>>
      /\ UNCHANGED <<cells, inode, lastIno, initialSkip, emitted, garbled, split, raced, statFile>>
      /\ torn \subseteq torn' /\ (Available = <<>> \/ LinesIn(rbuf) \subseteq torn')
  BY DEF ReadLast, ReadFails, fsVars, outVars, histVars
<1>2. Polling /\ Reading /\ handle # NoFile
  BY <1>0, <1>1 DEF Polling, Reading, Parts
<1>3. rbuf \in Seq(Cells) /\ DOMAIN rbuf = 1 .. Len(rbuf) /\ Len(rbuf) \in Nat
  BY <1>0 DEF Parts
<1>4. CASE pc' = "wait" /\ lastSize' = newSize
  <2>1. \A i \in Lines : emitted'[i] > 0 /\ i \notin raced => emitted'[i] = 1 /\ Reached(i)
    BY <1>1, ArrivedReached DEF TailOK, ArrivedOnce
  <2>2. garbled' \subseteq split \cup raced \cup torn'
    BY <1>1 DEF TailOK
  <2> QED
    BY <2>1, <2>2, <1>1, <1>2, <1>4, TailFinish
<1>5. CASE /\ pc' = "send" /\ text' = rbuf /\ eof' = TRUE
           /\ UNCHANGED <<handle, rpos, lastSize, newSize>>
           /\ Accepted(rbuf) \/ rbuf # <<>>
  <2>1. rbuf # <<>> /\ Reading'
    BY <1>5 DEF Accepted, Reading
  <2>2. Len(rbuf') = 0 /\ DOMAIN rbuf' = {} /\ LinesIn(rbuf') = {} /\ ToSet(rbuf') = {}
    BY <1>1 DEF LinesIn, ToSet
  <2>3. Clean => Clean'
    <3>1. rpos \in Nat
      BY <1>0 DEF Parts
    <3> QED
      BY <3>1, <2>2, <1>1, <1>5 DEF Clean
  <2>4. BufferInv'
    <3>1. Mixed'
      BY <2>2 DEF Mixed
    <3> QED
      BY <3>1, <2>3, <1>1, <1>2, <1>5 DEF TailOK, BufferInv
  <2>5. ASSUME NEW i \in Lines, Clean, rbuf = <<<<i, 1>>>>
        PROVE  i \in split \cup raced \cup torn'
    <3>1. Len(rbuf) = 1 /\ rbuf[1] = <<i, 1>> /\ 1 \in DOMAIN rbuf
      BY <2>5
    <3>2. /\ statFile \in Files /\ rpos \in Nat /\ rpos - 1 + 1 \in DOMAIN cells[statFile]
          /\ rbuf[1] = cells[statFile][rpos - 1 + 1]
      BY <3>1, <2>5, <1>2, CleanCells
    <3>3. rpos - 1 + 1 = rpos
      BY <3>2
    <3>4. rpos \in DOMAIN cells[statFile] /\ cells[statFile][rpos] = <<i, 1>>
      BY <3>1, <3>2, <3>3
    <3> DEFINE c == cells[statFile][rpos]
    <3>5. /\ c \in Cells /\ Num(c) \in Nat /\ 0 < Num(c) /\ Num(c) <= written /\ written \in Nat
      BY <3>2, <3>4, PlaceTypes, PlaceNumbers DEF FilesInv
    <3>6. Part(c) = 1 /\ LineOf(c) = i /\ ~IsNewline(c)
      BY <3>4 DEF Part, LineOf, IsNewline
    <3>l. LineOf(rbuf[Len(rbuf)]) = i /\ ~IsNewline(rbuf[Len(rbuf)]) /\ LinesIn(rbuf) = {i}
      BY <3>1 DEF LineOf, IsNewline, LinesIn
    <3>a. CASE LinesIn(rbuf) \subseteq torn'
      BY <3>a, <3>l
    <3>b. CASE handle # statFile
      <4>1. CASE TornEnd
        BY <4>1, <3>l, <2>1, <1>1 DEF TornEnd
      <4>2. CASE Mixed
        BY <4>2, <3>1, <3>l, <1>1 DEF Mixed
      <4> QED
        BY <3>b, <4>1, <4>2, <1>2 DEF TailOK, BufferInv
    <3>7. CASE Available = <<>> /\ handle = statFile
      <4>1. Len(cells[statFile]) <= rpos
        BY <3>7, <1>2, AvailableCells
      <4>2. newSize <= Len(cells[statFile]) /\ newSize \in Nat /\ Len(cells[statFile]) \in Nat
        BY <3>2, <1>0, <1>2 DEF TailOK, Followed, Cut, Parts
      <4>3. newSize <= rpos
        BY <4>1, <4>2, <3>2
      <4>4. CASE Num(c) < written
        BY <3>4, <3>6, <4>3, <4>4, <1>2, RestIsRaced
      <4>5. CASE Num(c) = written
        <5>1. written \in 1 .. 3 * MaxLines
          BY <3>5, <4>5, <1>0 DEF Parts
        <5>2. CellNo(written) \in Cells /\ Num(CellNo(written)) = Num(c)
          BY <5>1, <4>5, NumOfCell
        <5>3. CellNo(written) = c
          BY <5>2, <3>5, SameNumber
        <5> QED
          BY <5>1, <5>3, <3>6 DEF FilesInv, HalvesAreSplit
      <4> HIDE DEF c
      <4> QED
        BY <4>4, <4>5, <3>5
    <3> QED
      BY <3>a, <3>b, <3>7, <1>1
  <2>6. MayBeSent(rbuf, rbuf', torn')
    <3>1. /\ Len(rbuf) <= Len(rbuf) /\ rbuf \in Seq(Cells) /\ rbuf # <<>>
          /\ \A m \in 1 .. Len(rbuf) : ~IsNewline(rbuf[m])
      BY <2>1, <1>1, <1>3 DEF HasLine
    <3>2. \A j \in DOMAIN rbuf' : \E m \in DOMAIN rbuf : m > Len(rbuf) /\ rbuf'[j] = rbuf[m]
      BY <2>2
    <3>3. HeadAndRest(rbuf, rbuf', torn')
      BY <3>1, <3>2, <2>5 DEF HeadAndRest
    <3> QED
      BY <3>3, <1>1, <1>2, BufferText
  <2>7. ASSUME NEW i \in Lines, rbuf = <<<<i, 1>>, <<i, 2>>>>, i \notin raced
        PROVE  emitted[i] = 0 /\ Arrived(i)'
    <3>1. PICK p \in DOMAIN cells[statFile] :
                   (handle = statFile => p <= rpos) /\ cells[statFile][p] = <<i, 1>>
      BY <2>6, <2>7 DEF MayBeSent
    <3>2. statFile \in Files
      BY <1>0, <1>2 DEF TailOK, Followed, Parts
    <3>3. Passed(statFile, p)'
      BY <3>1, <1>1, <1>5, <2>1 DEF Passed
    <3> QED
      BY <3>1, <3>2, <3>3, <2>2, <2>6, <2>7, <1>1 DEF Arrived, MayBeSent
  <2>8. SendingInv'
    BY <2>6, <2>7, <1>1, <1>5 DEF SendingInv, MayBeSent
  <2> QED
    BY <2>2, <2>4, <2>8, <1>1, <1>5, TailTake
<1> QED
  BY <1>1, <1>4, <1>5 DEF ParseLine, Advance

(* The sample arrives at out.                                              *)
LEMMA TailSend ==
    ASSUME ShapeInv, FilesInv, TailOK, SendSample
    PROVE  TailOK'
<1>0. Parts
  BY PartTypes
<1>1. pc = "send" /\ UNCHANGED <<cells, inode, lastIno, initialSkip, split, raced, torn, statFile>>
  BY DEF SendSample, fsVars, histVars
<1>2. Polling /\ Reading
  BY <1>1 DEF Polling, Reading
<1>3. garbled' \subseteq split \cup raced \cup torn
  BY <1>1 DEF SendSample, TailOK, SendingInv
<1>4. ASSUME NEW i \in Lines, emitted'[i] > 0, i \notin raced
      PROVE  emitted'[i] = 1 /\ Arrived(i)
  <2>1. emitted'[i] = IF Accepted(text) /\ LineOf(text[1]) = i THEN emitted[i] + 1 ELSE emitted[i]
    BY DEF SendSample
  <2>2. CASE Accepted(text) /\ LineOf(text[1]) = i
    <3>1. PICK j \in Valid : text = <<<<j, 1>>, <<j, 2>>>>
      BY <2>2 DEF Accepted
    <3>2. LineOf(text[1]) = j
      BY <3>1 DEF LineOf
    <3>3. text = <<<<i, 1>>, <<i, 2>>>>
      BY <3>1, <3>2, <2>2
    <3>4. emitted[i] = 0 /\ Arrived(i)
      BY <3>3, <1>1, <1>4 DEF TailOK, SendingInv
    <3> QED
      BY <3>4, <2>1, <2>2
  <2>3. CASE ~(Accepted(text) /\ LineOf(text[1]) = i)
    BY <2>1, <2>3, <1>4 DEF TailOK, ArrivedOnce
  <2> QED
    BY <2>2, <2>3
<1>5. CASE eof
  <2>1. pc' = "wait" /\ lastSize' = newSize /\ rbuf' = <<>>
    BY <1>5 DEF SendSample, Finish, Advance
  <2>2. \A i \in Lines : emitted'[i] > 0 /\ i \notin raced => emitted'[i] = 1 /\ Reached(i)
    BY <1>4, ArrivedReached
  <2> QED
    BY <2>1, <2>2, <1>1, <1>2, <1>3, TailFinish
<1>6. CASE ~eof
  <2>1. pc' = "read" /\ UNCHANGED <<lastSize, newSize, handle, rpos, rbuf, eof>>
    BY <1>6 DEF SendSample
  <2>2. Polling' /\ Reading' /\ pc' # "send"
    BY <2>1 DEF Polling, Reading
  <2>3. Followed' /\ BehindStat' /\ SendingInv'
    BY <1>1, <1>2, <2>1, <2>2 DEF TailOK, Followed, BehindStat, SendingInv, Cut
  <2>4. BufferInv'
    BY <1>1, <1>2, <2>1 DEF TailOK, BufferInv, Clean, TornEnd, Mixed
  <2>5. \A i \in Lines : Arrived(i) => Arrived(i)'
    BY <1>1, <1>2, <2>1, <2>2 DEF Arrived, Passed
  <2>6. ArrivedOnce'
    BY <1>1, <1>4, <2>5 DEF ArrivedOnce
  <2> QED
    BY <1>1, <1>3, <2>3, <2>4, <2>6 DEF TailOK
<1> QED
  BY <1>5, <1>6

LEMMA TailSendStopped ==
    ASSUME ShapeInv, TailOK, SendStopped
    PROVE  TailOK'
<1>1. /\ Polling /\ pc' = "wait" /\ lastSize' = newSize /\ rbuf' = <<>>
      /\ UNCHANGED <<cells, inode, lastIno, initialSkip, split, raced, torn, statFile, emitted, garbled>>
  BY DEF SendStopped, Finish, Advance, Polling, fsVars, outVars, histVars
<1>2. \A i \in Lines : emitted'[i] > 0 /\ i \notin raced => emitted'[i] = 1 /\ Reached(i)
  BY <1>1, ArrivedReached DEF TailOK, ArrivedOnce
<1>3. garbled' \subseteq split \cup raced \cup torn
  BY <1>1 DEF TailOK
<1> QED
  BY <1>1, <1>2, <1>3, TailFinish
-----------------------------------------------------------------------------
(* Every step, unless the tailer has been misled.                          *)
LEMMA TailStep ==
    ASSUME ShapeInv, FilesInv, TailInv, [TailerNext]_vars
    PROVE  TailInv'
<1> SUFFICES ASSUME taints' = {} PROVE TailOK'
  BY DEF TailInv
<1>1. CASE UNCHANGED vars
  <2>1. /\ UNCHANGED <<cells, inode, written, pc, lastSize, lastIno, initialSkip, newSize, handle>>
        /\ UNCHANGED <<rpos, rbuf, text, eof, emitted, garbled, split, raced, torn, taints, statFile>>
    BY <1>1 DEF vars, fsVars, pollVars, readVars, outVars, histVars
  <2>2. (Polling' <=> Polling) /\ (Reading' <=> Reading)
    BY <2>1 DEF Polling, Reading
  <2>3. TailOK
    BY <2>1 DEF TailInv
  <2>4. Followed' /\ BehindStat' /\ BufferInv' /\ SendingInv' /\ ArrivedOnce'
    <3>1. Followed' /\ BehindStat'
      BY <2>1, <2>2, <2>3 DEF TailOK, Followed, BehindStat, Cut
    <3>2. BufferInv'
      BY <2>1, <2>2, <2>3 DEF TailOK, BufferInv, Clean, TornEnd, Mixed
    <3>3. \A i \in Lines : Arrived(i) => Arrived(i)'
      BY <2>1, <2>2 DEF Arrived, Passed
    <3>4. SendingInv' /\ ArrivedOnce'
      BY <2>1, <2>3, <3>3 DEF TailOK, SendingInv, ArrivedOnce
    <3> QED
      BY <3>1, <3>2, <3>4
  <2> QED
    BY <2>1, <2>3, <2>4 DEF TailOK
<1>2. CASE Program
  <2>1. TailOK
    BY <1>2 DEF Program, TailInv
  <2> QED
    BY <1>2, <2>1, TailWrite, TailRotate, SizesAre DEF Program
<1>3. CASE Cancel
  <2>1. TailOK
    BY <1>3 DEF Cancel, histVars, TailInv
  <2> QED
    BY <1>3, <2>1, TailRotate
<1>4. CASE TailerStep
  <2>1. CASE StatSkips \/ StatFindsNothing \/ StatFindsMore
    <3>1. Statted
      BY <2>1 DEF StatSkips, StatFindsNothing, StatFindsMore
    <3>2. taints = {} /\ ~Unnoticeable
      BY <3>1 DEF Statted
    <3> QED
      BY <2>1, <3>2, TailStat DEF TailInv
  <2>2. CASE StatFails \/ Tick \/ Return
    <3>1. TailOK
      BY <2>2 DEF StatFails, Tick, Return, histVars, TailInv
    <3> QED
      BY <2>2, <3>1, TailQuiet
  <2>3. CASE OpenFails \/ OpenAndSeek
    <3>1. TailOK
      BY <2>3 DEF OpenFails, OpenAndSeek, TailInv
    <3> QED
      BY <2>3, <3>1, TailOpenFails, TailOpen
  <2>4. CASE FillBuffer \/ ReadLine \/ ReadLast \/ ReadFails
    <3>1. TailOK
      BY <2>4 DEF FillBuffer, ReadLine, ReadLast, ReadFails, histVars, TailInv
    <3> QED
      BY <2>4, <3>1, TailFill, TailReadLine, TailReadEnds
  <2>5. CASE SendSample \/ SendStopped
    <3>1. TailOK
      BY <2>5 DEF SendSample, SendStopped, histVars, TailInv
    <3> QED
      BY <2>5, <3>1, TailSend, TailSendStopped
  <2> QED
    BY <1>4, <2>1, <2>2, <2>3, <2>4, <2>5 DEF TailerStep
<1> QED
  BY <1>1, <1>2, <1>3, <1>4 DEF TailerNext

LEMMA TailInvariant == TailerSpec => [](ShapeInv /\ FilesInv /\ TailInv)
<1>1. TailerInit => FilesInv /\ TailInv
  BY FilesInit, TailInit DEF TailInv
<1>2. ShapeInv /\ FilesInv /\ TailInv /\ [TailerNext]_vars => FilesInv' /\ TailInv'
  BY FilesStep, TailStep
<1> QED
  BY <1>1, <1>2, ShapeInvariant, PTL DEF TailerSpec

(* A line that was not written during a poll is sent at most once, over    *)
(* any number of polls, rotations and truncations that inode and size      *)
(* show: the offset of Run, the seek and the buffered reads of             *)
(* readNewLines never go over the same line again. A piece of a line is    *)
(* sent only of one written during a poll, seen half written, or of which  *)
(* the reader held a part when the file was truncated under it or a fill   *)
(* failed. Fills of the reader end anywhere.                               *)
THEOREM LinesArriveOnce == TailerSpec => []NoDuplicates
<1>1. ShapeInv /\ TailInv => NoDuplicates
  <2> SUFFICES ASSUME ShapeInv, TailOK, NEW i \in Lines, emitted[i] > 1, i \notin raced
               PROVE  FALSE
    BY DEF TailInv, TailOK, NoDuplicates
  <2>1. emitted[i] \in Nat
    BY PartTypes DEF Parts
  <2>2. emitted[i] > 0
    BY <2>1
  <2>3. emitted[i] = 1
    BY <2>2 DEF TailOK, ArrivedOnce
  <2> QED
    BY <2>3
<1> QED
  BY <1>1, TailInvariant, PTL
-----------------------------------------------------------------------------
(* The path still names the file of the last Stat.                         *)
Following == path = statFile /\ path # NoFile

(* What the tailer has taken from that file, or counts as taken.           *)
Consumed(p) == IF Reading THEN p <= rpos - Len(rbuf) ELSE p <= lastSize

(* A valid line whose text was consumed has arrived or is being sent.      *)
ConsumedArrives ==
    \A i \in Valid \ (base \cup split \cup raced \cup missed) : \A p \in DOMAIN cells[statFile] :
        cells[statFile][p] = <<i, 2>> /\ Consumed(p) =>
            emitted[i] > 0 \/ (pc = "send" /\ text = <<<<i, 1>>, <<i, 2>>>>)

(* What a read leaves unread at its end is known to be missed.             *)
RestMissed ==
    \A p \in DOMAIN cells[statFile] :
        rpos < p /\ p <= newSize => LineOf(cells[statFile][p]) \in missed

ReadOK ==
    Following /\ ~stopped =>
        ConsumedArrives /\ (pc = "send" /\ eof => RestMissed /\ rbuf = <<>>)

ReadInv == taints = {} => ReadOK

LEMMA HandleFollows ==
    ASSUME ShapeInv, TailOK, Following, Reading
    PROVE  handle = statFile /\ Clean
<1>0. Parts /\ FilesInOrder
  BY PartTypes DEF ShapeInv
<1>1. handle # NoFile /\ handle \in Nat /\ statFile \in Nat /\ handle \in Files /\ Used(handle)
  BY <1>0 DEF Parts, FilesInOrder, Reading
<1>2. statFile <= handle /\ ~(statFile < handle)
  BY <1>0, <1>1 DEF TailOK, Followed, Following, FilesInOrder
<1>3. handle = statFile
  BY <1>1, <1>2
<1> QED
  BY <1>3 DEF TailOK, BufferInv

(* New cells lie behind all that was read or counted.                      *)
LEMMA ReadWrite ==
    ASSUME ShapeInv, TailOK, ReadOK, NEW n \in 1 .. 3, WriteCells(n)
    PROVE  ReadOK'
<1> SUFFICES ASSUME Following', ~stopped' PROVE ReadOK'
  BY DEF ReadOK
<1>0. Parts
  BY PartTypes
<1>1. UNCHANGED <<path, pc, lastSize, newSize, rpos, rbuf, text, eof, stopped, emitted, base, statFile>>
  BY DEF WriteCells, pollVars, readVars, outVars
<1>2. Following /\ ConsumedArrives /\ (pc = "send" /\ eof => RestMissed /\ rbuf = <<>>)
  BY <1>1 DEF Following, ReadOK
<1>3. /\ path \in Files /\ statFile = path /\ DOMAIN cells[path] = 1 .. Len(cells[path])
      /\ Len(cells[path]) \in Nat /\ rpos \in Nat /\ Len(rbuf) \in Nat /\ lastSize \in Nat
      /\ split \subseteq split' /\ raced \subseteq raced' /\ missed' = missed
      /\ cells'[path] \in Seq(Cells)
      /\ \A p \in 1 .. Len(cells[path]) : cells'[path][p] = cells[path][p]
  <2>1. /\ path \in Files /\ cells' \in [Files -> Seq(Cells)]
        /\ \A p \in 1 .. Len(cells[path]) : cells'[path][p] = cells[path][p]
        /\ split \subseteq split' /\ raced \subseteq raced' /\ missed' = missed
    BY WrittenCells
  <2>2. cells[path] \in Seq(Cells) /\ rbuf \in Seq(Cells) /\ rpos \in Nat /\ lastSize \in Nat
    BY <1>0, <2>1 DEF Parts
  <2> QED
    BY <1>2, <2>1, <2>2 DEF Following
<1>4. ASSUME NEW p \in DOMAIN cells'[path], Consumed(p)
      PROVE  p \in DOMAIN cells[path]
  <2>1. p \in Nat /\ 0 < p
    BY <1>3
  <2>2. CASE Reading
    <3>1. rpos <= Len(cells[path])
      BY <2>2, <1>2, <1>3, HandleFollows DEF Clean
    <3>2. p <= rpos - Len(rbuf)
      BY <2>2, <1>4 DEF Consumed
    <3> QED
      BY <3>1, <3>2, <2>1, <1>3
  <2>3. CASE ~Reading
    <3>1. p <= lastSize /\ lastSize <= Len(cells[path])
      BY <2>3, <1>2, <1>4, <1>3 DEF Consumed, TailOK, Followed, Cut, Following
    <3> QED
      BY <3>1, <2>1, <1>3
  <2> QED
    BY <2>2, <2>3
<1>5. \A p : Consumed(p)' <=> Consumed(p)
  BY <1>1 DEF Consumed, Reading
<1>6. ConsumedArrives'
  BY <1>1, <1>2, <1>3, <1>4, <1>5 DEF ConsumedArrives
<1>7. pc = "send" /\ RestMissed => RestMissed'
  <2> SUFFICES ASSUME pc = "send", RestMissed, NEW p \in DOMAIN cells'[path], rpos < p, p <= newSize
               PROVE  LineOf(cells'[path][p]) \in missed
    BY <1>1, <1>3 DEF RestMissed
  <2>1. newSize <= Len(cells[path]) /\ newSize \in Nat
    BY <1>0, <1>2, <1>3 DEF TailOK, Followed, Cut, Polling, Following, Parts
  <2>2. p \in 1 .. Len(cells[path])
    BY <2>1, <1>3
  <2> QED
    BY <2>2, <1>3 DEF RestMissed
<1> QED
  BY <1>1, <1>2, <1>6, <1>7 DEF ReadOK

(* A file that was exchanged is not followed any more.                     *)
LEMMA ReadRotate ==
    ASSUME ShapeInv, TakeAway \/ \E f \in Files : Truncate(f) \/ \E n \in Inodes : Create(f, n)
    PROVE  ~Following'
<1>0. Parts /\ FilesInOrder
  BY PartTypes DEF ShapeInv
<1>1. CASE TakeAway
  BY <1>1 DEF TakeAway, Following
<1>2. ASSUME NEW f \in Files, Unused(f), path' = f, statFile' = statFile PROVE ~Following'
  <2>1. ~Used(f) /\ f # NoFile
    BY <1>0, <1>2 DEF Unused, Used, Parts
  <2>2. f # statFile
    BY <2>1, <1>0 DEF FilesInOrder
  <2> QED
    BY <2>2, <1>2 DEF Following
<1>3. \A f \in Files : Truncate(f) => Unused(f) /\ path' = f /\ statFile' = statFile
  BY DEF Truncate, histVars
<1>4. \A f \in Files, n \in Inodes : Create(f, n) => Unused(f) /\ path' = f /\ statFile' = statFile
  BY DEF Create, histVars
<1> QED
  BY <1>1, <1>2, <1>3, <1>4

(* A Stat counts nothing as taken that was not, unless it skips the file.  *)
LEMMA ReadStat ==
    ASSUME ShapeInv, TailOK, ReadOK, StatSkips \/ StatFindsNothing \/ StatFindsMore,
           ~Unnoticeable
    PROVE  ReadOK'
<1> SUFFICES ASSUME ~stopped' PROVE ReadOK'
  BY DEF ReadOK
<1>0. Parts
  BY PartTypes
<1>1. /\ path # NoFile /\ pc = "stat" /\ statFile' = path /\ pc' \in {"wait", "open"}
      /\ UNCHANGED <<path, cells, emitted, split, raced, missed, stopped>>
  BY DEF StatSkips, StatFindsNothing, StatFindsMore, Statted, fsVars, outVars
<1>2. path \in Files /\ Len(cells[path]) \in Nat /\ Content = cells[path] /\ lastSize \in Nat
  BY <1>0, <1>1 DEF Parts, Content
<1>3. ~Reading /\ ~Reading' /\ pc' # "send"
  BY <1>1 DEF Reading
<1>4. ASSUME NEW i \in Valid, i \notin base' \cup split \cup raced \cup missed,
             NEW p \in DOMAIN cells[path], cells[path][p] = <<i, 2>>, p <= lastSize'
      PROVE  emitted[i] > 0
  <2>1. CASE StatSkips
    <3>1. base' = LinesIn(cells[path])
      BY <2>1, <1>2 DEF StatSkips
    <3>2. cells[path] \in Seq(Cells) /\ p \in 1 .. Len(cells[path]) /\ LineOf(cells[path][p]) = i
      BY <1>0, <1>2, <1>4 DEF Parts, LineOf
    <3> QED
      BY <3>1, <3>2, <1>4 DEF LinesIn
  <2>2. CASE ~StatSkips /\ path = statFile
    <3>1. lastIno = inode[path] /\ lastSize <= Len(cells[path])
      BY <2>2, <1>1 DEF TailOK, Followed, Cut
    <3>2. lastSize' = lastSize /\ base' = base
      BY <2>2, <3>1, <1>2 DEF Rotated, StartsAt, StatFindsNothing, StatFindsMore
    <3>3. ConsumedArrives
      BY <2>2, <1>1 DEF ReadOK, Following
    <3>4. i \in Valid \ (base \cup split \cup raced \cup missed)
      BY <3>2, <1>1, <1>4
    <3> QED
      BY <3>2, <3>3, <3>4, <2>2, <1>1, <1>3, <1>4 DEF ConsumedArrives, Consumed
  <2>3. CASE ~StatSkips /\ path # statFile
    <3>1. inode[path] # lastIno \/ Len(Content) < lastSize
      BY <2>3, <1>2 DEF Unnoticeable
    <3>2. lastSize' = 0
      BY <2>3, <3>1 DEF Rotated, StartsAt, StatFindsNothing, StatFindsMore
    <3>3. p \in 1 .. Len(cells[path])
      BY <1>0, <1>2 DEF Parts
    <3> QED
      BY <3>2, <3>3, <1>2, <1>4
  <2> QED
    BY <2>1, <2>2, <2>3
<1>5. ConsumedArrives'
  BY <1>1, <1>3, <1>4 DEF ConsumedArrives, Consumed
<1> QED
  BY <1>3, <1>5 DEF ReadOK

(* The second half of a line in the text of a line is that of a whole one. *)
LEMMA TextConsumed ==
    ASSUME ShapeInv, FilesInv, TailOK, Reading, Clean, NEW t \in Seq(Cells),
           Len(t) <= Len(rbuf), \A m \in 1 .. Len(t) : t[m] = rbuf[m] /\ ~IsNewline(rbuf[m]),
           NEW i \in Lines, i \notin split, NEW k \in 1 .. Len(t), rbuf[k] = <<i, 2>>
    PROVE  t = <<<<i, 1>>, <<i, 2>>>>
<1>0. rbuf \in Seq(Cells)
  BY PartTypes DEF Parts
<1>1. /\ DOMAIN rbuf = 1 .. Len(rbuf) /\ Len(rbuf) \in Nat /\ Len(t) \in Nat /\ DOMAIN t = 1 .. Len(t)
      /\ \A m \in DOMAIN t : m \in DOMAIN rbuf /\ t[m] = rbuf[m] /\ ~IsNewline(t[m])
  BY <1>0
<1>2. \A m, j \in DOMAIN t : Num(t[j]) + m = Num(t[m]) + j
  BY <1>1, CleanCells
<1>3. t[k] = <<i, 2>> /\ t # <<>>
  BY <1>1
<1>4. PICK n \in Lines : t \in {<<<<n, 1>>>>, <<<<n, 2>>>>, <<<<n, 1>>, <<n, 2>>>>}
  BY <1>1, <1>2, <1>3, Piece
<1>5. CASE t = <<<<n, 1>>>>
  <2>1. k = 1 /\ t[1] = <<n, 1>>
    BY <1>5
  <2> QED
    BY <2>1, <1>3
<1>6. CASE t = <<<<n, 2>>>>
  <2>1. k = 1
    BY <1>6
  <2>2. rbuf[1] = <<i, 2>> /\ rbuf # <<>>
    BY <2>1, <1>1
  <2> QED
    BY <2>2 DEF Clean, Part, LineOf
<1>7. CASE t = <<<<n, 1>>, <<n, 2>>>>
  <2>1. k \in {1, 2} /\ t[1] = <<n, 1>> /\ t[2] = <<n, 2>>
    BY <1>7
  <2>2. n = i
    BY <2>1, <1>3
  <2> QED
    BY <2>2, <1>7
<1> QED
  BY <1>4, <1>5, <1>6, <1>7

(* Steps that leave alone what the tailer has consumed.                    *)
LEMMA ReadSame ==
    ASSUME ReadOK, UNCHANGED <<path, cells, emitted, base, split, raced, missed, statFile>>,
           stopped' = stopped, pc # "send", pc' # "send",
           \A p : Consumed(p)' <=> Consumed(p)
    PROVE  ReadOK'
  BY DEF ReadOK, Following, ConsumedArrives

LEMMA ReadOpenFill ==
    ASSUME ShapeInv, TailOK, ReadOK, OpenAndSeek \/ FillBuffer
    PROVE  ReadOK'
<1>0. Parts
  BY PartTypes
<1>1. CASE OpenAndSeek
  <2>1. /\ UNCHANGED <<path, cells, emitted, base, split, raced, missed, statFile, stopped, lastSize, rbuf>>
        /\ pc = "open" /\ pc' = "read" /\ rpos' = lastSize
    BY <1>1 DEF OpenAndSeek, fsVars, pollVars, outVars
  <2>2. Reading' /\ ~Reading /\ Len(rbuf) = 0 /\ lastSize \in Nat
    BY <2>1, <1>0 DEF Reading, TailOK, Followed, Parts
  <2>3. \A p : Consumed(p)' <=> Consumed(p)
    BY <2>1, <2>2 DEF Consumed
  <2> QED
    BY <2>1, <2>3, ReadSame
<1>2. CASE FillBuffer
  <2>1. /\ UNCHANGED <<path, cells, emitted, base, split, raced, missed, statFile, stopped, pc, lastSize>>
        /\ pc = "read"
    BY <1>2 DEF FillBuffer, fsVars, pollVars, outVars, histVars
  <2>2. PICK u \in Seq(Cells) : Len(u) \in Nat /\ rbuf' = rbuf \o u /\ rpos' = rpos + Len(u)
    BY <1>2, Filled
  <2>3. rpos' - Len(rbuf') = rpos - Len(rbuf)
    <3>1. rbuf \in Seq(Cells) /\ rpos \in Nat /\ Len(rbuf) \in Nat
      BY <1>0 DEF Parts
    <3>2. Len(rbuf') = Len(rbuf) + Len(u)
      BY <3>1, <2>2, Joined
    <3> QED
      BY <3>1, <3>2, <2>2
  <2>4. \A p : Consumed(p)' <=> Consumed(p)
    BY <2>1, <2>3 DEF Consumed, Reading
  <2> QED
    BY <2>1, <2>4, ReadSame
<1> QED
  BY <1>1, <1>2

(* A cell of the buffer, by its place in the file.                         *)
LEMMA InBuffer ==
    ASSUME ShapeInv, FilesInv, TailOK, Reading, Clean, NEW p \in DOMAIN cells[statFile],
           ~Consumed(p), p <= rpos
    PROVE  /\ p - (rpos - Len(rbuf)) \in 1 .. Len(rbuf)
           /\ rbuf[p - (rpos - Len(rbuf))] = cells[statFile][p]
<1>1. /\ rpos \in Nat /\ Len(rbuf) \in Nat /\ DOMAIN rbuf = 1 .. Len(rbuf)
      /\ \A i \in DOMAIN rbuf : rbuf[i] = cells[statFile][rpos - Len(rbuf) + i]
      /\ cells[statFile] \in Seq(Cells)
  BY CleanCells
<1>2. p \in Nat /\ ~(p <= rpos - Len(rbuf))
  BY <1>1 DEF Consumed
<1> DEFINE i == p - (rpos - Len(rbuf))
<1>3. i \in 1 .. Len(rbuf) /\ rpos - Len(rbuf) + i = p
  BY <1>1, <1>2
<1> QED
  BY <1>1, <1>3

LEMMA ReadTakeLine ==
    ASSUME ShapeInv, FilesInv, TailOK, ReadOK, ReadLine
    PROVE  ReadOK'
<1> SUFFICES ASSUME Following', ~stopped' PROVE ReadOK'
  BY DEF ReadOK
<1>0. Parts
  BY PartTypes
<1> DEFINE k == Min({i \in 1 .. Len(rbuf) : IsNewline(rbuf[i])})
           t == SubSeq(rbuf, 1, k - 1)
           r == SubSeq(rbuf, k + 1, Len(rbuf))
           L == Len(rbuf)
<1>1. pc = "read" /\ HasLine /\ ParseLine(t, FALSE) /\ rbuf' = r
      /\ UNCHANGED <<path, cells, emitted, base, split, raced, missed, statFile, stopped>>
  BY DEF ReadLine, fsVars, outVars, histVars
<1>2. /\ pc' \in {"read", "send"} /\ UNCHANGED <<lastSize, newSize, handle, rpos>> /\ ~eof'
      /\ (pc' = "send" /\ text' = t) \/ ~Accepted(t)
  BY <1>0, <1>1 DEF ParseLine, Parts
<1>3. Following /\ Reading /\ Reading' /\ ConsumedArrives
  BY <1>1, <1>2 DEF Following, Reading, ReadOK
<1>4. handle = statFile /\ Clean
  BY <1>3, HandleFollows
<1>5. /\ rbuf \in Seq(Cells) /\ L \in Nat /\ rpos \in Nat /\ statFile \in Files
      /\ cells[statFile] \in Seq(Cells)
  BY <1>0, <1>3, <1>4, CleanCells DEF Parts
<1>6. /\ k \in 1 .. L /\ IsNewline(rbuf[k]) /\ \A i \in 1 .. k - 1 : ~IsNewline(rbuf[i])
      /\ t \in Seq(Cells) /\ Len(t) = k - 1 /\ \A i \in 1 .. k - 1 : t[i] = rbuf[i]
      /\ Len(r) = L - k
  BY <1>1, <1>5, FirstNewline DEF HasLine
<1> HIDE DEF k, t, r
<1>7. ASSUME NEW i \in Valid, i \notin base \cup split \cup raced \cup missed, NEW p \in DOMAIN cells[statFile],
             cells[statFile][p] = <<i, 2>>, Consumed(p)'
      PROVE  emitted[i] > 0 \/ (pc' = "send" /\ text' = <<<<i, 1>>, <<i, 2>>>>)
  <2>1. CASE Consumed(p)
    <3>1. i \in Valid \ (base \cup split \cup raced \cup missed)
      BY <1>7
    <3> QED
      BY <2>1, <3>1, <1>1, <1>3, <1>7 DEF ConsumedArrives
  <2>2. CASE ~Consumed(p)
    <3>1. p <= rpos - (L - k) /\ p \in Nat
      BY <1>1, <1>2, <1>3, <1>5, <1>6, <1>7 DEF Consumed
    <3>2. p <= rpos
      BY <3>1, <1>5, <1>6
    <3> DEFINE m == p - (rpos - L)
    <3>3. m \in 1 .. L /\ rbuf[m] = <<i, 2>>
      BY <2>2, <3>2, <1>3, <1>4, <1>7, InBuffer
    <3>4. m <= k
      BY <3>1, <1>5, <1>6
    <3> HIDE DEF m
    <3>5. m # k
      BY <3>3, <1>6 DEF IsNewline
    <3>6. m \in 1 .. Len(t)
      BY <3>3, <3>4, <3>5, <1>5, <1>6
    <3>7. i \in Lines /\ i \notin split
      BY <1>7, TailerConstants
    <3>8. Len(t) <= Len(rbuf) /\ \A j \in 1 .. Len(t) : t[j] = rbuf[j] /\ ~IsNewline(rbuf[j])
      BY <1>5, <1>6
    <3>9. t = <<<<i, 1>>, <<i, 2>>>>
      BY <3>3, <3>6, <3>7, <3>8, <1>3, <1>4, <1>6, TextConsumed
    <3> QED
      BY <3>9, <1>2, <1>7 DEF Accepted
  <2> QED
    BY <2>1, <2>2
<1>8. ConsumedArrives'
  BY <1>1, <1>7 DEF ConsumedArrives
<1> QED
  BY <1>2, <1>8 DEF ReadOK

LEMMA ReadTakeEnds ==
    ASSUME ShapeInv, FilesInv, TailOK, ReadOK, ReadLast \/ ReadFails
    PROVE  ReadOK'
<1> SUFFICES ASSUME Following', ~stopped' PROVE ReadOK'
  BY DEF ReadOK
<1>0. Parts
  BY PartTypes
<1>1. /\ pc = "read" /\ ~HasLine /\ ParseLine(rbuf, TRUE) /\ rbuf' = <<>>
      /\ UNCHANGED <<path, cells, emitted, base, split, raced, statFile, stopped>>
      /\ missed \subseteq missed' /\ (Available = <<>> \/ Unread \subseteq missed')
  BY DEF ReadLast, ReadFails, fsVars, outVars, histVars
<1>2. \/ pc' = "send" /\ text' = rbuf /\ UNCHANGED <<rpos, newSize>>
      \/ ~Accepted(rbuf) /\ pc' = "wait" /\ lastSize' = newSize
  BY <1>1 DEF ParseLine, Advance
<1>3. Following /\ Reading /\ Polling /\ ConsumedArrives
  BY <1>1 DEF Following, Reading, Polling, ReadOK
<1>4. handle = statFile /\ Clean /\ handle # NoFile
  BY <1>0, <1>3, HandleFollows DEF Parts, Reading
<1>5. /\ rbuf \in Seq(Cells) /\ Len(rbuf) \in Nat /\ rpos \in Nat /\ newSize \in Nat
      /\ statFile \in Files /\ cells[statFile] \in Seq(Cells) /\ Len(cells[statFile]) \in Nat
      /\ newSize <= Len(cells[statFile]) /\ rpos - Len(rbuf) \in Nat
  BY <1>0, <1>3, <1>4, CleanCells DEF Parts, TailOK, Followed, Cut
<1>6. ASSUME NEW p \in DOMAIN cells[statFile], rpos < p, p <= newSize
      PROVE  LineOf(cells[statFile][p]) \in missed'
  <2>0. p \in Nat
    BY <1>5
  <2>1. CASE Available = <<>>
    <3>1. Len(cells[statFile]) <= rpos
      BY <2>1, <1>4, AvailableCells
    <3> QED
      BY <3>1, <2>0, <1>5, <1>6
  <2>2. CASE Unread \subseteq missed'
    <3> DEFINE o == rpos - Len(rbuf)
               w == SubSeq(cells[statFile], o + 1, newSize)
    <3>1. Min({newSize, Len(cells[statFile])}) = newSize
      <4>1. {newSize, Len(cells[statFile])} \in SUBSET Nat /\ {newSize, Len(cells[statFile])} # {}
        BY <1>5
      <4>2. /\ Min({newSize, Len(cells[statFile])}) \in {newSize, Len(cells[statFile])}
            /\ \A n \in {newSize, Len(cells[statFile])} : Min({newSize, Len(cells[statFile])}) <= n
        BY <4>1, LeastIsMin
      <4> QED
        BY <4>2, <1>5
    <3>2. LinesIn(w) \subseteq missed'
      BY <2>2, <3>1, <1>4 DEF Unread
    <3>3. o \in Nat /\ o < p /\ o + 1 \in 1 .. newSize + 1 /\ p - o \in 1 .. newSize - o
      BY <2>0, <1>5, <1>6
    <3> HIDE DEF o
    <3>4. Len(w) = newSize - o /\ \A m \in 1 .. newSize - o : w[m] = cells[statFile][o + m]
      BY <3>3, <1>5
    <3> HIDE DEF w
    <3>6. o + (p - o) = p
      BY <2>0, <3>3
    <3>5. w[p - o] = cells[statFile][p] /\ p - o \in 1 .. Len(w)
      BY <3>3, <3>4, <3>6
    <3> QED
      BY <3>2, <3>5 DEF LinesIn
  <2> QED
    BY <2>1, <2>2, <1>1
<1>8. ASSUME NEW i \in Valid, i \notin base \cup split \cup raced \cup missed',
             NEW p \in DOMAIN cells[statFile], cells[statFile][p] = <<i, 2>>, Consumed(p)'
      PROVE  emitted[i] > 0 \/ (pc' = "send" /\ text' = <<<<i, 1>>, <<i, 2>>>>)
  <2>0. p \in Nat /\ Len(rbuf') = 0 /\ LineOf(cells[statFile][p]) = i
    BY <1>1, <1>5, <1>8 DEF LineOf
  <2>1. CASE Consumed(p)
    <3>1. i \in Valid \ (base \cup split \cup raced \cup missed)
      BY <1>1, <1>8
    <3> QED
      BY <2>1, <3>1, <1>1, <1>3, <1>8 DEF ConsumedArrives
  <2>2. CASE ~Consumed(p)
    <3>1. p <= rpos
      <4>1. CASE pc' = "send" /\ rpos' = rpos
        BY <4>1, <2>0, <1>5, <1>8 DEF Consumed, Reading
      <4>2. CASE pc' = "wait" /\ lastSize' = newSize
        <5>1. p <= newSize
          BY <4>2, <1>8 DEF Consumed, Reading
        <5>2. ~(rpos < p)
          BY <5>1, <2>0, <1>6, <1>8
        <5> QED
          BY <5>2, <2>0, <1>5
      <4> QED
        BY <4>1, <4>2, <1>2
    <3> DEFINE m == p - (rpos - Len(rbuf))
    <3>2. m \in 1 .. Len(rbuf) /\ rbuf[m] = <<i, 2>>
      BY <2>2, <3>1, <1>3, <1>4, <1>8, InBuffer
    <3> HIDE DEF m
    <3>3. i \in Lines /\ i \notin split
      BY <1>8, TailerConstants
    <3>4. Len(rbuf) <= Len(rbuf) /\ \A j \in 1 .. Len(rbuf) : rbuf[j] = rbuf[j] /\ ~IsNewline(rbuf[j])
      BY <1>1, <1>5 DEF HasLine
    <3>5. rbuf = <<<<i, 1>>, <<i, 2>>>>
      BY <3>2, <3>3, <3>4, <1>3, <1>4, <1>5, TextConsumed
    <3> QED
      BY <3>5, <1>2, <1>8 DEF Accepted
  <2> QED
    BY <2>1, <2>2
<1>9. ConsumedArrives'
  BY <1>1, <1>8 DEF ConsumedArrives
<1>10. pc' = "send" => RestMissed' /\ rbuf' = <<>>
  BY <1>1, <1>2, <1>6 DEF RestMissed
<1> QED
  BY <1>9, <1>10 DEF ReadOK

LEMMA ReadSend ==
    ASSUME ShapeInv, FilesInv, TailOK, ReadOK, SendSample
    PROVE  ReadOK'
<1> SUFFICES ASSUME Following', ~stopped' PROVE ReadOK'
  BY DEF ReadOK
<1>0. Parts
  BY PartTypes
<1>1. /\ pc = "send" /\ pc' # "send"
      /\ UNCHANGED <<path, cells, base, split, raced, missed, statFile, stopped>>
  BY DEF SendSample, Finish, fsVars, histVars
<1>2. Following /\ Reading /\ ConsumedArrives /\ (eof => RestMissed /\ rbuf = <<>>)
  BY <1>1 DEF Following, Reading, ReadOK
<1>3. /\ rpos \in Nat /\ newSize \in Nat /\ emitted \in [Lines -> Nat] /\ statFile \in Files
      /\ cells[statFile] \in Seq(Cells) /\ Valid \subseteq Lines
  BY <1>0, <1>2, HandleFollows, CleanCells, TailerConstants DEF Parts
<1>4. ASSUME NEW p \in DOMAIN cells[statFile], Consumed(p)', LineOf(cells[statFile][p]) \notin missed
      PROVE  Consumed(p)
  <2>1. p \in Nat
    BY <1>3
  <2>2. CASE eof
    <3>1. lastSize' = newSize /\ ~Reading'
      BY <2>2 DEF SendSample, Finish, Advance, Reading
    <3>2. p <= newSize /\ Len(rbuf) = 0
      BY <2>2, <3>1, <1>2, <1>4 DEF Consumed
    <3> QED
      BY <2>1, <2>2, <3>2, <1>2, <1>3, <1>4 DEF Consumed, RestMissed
  <2>3. CASE ~eof
    <3>1. Reading' /\ UNCHANGED <<rpos, rbuf>>
      BY <2>3 DEF SendSample, Reading
    <3> QED
      BY <3>1, <1>2, <1>4 DEF Consumed
  <2> QED
    BY <2>2, <2>3
<1>5. ASSUME NEW i \in Valid, emitted[i] > 0 \/ text = <<<<i, 1>>, <<i, 2>>>>
      PROVE  emitted'[i] > 0
  <2>1. i \in Lines /\ emitted[i] \in Nat
    BY <1>3
  <2>2. emitted'[i] = IF Accepted(text) /\ LineOf(text[1]) = i THEN emitted[i] + 1 ELSE emitted[i]
    BY <2>1 DEF SendSample
  <2>3. text = <<<<i, 1>>, <<i, 2>>>> => Accepted(text) /\ LineOf(text[1]) = i
    BY DEF Accepted, LineOf
  <2> QED
    BY <2>1, <2>2, <2>3, <1>5
<1>6. ConsumedArrives'
  BY <1>1, <1>2, <1>4, <1>5 DEF ConsumedArrives, LineOf
<1> QED
  BY <1>1, <1>6 DEF ReadOK

(* Every step, unless the tailer has been misled.                          *)
LEMMA ReadStep ==
    ASSUME ShapeInv, FilesInv, TailInv, ReadInv, [TailerNext]_vars
    PROVE  ReadInv'
<1> SUFFICES ASSUME taints' = {} PROVE ReadOK'
  BY DEF ReadInv
<1>1. CASE UNCHANGED vars
  <2>1. /\ UNCHANGED <<path, cells, emitted, base, split, raced, missed, statFile, stopped, taints>>
        /\ UNCHANGED <<pc, lastSize, newSize, rpos, rbuf, text, eof>>
    BY <1>1 DEF vars, fsVars, pollVars, readVars, outVars, histVars
  <2>2. \A p : Consumed(p)' <=> Consumed(p)
    BY <2>1 DEF Consumed, Reading
  <2> QED
    BY <2>1, <2>2 DEF ReadInv, ReadOK, Following, ConsumedArrives, RestMissed
<1>2. CASE Program
  <2>1. TailOK /\ ReadOK
    BY <1>2 DEF Program, TailInv, ReadInv
  <2>2. ~Following' => ReadOK'
    BY DEF ReadOK
  <2> QED
    BY <1>2, <2>1, <2>2, ReadWrite, ReadRotate, SizesAre DEF Program
<1>3. CASE Cancel
  BY <1>3 DEF Cancel, ReadOK
<1>4. CASE TailerStep
  <2>1. CASE StatSkips \/ StatFindsNothing \/ StatFindsMore
    <3>1. Statted
      BY <2>1 DEF StatSkips, StatFindsNothing, StatFindsMore
    <3>2. taints = {} /\ ~Unnoticeable
      BY <3>1 DEF Statted
    <3> QED
      BY <2>1, <3>2, ReadStat DEF TailInv, ReadInv
  <2>2. CASE StatFails \/ Tick \/ Return
    <3>1. /\ UNCHANGED <<path, cells, emitted, base, split, raced, missed, statFile, stopped, taints>>
          /\ UNCHANGED <<lastSize, rpos, rbuf>> /\ ~Reading /\ ~Reading' /\ pc # "send" /\ pc' # "send"
      BY <2>2 DEF StatFails, Tick, Return, fsVars, pollVars, readVars, outVars, histVars, Reading
    <3>2. \A p : Consumed(p)' <=> Consumed(p)
      BY <3>1 DEF Consumed
    <3> QED
      BY <3>1, <3>2, ReadSame DEF ReadInv
  <2>3. CASE OpenFails
    <3>1. path = NoFile /\ path' = NoFile
      BY <2>3 DEF OpenFails, fsVars
    <3> QED
      BY <3>1 DEF ReadOK, Following
  <2>4. CASE OpenAndSeek \/ FillBuffer
    <3>1. taints = {}
      BY <2>4 DEF OpenAndSeek, FillBuffer, histVars
    <3> QED
      BY <2>4, <3>1, ReadOpenFill DEF TailInv, ReadInv
  <2>5. CASE ReadLine \/ ReadLast \/ ReadFails \/ SendSample
    <3>1. taints = {}
      BY <2>5 DEF ReadLine, ReadLast, ReadFails, SendSample, histVars
    <3> QED
      BY <2>5, <3>1, ReadTakeLine, ReadTakeEnds, ReadSend DEF TailInv, ReadInv
  <2>6. CASE SendStopped
    BY <2>6 DEF SendStopped, ReadOK
  <2> QED
    BY <1>4, <2>1, <2>2, <2>3, <2>4, <2>5, <2>6 DEF TailerStep
<1> QED
  BY <1>1, <1>2, <1>3, <1>4 DEF TailerNext

(* What counts as read was read: between polls every valid line before the *)
(* offset that Run remembers has arrived at out, over any number of polls, *)
(* rotations and truncations that inode and size show, although Run moves  *)
(* the offset to the size of its Stat whatever readNewLines returns. Only  *)
(* lines are excepted that were skipped at the start, seen half written,   *)
(* written during a poll, or not yet returned by a read that failed.       *)
THEOREM OffsetWasRead == TailerSpec => []ReadUpToOffset
<1>1. TailerInit => ReadInv
  <2>1. TailerInit => path = 1 /\ statFile = NoFile
    BY DEF TailerInit
  <2>2. 1 # NoFile
    BY DEF NoFile
  <2> QED
    BY <2>1, <2>2 DEF ReadInv, ReadOK, Following
<1>2. /\ ShapeInv /\ FilesInv /\ TailInv /\ ReadInv /\ [TailerNext]_vars => ReadInv'
  BY ReadStep
<1>3. ShapeInv /\ ReadInv => ReadUpToOffset
  <2> SUFFICES ASSUME ShapeInv, ReadOK, ~stopped, pc = "wait", path = statFile, path # NoFile,
                      NEW i \in CompleteIn(SubSeq(cells[path], 1, Min({lastSize, Len(cells[path])})))
                                  \cap Valid,
                      i \notin base \cup split \cup raced \cup missed
               PROVE  emitted[i] > 0
    BY DEF ReadInv, ReadUpToOffset
  <2>0. Parts
    BY PartTypes
  <2> DEFINE s == cells[path]
             m == Min({lastSize, Len(s)})
             u == SubSeq(s, 1, m)
  <2>1. s \in Seq(Cells) /\ Len(s) \in Nat /\ lastSize \in Nat
    BY <2>0 DEF Parts
  <2>2. m \in Nat /\ m <= lastSize /\ m <= Len(s)
    <3>1. {lastSize, Len(s)} \in SUBSET Nat /\ {lastSize, Len(s)} # {}
      BY <2>1
    <3>2. m \in {lastSize, Len(s)} /\ \A n \in {lastSize, Len(s)} : m <= n
      BY <3>1, LeastIsMin
    <3> QED
      BY <3>1, <3>2
  <2>3. <<i, 2>> \in ToSet(u)
    BY DEF CompleteIn
  <2> HIDE DEF m
  <2>4. Len(u) = m /\ DOMAIN u = 1 .. m /\ \A p \in 1 .. m : u[p] = s[p]
    BY <2>1, <2>2
  <2>5. PICK p \in 1 .. m : u[p] = <<i, 2>>
    BY <2>3, <2>4 DEF ToSet
  <2>6. p \in DOMAIN cells[statFile] /\ cells[statFile][p] = <<i, 2>> /\ p <= lastSize
    BY <2>1, <2>2, <2>4, <2>5
  <2>7. Consumed(p) /\ ConsumedArrives /\ pc # "send"
    BY <2>6 DEF Consumed, Reading, ReadOK, Following
  <2>8. i \in Valid \ (base \cup split \cup raced \cup missed)
    OBVIOUS
  <2> QED
    BY <2>6, <2>7, <2>8 DEF ConsumedArrives
<1> QED
  BY <1>1, <1>2, <1>3, TailInvariant, PTL DEF TailerSpec
=============================================================================

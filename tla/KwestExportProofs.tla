-------------------------- MODULE KwestExportProofs --------------------------
(***************************************************************************)
(* Theorems about the export, for any tables, any depth of the subgroups   *)
(* and any statements of the daemon in between.                            *)
(***************************************************************************)
EXTENDS KwestExport, KwestStatementsProofs, SequenceTheorems

CallFrames == [tag : TagNames, id : TagIds \cup {KW_FAIL}, todo : SUBSET TagNames]
Reading    == {"enter", "files", "openFiles", "copying", "below", "openBelow"}

-----------------------------------------------------------------------------
(* The stack of calls.                                                     *)
LEMMA TopIsFrame ==
  ASSUME stack \in Seq(CallFrames), Len(stack) >= 1
  PROVE  /\ Len(stack) \in Nat /\ Len(stack) \in 1..Len(stack) /\ Top \in CallFrames
         /\ \A i \in 1..Len(stack) : stack[i] \in CallFrames
<1>1. Len(stack) \in Nat /\ \A i \in 1..Len(stack) : stack[i] \in CallFrames
  BY LenProperties, ElementOfSeq
<1> QED BY <1>1 DEF Top

(* What replacing the last call leaves.                                    *)
TopReplaced(s, r) ==
  /\ s \in Seq(CallFrames) /\ Len(s) = Len(stack) /\ s[Len(stack)] = r
  /\ \A i \in 1..Len(stack) : i # Len(stack) => s[i] = stack[i]

LEMMA ReplaceTop ==
  ASSUME stack \in Seq(CallFrames), Len(stack) >= 1, NEW r \in CallFrames
  PROVE  TopReplaced([stack EXCEPT ![Len(stack)] = r], r)
<1>1. Len(stack) \in 1..Len(stack)
  BY TopIsFrame
<1> QED BY <1>1, ExceptSeq DEF TopReplaced

LEMMA ReplaceId ==
  ASSUME stack \in Seq(CallFrames), Len(stack) >= 1, NEW id \in TagIds \cup {KW_FAIL}
  PROVE  TopReplaced([stack EXCEPT ![Len(stack)].id = id], [Top EXCEPT !.id = id])
<1>1. [stack EXCEPT ![Len(stack)].id = id] = [stack EXCEPT ![Len(stack)] = [Top EXCEPT !.id = id]]
  BY DEF Top
<1>2. [Top EXCEPT !.id = id] \in CallFrames
  BY TopIsFrame DEF CallFrames
<1> QED BY <1>1, <1>2, ReplaceTop

LEMMA ReplaceTodo ==
  ASSUME stack \in Seq(CallFrames), Len(stack) >= 1, NEW tags \in SUBSET TagNames
  PROVE  TopReplaced([stack EXCEPT ![Len(stack)].todo = tags], [Top EXCEPT !.todo = tags])
<1>1. [stack EXCEPT ![Len(stack)].todo = tags]
        = [stack EXCEPT ![Len(stack)] = [Top EXCEPT !.todo = tags]]
  BY DEF Top
<1>2. [Top EXCEPT !.todo = tags] \in CallFrames
  BY TopIsFrame DEF CallFrames
<1> QED BY <1>1, <1>2, ReplaceTop

(* What a call leaves that is made for the subgroup n.                     *)
Entered(s, n) ==
  /\ s \in Seq(CallFrames) /\ Len(s) = Len(stack) + 1
  /\ \A i \in 1..Len(stack) : i # Len(stack) => s[i] = stack[i]
  /\ s[Len(stack)] = [Top EXCEPT !.todo = Top.todo \ {n}]
  /\ s[Len(stack) + 1] = Frame(n)

LEMMA Enter ==
  ASSUME stack \in Seq(CallFrames), Len(stack) >= 1, NEW n \in TagNames
  PROVE  Entered(Append([stack EXCEPT ![Len(stack)].todo = @ \ {n}], Frame(n)), n)
<1> DEFINE w == [stack EXCEPT ![Len(stack)].todo = Top.todo \ {n}]
<1>1. [stack EXCEPT ![Len(stack)].todo = @ \ {n}] = w
  BY DEF Top
<1>2. Top.todo \ {n} \in SUBSET TagNames /\ Len(stack) \in Nat /\ Len(stack) \in 1..Len(stack)
  BY TopIsFrame DEF CallFrames
<1>3. TopReplaced(w, [Top EXCEPT !.todo = Top.todo \ {n}])
  BY <1>2, ReplaceTodo
<1>4. Frame(n) \in CallFrames
  BY DEF Frame, CallFrames
<1> HIDE DEF w
<1>5. /\ Append(w, Frame(n)) \in Seq(CallFrames) /\ Len(Append(w, Frame(n))) = Len(stack) + 1
      /\ \A i \in 1..Len(stack) : Append(w, Frame(n))[i] = w[i]
      /\ Append(w, Frame(n))[Len(stack) + 1] = Frame(n)
  BY <1>3, <1>4, AppendProperties DEF TopReplaced
<1> QED BY <1>1, <1>2, <1>3, <1>5 DEF TopReplaced, Entered

(* What a call leaves that returns to another.                             *)
Left(s) ==
  /\ s \in Seq(CallFrames) /\ Len(s) = Len(stack) - 1
  /\ \A i \in 1..(Len(stack) - 1) : s[i] = stack[i]

LEMMA Leave ==
  ASSUME stack \in Seq(CallFrames), Len(stack) > 1
  PROVE  Left(SubSeq(stack, 1, Len(stack) - 1))
<1>1. Len(stack) \in Nat /\ \A i \in 1..(Len(stack) - 1) : stack[i] \in CallFrames
  BY TopIsFrame
<1> QED BY <1>1, SubSeqProperties DEF Left

-----------------------------------------------------------------------------
(* While a select is open the tables stay.                                 *)
LEMMA DaemonWaits ==
  ASSUME Daemon
  PROVE  /\ UNCHANGED <<phase, stack, todo, dirs, copies, code, failed, locked>>
         /\ locked => db' = db
<1>1. UNCHANGED <<phase, stack, todo, dirs, copies, code, failed>>
  BY DEF Daemon, running, disk
<1>2. ASSUME NEW p \in Threads, Begin(p) PROVE UNCHANGED <<db, locked>>
  BY <1>2 DEF Begin, Reads
<1>3. ASSUME Crash PROVE UNCHANGED <<db, locked>>
  BY <1>3 DEF Crash
<1>4. ASSUME NEW p \in Threads, Statement(p) PROVE UNCHANGED locked /\ (locked => db' = db)
  <2>1. ASSUME NEW new, Writes(new) PROVE UNCHANGED locked /\ (locked => db' = db)
    BY <2>1 DEF Writes
  <2>2. ASSUME Reads PROVE UNCHANGED <<db, locked>>
    BY <2>2 DEF Reads
  <2>3. CASE NewName(p) \/ LastId(p) \/ FindFile(p) \/ FindTag(p) \/ FindOther(p) \/ Check(p)
    BY <2>2, <2>3 DEF NewName, LastId, FindFile, FindTag, FindOther, Check
  <2>4. CASE Insert(p)
    BY <2>1, <2>4 DEF Insert
  <2>5. CASE Delete(p)
    BY <2>1, <2>5 DEF Delete
  <2>6. CASE DeleteRelations(p)
    BY <2>1, <2>6 DEF DeleteRelations
  <2>7. CASE DeleteFiles(p)
    BY <2>1, <2>7 DEF DeleteFiles
  <2>8. CASE DeleteRow(p)
    BY <2>1, <2>8 DEF DeleteRow
  <2> QED BY <1>4, <2>3, <2>4, <2>5, <2>6, <2>7, <2>8 DEF Statement
<1> QED BY <1>1, <1>2, <1>3, <1>4 DEF Daemon

-----------------------------------------------------------------------------
(* What the export has read is still there: the subgroups it has left in   *)
(* each of its calls, the tags of the calls and the files, and whenever it *)
(* has read anything a select is open.                                     *)
FrameHolds(d, i) ==
  /\ stack[i].todo \subseteq TagsBelow(d, stack[i].id)
  /\ i > 1 => /\ stack[i].tag \in TagsBelow(d, stack[i-1].id)
              /\ stack[i].id # KW_FAIL => d.tags[stack[i].id] = stack[i].tag

Standing ==
  /\ Len(stack) >= 1
  /\ Len(stack) > 1 => locked
  /\ Top.todo # {} => phase = "walking" /\ locked
  /\ todo # {} => phase = "copying" /\ locked
  /\ \A i \in 1..Len(stack) : FrameHolds(db, i)
  /\ todo # {} => todo \subseteq FilesUnder(db, Top.id)

WalkInv ==
  /\ stack \in Seq(CallFrames)
  /\ phase \in Reading \cup {"off", "walking", "done", "crashed", "killed"}
  /\ phase = "off" => todo = {}
  /\ ~Ended => Standing

(* Through a change of the last call, where the tables stay.               *)
LEMMA HoldsAgain ==
  ASSUME Standing, stack \in Seq(CallFrames), db' = db, NEW r, TopReplaced(stack', r),
         r.tag = Top.tag, r.todo \subseteq TagsBelow(db, r.id),
         Len(stack) > 1 /\ r.id # KW_FAIL => db.tags[r.id] = r.tag
  PROVE  /\ stack' \in Seq(CallFrames) /\ Len(stack') = Len(stack) /\ Top' = r
         /\ \A i \in 1..Len(stack') : FrameHolds(db, i)'
<1>1. Len(stack) \in Nat /\ Len(stack) \in 1..Len(stack) /\ Len(stack') = Len(stack)
  BY TopIsFrame DEF Standing, TopReplaced
<1>2. Top' = r
  BY <1>1 DEF Top, TopReplaced
<1>3. ASSUME NEW i \in 1..Len(stack) PROVE FrameHolds(db, i)'
  <2>1. FrameHolds(db, i)
    BY <1>3 DEF Standing
  <2>2. i > 1 => i - 1 \in 1..Len(stack) /\ i - 1 # Len(stack) /\ stack'[i-1] = stack[i-1]
    BY <1>1 DEF TopReplaced
  <2>3. CASE i # Len(stack)
    <3>1. stack'[i] = stack[i]
      BY <2>3 DEF TopReplaced
    <3> QED BY <2>1, <2>2, <3>1 DEF FrameHolds
  <2>4. CASE i = Len(stack)
    <3>1. stack'[i] = r /\ stack[i].tag = r.tag
      BY <2>4 DEF TopReplaced, Top
    <3> QED BY <1>1, <2>1, <2>2, <2>4, <3>1 DEF FrameHolds
  <2> QED BY <2>3, <2>4
<1> QED BY <1>1, <1>2, <1>3 DEF TopReplaced

(* A call that returns, and the program that ends.                         *)
LEMMA ReturnedHolds ==
  ASSUME WalkInv, ~Ended, todo = {}, todo' = {}, db' = db, NEW result, Returned(result)
  PROVE  WalkInv'
<1>1. /\ stack \in Seq(CallFrames) /\ Standing
      /\ Len(stack) \in Nat /\ Len(stack) >= 1
  BY TopIsFrame DEF WalkInv, Standing
<1>2. CASE Outer
  <2>1. Len(stack) > 1 /\ stack' = SubSeq(stack, 1, Len(stack) - 1) /\ phase' = "walking" /\ locked'
    BY <1>2 DEF Returned, Outer
  <2>2. Left(stack')
    BY <1>1, <2>1, Leave
  <2>3. Len(stack') \in Nat /\ Len(stack') >= 1 /\ Len(stack') = Len(stack) - 1
    BY <1>1, <2>1, <2>2 DEF Left
  <2>4. ASSUME NEW i \in 1..Len(stack') PROVE FrameHolds(db, i)'
    <3>1. i \in 1..Len(stack) /\ stack'[i] = stack[i] /\ (i > 1 => stack'[i-1] = stack[i-1])
      BY <1>1, <2>2, <2>3 DEF Left
    <3> QED BY <1>1, <3>1 DEF Standing, FrameHolds
  <2>5. Standing'
    BY <2>1, <2>3, <2>4 DEF Standing
  <2> QED BY <2>1, <2>2, <2>5 DEF WalkInv, Left
<1>3. CASE ~Outer
  <2>1. stack' = stack /\ phase' = "done"
    BY <1>3 DEF Returned
  <2> QED BY <1>1, <2>1 DEF WalkInv, Ended
<1> QED BY <1>2, <1>3

(* A step that changes neither the tables nor the stack.                   *)
LEMMA SameStackHolds ==
  ASSUME WalkInv, ~Ended, UNCHANGED <<db, stack>>,
         phase' \in Reading \cup {"walking"},
         phase = "walking" => phase' = "walking",
         Len(stack) > 1 => locked', Top.todo # {} => locked',
         todo' # {} => phase' = "copying" /\ locked' /\ todo' \subseteq FilesUnder(db, Top.id)
  PROVE  WalkInv'
<1>1. Standing /\ Top' = Top
  BY DEF WalkInv, Top
<1>2. Standing'
  BY <1>1 DEF Standing, FrameHolds
<1>3. phase' # "off"
  BY DEF Reading
<1> QED BY <1>2, <1>3 DEF WalkInv

LEMMA MakeDirHolds ==
  ASSUME WalkInv, MakeDir
  PROVE  WalkInv'
<1>1. /\ phase = "enter" /\ ~Ended /\ UNCHANGED <<db, todo>> /\ Standing /\ todo = {}
  BY DEF MakeDir, Ended, Steps, WalkInv, Standing
<1>2. CASE Returned(KW_FAIL)
  BY <1>1, <1>2, ReturnedHolds
<1>3. CASE phase' = "crashed" /\ UNCHANGED stack
  BY <1>1, <1>3 DEF WalkInv, Ended
<1>4. CASE phase' = "files" /\ UNCHANGED <<stack, locked>>
  BY <1>1, <1>4, SameStackHolds DEF Standing, Reading
<1> QED BY <1>2, <1>3, <1>4 DEF MakeDir

LEMMA LookUpHolds ==
  ASSUME WalkInv, NEW at, NEW select, NEW after, LookUp(at, select, after),
         at \in {"files", "below"}, select \in {"openFiles", "openBelow"},
         after \in {"below", "walking"}
  PROVE  WalkInv'
<1>1. /\ phase = at /\ ~Ended /\ UNCHANGED <<db, todo, locked>> /\ todo = {} /\ Top.todo = {}
      /\ stack \in Seq(CallFrames) /\ Standing
  BY DEF LookUp, Ended, Steps, WalkInv, Standing
<1>2. PICK id \in TagIds \cup {KW_FAIL} :
        /\ Result(id = get_tag_id(db, Top.tag), id = KW_FAIL)
        /\ stack' = [stack EXCEPT ![Len(stack)].id = id]
        /\ phase' = (IF id = KW_FAIL THEN after ELSE select)
  BY DEF LookUp
<1>3. id # KW_FAIL => db.tags[id] = Top.tag
  <2>1. id # KW_FAIL => id = get_tag_id(db, Top.tag)
    BY <1>2 DEF Result
  <2> QED BY <2>1, SomeTagFound
<1>4. Len(stack) >= 1 /\ Top \in CallFrames
  BY <1>1, TopIsFrame DEF Standing
<1> DEFINE r == [Top EXCEPT !.id = id]
<1>5. r.tag = Top.tag /\ r.todo = {} /\ r.id = id
  BY <1>1, <1>4 DEF CallFrames
<1>6. TopReplaced(stack', r)
  BY <1>1, <1>2, <1>4, ReplaceId
<1> HIDE DEF r
<1>7. /\ stack' \in Seq(CallFrames) /\ Len(stack') = Len(stack) /\ Top' = r
      /\ \A i \in 1..Len(stack') : FrameHolds(db, i)'
  BY <1>1, <1>3, <1>5, <1>6, HoldsAgain
<1>8. Standing'
  BY <1>1, <1>4, <1>5, <1>7 DEF Standing
<1> QED BY <1>2, <1>7, <1>8 DEF WalkInv, Reading

LEMMA OpenFilesHolds ==
  ASSUME WalkInv, OpenFiles
  PROVE  WalkInv'
<1>1. /\ phase = "openFiles" /\ phase' = "copying" /\ ~Ended /\ UNCHANGED <<db, stack>>
      /\ Standing /\ Top.todo = {}
  BY DEF OpenFiles, Ended, Steps, WalkInv, Standing
<1>2. todo' \subseteq FilesUnder(db, Top.id)
  BY DEF OpenFiles, Result
<1>3. (Len(stack) > 1 => locked') /\ (todo' # {} => locked')
  BY DEF OpenFiles, Outer
<1> QED BY <1>1, <1>2, <1>3, SameStackHolds DEF Reading

LEMMA CopyHolds ==
  ASSUME WalkInv, Copy
  PROVE  WalkInv'
<1>1. /\ phase = "copying" /\ phase' = "copying" /\ ~Ended /\ UNCHANGED <<db, stack, locked>>
      /\ Standing /\ Top.todo = {} /\ todo' \subseteq todo
  BY DEF Copy, Ended, Steps, WalkInv, Standing
<1> QED BY <1>1, SameStackHolds DEF Reading, Standing

LEMMA CloseFilesHolds ==
  ASSUME WalkInv, CloseFiles
  PROVE  WalkInv'
<1>1. /\ phase = "copying" /\ phase' = "below" /\ ~Ended /\ UNCHANGED <<db, stack, todo>>
      /\ Standing /\ Top.todo = {} /\ todo = {}
  BY DEF CloseFiles, Ended, Steps, WalkInv, Standing
<1>2. Len(stack) > 1 => locked'
  BY DEF CloseFiles, Outer
<1> QED BY <1>1, <1>2, SameStackHolds DEF Reading

LEMMA OpenBelowHolds ==
  ASSUME WalkInv, OpenBelow
  PROVE  WalkInv'
<1>1. /\ phase = "openBelow" /\ phase' = "walking" /\ ~Ended /\ UNCHANGED <<db, todo>>
      /\ todo = {} /\ stack \in Seq(CallFrames) /\ Standing
  BY DEF OpenBelow, Ended, Steps, WalkInv, Standing
<1>2. PICK tags \in SUBSET TagNames :
        /\ Result(tags = TagsBelow(db, Top.id), tags = {})
        /\ stack' = [stack EXCEPT ![Len(stack)].todo = tags]
        /\ locked' = (Outer \/ tags # {})
  BY DEF OpenBelow
<1>3. tags \subseteq TagsBelow(db, Top.id)
  BY <1>2 DEF Result
<1>4. Len(stack) >= 1 /\ Len(stack) \in 1..Len(stack) /\ Top \in CallFrames
  BY <1>1, TopIsFrame DEF Standing
<1> DEFINE r == [Top EXCEPT !.todo = tags]
<1>5. r.tag = Top.tag /\ r.todo = tags /\ r.id = Top.id
  BY <1>4 DEF CallFrames
<1>6. TopReplaced(stack', r)
  BY <1>1, <1>2, <1>4, ReplaceTodo
<1>7. Len(stack) > 1 /\ Top.id # KW_FAIL => db.tags[Top.id] = Top.tag
  BY <1>1, <1>4 DEF Standing, FrameHolds, Top
<1> HIDE DEF r
<1>8. /\ stack' \in Seq(CallFrames) /\ Len(stack') = Len(stack) /\ Top' = r
      /\ \A i \in 1..Len(stack') : FrameHolds(db, i)'
  BY <1>1, <1>3, <1>5, <1>6, <1>7, HoldsAgain
<1>9. (Len(stack) > 1 => locked') /\ (tags # {} => locked')
  BY <1>2 DEF Outer
<1>10. Standing'
  BY <1>1, <1>4, <1>5, <1>8, <1>9 DEF Standing
<1> QED BY <1>1, <1>8, <1>10 DEF WalkInv

LEMMA DescendHolds ==
  ASSUME WalkInv, Descend
  PROVE  WalkInv'
<1>1. /\ phase = "walking" /\ phase' = "enter" /\ ~Ended /\ UNCHANGED <<db, todo, locked>>
      /\ todo = {} /\ stack \in Seq(CallFrames) /\ Standing
  BY DEF Descend, Ended, Steps, WalkInv, Standing
<1>2. /\ Len(stack) >= 1 /\ Len(stack) \in Nat /\ Len(stack) \in 1..Len(stack)
      /\ Top \in CallFrames
  BY <1>1, TopIsFrame DEF Standing
<1>3. PICK n \in Top.todo :
        stack' = Append([stack EXCEPT ![Len(stack)].todo = @ \ {n}], Frame(n))
  BY DEF Descend
<1>4. n \in TagNames /\ locked
  BY <1>1, <1>2, <1>3 DEF CallFrames, Standing
<1>5. Entered(stack', n)
  BY <1>1, <1>2, <1>3, <1>4, Enter
<1>6. /\ stack'[Len(stack)].tag = Top.tag /\ stack'[Len(stack)].id = Top.id
      /\ stack'[Len(stack)].todo \subseteq Top.todo
  BY <1>2, <1>5 DEF Entered, CallFrames
<1>7. Len(stack') \in Nat /\ Len(stack') = Len(stack) + 1 /\ Top' = Frame(n)
  BY <1>2, <1>5 DEF Entered, Top
<1>8. n \in TagsBelow(db, Top.id)
  BY <1>1, <1>2, <1>3 DEF Standing, FrameHolds, Top
<1>9. ASSUME NEW i \in 1..Len(stack') PROVE FrameHolds(db, i)'
  <2>1. CASE i = Len(stack')
    <3>1. stack'[i] = Frame(n) /\ i - 1 = Len(stack)
      BY <1>2, <1>5, <1>7, <2>1 DEF Entered
    <3> QED BY <1>1, <1>6, <1>8, <3>1 DEF FrameHolds, Frame
  <2>2. CASE i # Len(stack')
    <3>1. i \in 1..Len(stack) /\ FrameHolds(db, i)
      BY <1>1, <1>2, <1>7, <2>2 DEF Standing
    <3>2. i > 1 => stack'[i-1] = stack[i-1]
      BY <1>2, <1>5, <3>1 DEF Entered
    <3>3. /\ stack'[i].tag = stack[i].tag /\ stack'[i].id = stack[i].id
          /\ stack'[i].todo \subseteq stack[i].todo
      BY <1>5, <1>6, <3>1 DEF Entered, Top
    <3> QED BY <1>1, <3>1, <3>2, <3>3 DEF FrameHolds
  <2> QED BY <2>1, <2>2
<1>10. Standing'
  BY <1>1, <1>2, <1>4, <1>7, <1>9 DEF Standing, Frame
<1> QED BY <1>1, <1>5, <1>10 DEF WalkInv, Reading, Entered

LEMMA AscendHolds ==
  ASSUME WalkInv, Ascend
  PROVE  WalkInv'
<1>1. /\ phase = "walking" /\ ~Ended /\ UNCHANGED <<db, todo>> /\ todo = {}
  BY DEF Ascend, Ended, Steps, WalkInv, Standing
<1> QED BY <1>1, ReturnedHolds DEF Ascend

LEMMA StartHolds ==
  ASSUME WalkInv, NEW n \in TagNames, Start(n)
  PROVE  WalkInv'
<1>1. /\ stack' = <<Frame(n)>> /\ phase' = "enter" /\ todo' = {} /\ Frame(n) \in CallFrames
  BY DEF Start, WalkInv, Frame, CallFrames
<1>2. /\ stack' \in Seq(CallFrames) /\ Len(stack') = 1 /\ stack'[1] = Frame(n) /\ Top' = Frame(n)
  BY <1>1 DEF Top
<1>3. Standing'
  BY <1>1, <1>2 DEF Standing, FrameHolds, Frame
<1> QED BY <1>1, <1>2, <1>3 DEF WalkInv, Reading

LEMMA DaemonHolds ==
  ASSUME WalkInv, Daemon
  PROVE  WalkInv'
<1>1. UNCHANGED <<phase, stack, todo, locked>> /\ (locked => db' = db)
  BY DaemonWaits
<1>2. ASSUME ~Ended PROVE Standing'
  <2>1. CASE locked
    BY <1>1, <1>2, <2>1 DEF WalkInv, Standing, FrameHolds, Top
  <2>2. CASE ~locked
    <3>1. Len(stack) = 1 /\ Top.todo = {} /\ todo = {}
      <4>1. Standing /\ stack \in Seq(CallFrames)
        BY <1>2 DEF WalkInv
      <4>2. Len(stack) \in Nat /\ Len(stack) >= 1
        BY <4>1, TopIsFrame DEF Standing
      <4>3. ~(Len(stack) > 1) /\ Top.todo = {} /\ todo = {}
        BY <2>2, <4>1 DEF Standing
      <4> QED BY <4>2, <4>3
    <3>2. \A i \in 1..Len(stack) : FrameHolds(db, i)'
      BY <1>1, <3>1 DEF FrameHolds, Top
    <3> QED BY <1>1, <3>1, <3>2 DEF Standing, Top
  <2> QED BY <2>1, <2>2
<1> QED BY <1>1, <1>2 DEF WalkInv, Ended

LEMMA WalkInvKeeps == WalkInv /\ [ExportNext]_exportVars => WalkInv'
<1> SUFFICES ASSUME WalkInv, [ExportNext]_exportVars PROVE WalkInv'
  OBVIOUS
<1>1. CASE LookUpFiles
  BY <1>1, LookUpHolds DEF LookUpFiles
<1>2. CASE LookUpBelow
  BY <1>2, LookUpHolds DEF LookUpBelow
<1>3. CASE Kill
  BY <1>3 DEF Kill, WalkInv, Ended
<1>4. CASE UNCHANGED exportVars
  BY <1>4 DEF exportVars, statementVars, running, disk, WalkInv, Ended, Standing, FrameHolds, Top
<1> QED BY <1>1, <1>2, <1>3, <1>4, StartHolds, MakeDirHolds, OpenFilesHolds, CopyHolds,
           CloseFilesHolds, OpenBelowHolds, DescendHolds, AscendHolds, DaemonHolds
        DEF ExportNext, Walk

(* However the daemon's statements come in between, what the export goes   *)
(* by is in the tables at that moment.                                     *)
THEOREM ExportsOnlyWhatIsThere == Export => []OnlyWhatIsThere
<1>1. ExportInit => WalkInv
  BY EmptySeq DEF ExportInit, WalkInv, Ended
<1>2. WalkInv => OnlyWhatIsThere
  <2> SUFFICES ASSUME WalkInv, ~Ended
               PROVE  /\ \A i \in 2..Len(stack) :
                           /\ stack[i].tag \in TagsBelow(db, stack[i-1].id)
                           /\ stack[i].id # KW_FAIL => db.tags[stack[i].id] = stack[i].tag
                      /\ todo # {} => todo \subseteq FilesUnder(db, Top.id)
    BY DEF OnlyWhatIsThere
  <2>1. \A i \in 2..Len(stack) : i \in 1..Len(stack) /\ i > 1
    BY TopIsFrame DEF WalkInv, Standing
  <2> QED BY <2>1 DEF WalkInv, Standing, FrameHolds
<1> QED BY <1>1, <1>2, WalkInvKeeps, PTL DEF Export

-----------------------------------------------------------------------------
(* Completeness.  A path of subgroups that no failure cuts is done, or it  *)
(* leaves the stack of calls at a subgroup a call has left, or it goes     *)
(* through the call that is running and what that still has to do.         *)
Follows(path, k) == k <= Len(path) /\ \A i \in 1..k : path[i] = stack[i].tag

Good(path) ==
  /\ path[1] = stack[1].tag /\ IsChain(db, path)
  /\ \A n \in 1..Len(path) : SubSeq(path, 1, n) \notin failed

Copied(path, f) == <<path, f>> \in copies \cup failed
Filled(path) == path \in dirs /\ \A f \in Listed(db, path[Len(path)]) : Copied(path, f)

Waiting(path) ==
  \E k \in 1..Len(stack) : Follows(path, k) /\ k < Len(path) /\ path[k+1] \in stack[k].todo

Here(path) ==
  /\ Follows(path, Len(stack))
  /\ \/ phase = "enter"
     \/ phase \in Reading /\ Len(path) > Len(stack)
     \/ phase \in {"files", "openFiles"} /\ path \in dirs
     \/ /\ phase = "copying" /\ path \in dirs
        /\ \A f \in Listed(db, path[Len(path)]) : f \in todo \/ Copied(path, f)

Covered(path) == Waiting(path) \/ Here(path) \/ Filled(path)

Complete ==
  ~disturbed =>
    /\ ~Ended => \A path \in Dirs : Good(path) => Covered(path)
    /\ phase = "done" /\ code = KW_SUCCESS => \A path \in Dirs : Good(path) => Filled(path)
    /\ phase \in {"openFiles", "openBelow"} =>
         Top.id = get_tag_id(db, Top.tag) /\ Top.id # KW_FAIL

LEMMA PathsAreSeqs ==
  ASSUME NEW path \in Dirs
  PROVE  path \in Seq(TagNames) /\ Len(path) \in Nat /\ Len(path) \in 1..MaxDepth
<1>1. PICK n \in 1..MaxDepth : path \in [1..n -> TagNames]
  BY DEF Dirs
<1>2. MaxDepth \in Nat /\ n \in Nat
  BY ExportAssumption
<1>3. path \in Seq(TagNames) /\ Len(path) = n
  BY <1>1, <1>2, SeqDef, LenProperties
<1> QED BY <1>2, <1>3

(* A path through the running call begins with the way to it.              *)
LEMMA PathOfTheStack ==
  ASSUME WalkInv, ~Ended, NEW path \in Dirs, Follows(path, Len(stack))
  PROVE  /\ Len(stack) \in 1..Len(path) /\ path[Len(stack)] = Top.tag
         /\ SubSeq(path, 1, Len(stack)) = Path
         /\ Len(path) = Len(stack) => path = Path
<1>1. /\ path \in Seq(TagNames) /\ Len(path) \in Nat
      /\ Len(stack) \in Nat /\ Len(stack) >= 1 /\ Len(stack) <= Len(path)
      /\ \A i \in 1..Len(stack) : path[i] = stack[i].tag /\ stack[i] \in CallFrames
  BY PathsAreSeqs, TopIsFrame DEF WalkInv, Standing, Follows
<1>2. Path \in Seq(TagNames) /\ Len(Path) = Len(stack)
  <2>1. Path \in [1..Len(stack) -> TagNames]
    BY <1>1 DEF Path, CallFrames
  <2> QED BY <1>1, <2>1, SeqDef, LenProperties
<1>3. \A i \in 1..Len(stack) : Path[i] = path[i]
  BY <1>1 DEF Path
<1>4. SubSeq(path, 1, Len(stack)) = Path
  <2> DEFINE w == SubSeq(path, 1, Len(stack))
  <2>1. \A i \in 1..Len(stack) : path[i] \in TagNames
    BY <1>1, ElementOfSeq
  <2>2. /\ w \in Seq(TagNames) /\ Len(w) = Len(stack)
        /\ \A i \in 1..Len(stack) : w[i] = path[i]
    BY <1>1, <2>1, SubSeqProperties
  <2> HIDE DEF w
  <2>3. w = Path
    BY <1>2, <1>3, <2>2, SeqEqual
  <2> QED BY <2>3 DEF w
<1>5. Len(path) = Len(stack) => path = Path
  BY <1>1, <1>2, <1>3, SeqEqual
<1>6. Len(stack) \in 1..Len(path) /\ path[Len(stack)] = Top.tag
  BY <1>1 DEF Top
<1> QED BY <1>4, <1>5, <1>6

(* So none goes on through a call that has failed.                         *)
LEMMA FailureCuts ==
  ASSUME WalkInv, ~Ended, NEW path \in Dirs, Good(path)', Path \in failed'
  PROVE  ~Follows(path, Len(stack))
<1> SUFFICES ASSUME Follows(path, Len(stack)) PROVE FALSE
  OBVIOUS
<1> QED BY PathOfTheStack DEF Good

(* What is added leaves standing what was.                                 *)
Growing ==
  /\ db' = db /\ dirs \subseteq dirs' /\ copies \subseteq copies' /\ failed \subseteq failed'
  /\ stack'[1].tag = stack[1].tag

LEMMA GoodStays ==
  ASSUME NEW path, Good(path)', Growing
  PROVE  Good(path)
BY DEF Good, Growing

LEMMA FilledStays ==
  ASSUME NEW path, Filled(path), Growing
  PROVE  Filled(path)'
BY DEF Filled, Copied, Growing

SameCalls ==
  /\ Len(stack') = Len(stack)
  /\ \A i \in 1..Len(stack) : stack'[i].tag = stack[i].tag /\ stack'[i].todo = stack[i].todo

LEMMA WaitingStays ==
  ASSUME NEW path, Waiting(path), SameCalls, Len(stack) \in Nat
  PROVE  Waiting(path)'
<1>1. PICK k \in 1..Len(stack) : Follows(path, k) /\ k < Len(path) /\ path[k+1] \in stack[k].todo
  BY DEF Waiting
<1>2. k \in 1..Len(stack') /\ Follows(path, k)' /\ path[k+1] \in stack'[k].todo
  BY <1>1 DEF SameCalls, Follows
<1> QED BY <1>1, <1>2 DEF Waiting

LEMMA FollowsStays ==
  ASSUME NEW path, Follows(path, Len(stack)), SameCalls, Len(stack) \in Nat
  PROVE  Follows(path, Len(stack))'
BY DEF SameCalls, Follows

(* A call with nothing left returns to another.                            *)
LEMMA ReturnCovers ==
  ASSUME WalkInv, ~Ended, Left(stack'), Len(stack) > 1, Growing, Top.todo = {},
         NEW path, Covered(path), ~Here(path)
  PROVE  Covered(path)'
<1>1. Len(stack) \in Nat
  BY TopIsFrame DEF WalkInv, Standing
<1>2. CASE Filled(path)
  BY <1>2, FilledStays DEF Covered
<1>3. CASE Waiting(path)
  <2>1. PICK k \in 1..Len(stack) : Follows(path, k) /\ k < Len(path) /\ path[k+1] \in stack[k].todo
    BY <1>3 DEF Waiting
  <2>2. k # Len(stack)
    BY <2>1 DEF Top
  <2>3. k \in 1..Len(stack') /\ \A i \in 1..k : stack'[i] = stack[i]
    BY <1>1, <2>1, <2>2 DEF Left
  <2>4. Follows(path, k)' /\ path[k+1] \in stack'[k].todo
    BY <2>1, <2>3 DEF Follows
  <2>5. Waiting(path)'
    BY <2>1, <2>3, <2>4 DEF Waiting
  <2> QED BY <2>5 DEF Covered
<1> QED BY <1>2, <1>3 DEF Covered

(* What a step of the export has to show.                                  *)
StepCovers ==
  /\ ~Ended' => \A path \in Dirs : Good(path) /\ Good(path)' /\ Covered(path) => Covered(path)'
  /\ phase' = "done" /\ code' = KW_SUCCESS =>
       \A path \in Dirs : Good(path) /\ Good(path)' /\ Covered(path) => Filled(path)'
  /\ phase' \in {"openFiles", "openBelow"} =>
       Top'.id = get_tag_id(db, Top'.tag) /\ Top'.id # KW_FAIL

LEMMA StepCompletes ==
  ASSUME Complete, ~Ended, Growing, UNCHANGED disturbed, ~disturbed => StepCovers
  PROVE  Complete'
<1> SUFFICES ASSUME ~disturbed
             PROVE  /\ ~Ended' => \A path \in Dirs : Good(path)' => Covered(path)'
                    /\ phase' = "done" /\ code' = KW_SUCCESS =>
                         \A path \in Dirs : Good(path)' => Filled(path)'
                    /\ phase' \in {"openFiles", "openBelow"} =>
                         Top'.id = get_tag_id(db', Top'.tag) /\ Top'.id # KW_FAIL
  BY DEF Complete
<1>1. \A path \in Dirs : Good(path)' => Good(path) /\ Covered(path)
  BY GoodStays DEF Complete
<1>2. db' = db
  BY DEF Growing
<1> QED BY <1>1, <1>2 DEF StepCovers

LEMMA MakeDirCompletes ==
  ASSUME WalkInv, Complete, MakeDir
  PROVE  Complete'
<1>1. /\ phase = "enter" /\ ~Ended /\ UNCHANGED <<db, copies, disturbed>>
      /\ stack \in Seq(CallFrames) /\ Len(stack) \in Nat /\ Len(stack) >= 1 /\ Top.todo = {}
  BY TopIsFrame DEF MakeDir, Ended, Steps, WalkInv, Standing
<1>2. CASE Fails(Path) /\ Returned(KW_FAIL) /\ UNCHANGED dirs
  <2>1. Path \in failed' /\ failed \subseteq failed'
    BY <1>2 DEF Fails
  <2>2. CASE Outer
    <3>1. Len(stack) > 1 /\ stack' = SubSeq(stack, 1, Len(stack) - 1) /\ phase' = "walking"
      BY <1>2, <2>2 DEF Returned, Outer
    <3>2. Left(stack')
      BY <1>1, <3>1, Leave
    <3>3. Growing
      BY <1>1, <1>2, <2>1, <3>1, <3>2 DEF Growing, Left
    <3>4. ASSUME NEW path \in Dirs, Good(path)', Covered(path) PROVE Covered(path)'
      <4>1. ~Here(path)
        BY <1>1, <2>1, <3>4, FailureCuts DEF Here
      <4> QED BY <1>1, <3>1, <3>2, <3>3, <3>4, <4>1, ReturnCovers
    <3>5. StepCovers
      BY <3>1, <3>4 DEF StepCovers
    <3> QED BY <1>1, <3>3, <3>5, StepCompletes
  <2>3. CASE ~Outer
    <3>1. stack' = stack /\ phase' = "done" /\ code' = KW_FAIL
      BY <1>2, <2>3 DEF Returned
    <3>2. Growing
      BY <1>1, <1>2, <2>1, <3>1 DEF Growing
    <3>3. StepCovers
      BY <3>1 DEF StepCovers, Ended, KW_FAIL, KW_SUCCESS
    <3> QED BY <1>1, <3>2, <3>3, StepCompletes
  <2> QED BY <2>2, <2>3
<1>3. CASE phase' = "crashed" /\ UNCHANGED <<stack, dirs, code, failed>>
  <2>1. Growing /\ StepCovers
    BY <1>1, <1>3 DEF Growing, StepCovers, Ended
  <2> QED BY <1>1, <2>1, StepCompletes
<1>4. CASE phase' = "files" /\ dirs' = dirs \cup {Path} /\ UNCHANGED <<stack, code, failed>>
  <2>1. Growing /\ SameCalls
    BY <1>1, <1>4 DEF Growing, SameCalls
  <2>2. ASSUME NEW path \in Dirs, Covered(path) PROVE Covered(path)'
    <3>1. CASE Filled(path)
      BY <2>1, <3>1, FilledStays DEF Covered
    <3>2. CASE Waiting(path)
      BY <1>1, <2>1, <3>2, WaitingStays DEF Covered
    <3>3. CASE Here(path)
      <4>1. Follows(path, Len(stack)) /\ Follows(path, Len(stack))'
        BY <1>1, <2>1, <3>3, FollowsStays DEF Here
      <4>2. Len(path) = Len(stack) \/ Len(path) > Len(stack)
        BY <1>1, <4>1, PathsAreSeqs DEF Follows
      <4>3. Len(path) = Len(stack) => path \in dirs'
        BY <1>1, <1>4, <4>1, PathOfTheStack
      <4>4. Here(path)'
        BY <1>4, <4>1, <4>2, <4>3 DEF Here, Reading
      <4> QED BY <4>4 DEF Covered
    <3> QED BY <2>2, <3>1, <3>2, <3>3 DEF Covered
  <2>3. StepCovers
    BY <1>4, <2>2 DEF StepCovers
  <2> QED BY <1>1, <2>1, <2>3, StepCompletes
<1> QED BY <1>2, <1>3, <1>4 DEF MakeDir

(* The files of the tag a path ends at, by the id that was found for it.   *)
LEMMA NothingListed ==
  ASSUME NEW n, get_tag_id(db, n) = KW_FAIL
  PROVE  Listed(db, n) = {}
BY DEF Listed

LEMMA AllListed ==
  ASSUME NEW n, get_tag_id(db, n) # KW_FAIL
  PROVE  Listed(db, n) = FilesUnder(db, get_tag_id(db, n))
BY DEF Listed

(* A good path that goes on goes on to a subgroup.                         *)
LEMMA GoesOnToSubgroup ==
  ASSUME WalkInv, ~Ended, NEW path \in Dirs, Good(path), Follows(path, Len(stack)),
         Len(path) > Len(stack)
  PROVE  /\ get_tag_id(db, Top.tag) # KW_FAIL
         /\ path[Len(stack) + 1] \in TagsBelow(db, get_tag_id(db, Top.tag))
<1>1. Len(stack) \in Nat /\ Len(stack) >= 1 /\ Len(path) \in Nat /\ path[Len(stack)] = Top.tag
  BY TopIsFrame, PathsAreSeqs, PathOfTheStack DEF WalkInv, Standing
<1>2. Len(stack) + 1 \in 2..Len(path) /\ (Len(stack) + 1) - 1 = Len(stack)
  BY <1>1
<1> QED BY <1>1, <1>2 DEF Good, IsChain

LEMMA LookUpCompletes ==
  ASSUME WalkInv, Complete, LookUpFiles \/ LookUpBelow
  PROVE  Complete'
<1>1. PICK at \in {"files", "below"} :
        /\ at = "files" => LookUp(at, "openFiles", "below")
        /\ at = "below" => LookUp(at, "openBelow", "walking")
  BY DEF LookUpFiles, LookUpBelow
<1> DEFINE select == IF at = "files" THEN "openFiles" ELSE "openBelow"
           after  == IF at = "files" THEN "below" ELSE "walking"
<1>2. LookUp(at, select, after)
  BY <1>1
<1>3. /\ phase = at /\ ~Ended /\ UNCHANGED <<db, dirs, copies, disturbed>>
      /\ stack \in Seq(CallFrames) /\ Len(stack) \in Nat /\ Len(stack) >= 1
      /\ Len(stack) \in 1..Len(stack) /\ Top \in CallFrames
  BY <1>1, TopIsFrame DEF LookUp, Ended, Steps, disk, WalkInv, Standing
<1>4. PICK id \in TagIds \cup {KW_FAIL} :
        /\ Result(id = get_tag_id(db, Top.tag), id = KW_FAIL)
        /\ stack' = [stack EXCEPT ![Len(stack)].id = id]
        /\ phase' = (IF id = KW_FAIL THEN after ELSE select)
  BY <1>2 DEF LookUp
<1>5. \/ id = get_tag_id(db, Top.tag) /\ failed' = failed
      \/ id = KW_FAIL /\ failed' = failed \cup {Path}
  BY <1>4 DEF Result
<1>6. TopReplaced(stack', [Top EXCEPT !.id = id])
  BY <1>3, <1>4, ReplaceId
<1>7. SameCalls /\ Top'.id = id /\ Top'.tag = Top.tag
  BY <1>3, <1>6 DEF SameCalls, TopReplaced, Top, CallFrames
<1>8. Growing
  BY <1>3, <1>5, <1>7 DEF Growing, SameCalls
<1>9. ASSUME NEW path \in Dirs, Good(path), Good(path)', Covered(path) PROVE Covered(path)'
  <2>1. CASE Filled(path)
    BY <1>8, <2>1, FilledStays DEF Covered
  <2>2. CASE Waiting(path)
    BY <1>3, <1>7, <2>2, WaitingStays DEF Covered
  <2>3. CASE Here(path)
    <3>1. Follows(path, Len(stack)) /\ Follows(path, Len(stack))' /\ Len(stack') = Len(stack)
      BY <1>3, <1>7, <2>3, FollowsStays DEF Here, SameCalls
    <3>2. id = get_tag_id(db, Top.tag) /\ failed' = failed
      BY <1>3, <1>5, <1>9, <3>1, FailureCuts
    <3>3. Len(path) = Len(stack) \/ Len(path) > Len(stack)
      BY <1>3, <3>1, PathsAreSeqs DEF Follows
    <3>4. CASE id # KW_FAIL
      <4>1. phase' = select
        BY <1>4, <3>4
      <4>2. Here(path)'
        BY <1>3, <2>3, <3>1, <3>3, <4>1 DEF Here, Reading
      <4> QED BY <4>2 DEF Covered
    <3>5. CASE id = KW_FAIL /\ Len(path) > Len(stack)
      BY <1>3, <1>9, <3>1, <3>2, <3>5, GoesOnToSubgroup
    <3>6. CASE id = KW_FAIL /\ Len(path) = Len(stack)
      <4>1. path \in dirs
        BY <1>3, <2>3, <3>6 DEF Here
      <4>2. path[Len(path)] = Top.tag
        BY <1>3, <3>1, <3>6, PathOfTheStack
      <4>3. Listed(db, path[Len(path)]) = {}
        BY <3>2, <3>6, <4>2, NothingListed
      <4>4. Filled(path)'
        BY <1>3, <4>1, <4>3 DEF Filled
      <4> QED BY <4>4 DEF Covered
    <3> QED BY <3>3, <3>4, <3>5, <3>6
  <2> QED BY <1>9, <2>1, <2>2, <2>3 DEF Covered
<1>10. phase' \in {"openFiles", "openBelow"} => id # KW_FAIL /\ id = get_tag_id(db, Top.tag)
  BY <1>4, <1>5
<1>11. phase' # "done"
  BY <1>4
<1>12. StepCovers
  BY <1>7, <1>9, <1>10, <1>11 DEF StepCovers
<1> QED BY <1>3, <1>8, <1>12, StepCompletes

(* A step that leaves the stack as it is.                                  *)
LEMMA SameStackCompletes ==
  ASSUME WalkInv, Complete, ~Ended, Growing, UNCHANGED <<stack, disturbed>>,
         phase' \in Reading \ {"openFiles", "openBelow"},
         \A path \in Dirs : ~disturbed /\ Good(path) /\ Good(path)' /\ Here(path) => Covered(path)'
  PROVE  Complete'
<1>1. Len(stack) \in Nat /\ SameCalls
  BY TopIsFrame DEF WalkInv, Standing, SameCalls
<1>2. ASSUME ~disturbed, NEW path \in Dirs, Good(path), Good(path)', Covered(path)
      PROVE  Covered(path)'
  <2>1. CASE Filled(path)
    BY <2>1, FilledStays DEF Covered
  <2>2. CASE Waiting(path)
    BY <1>1, <2>2, WaitingStays DEF Covered
  <2> QED BY <1>2, <2>1, <2>2 DEF Covered
<1>3. ~disturbed => StepCovers
  BY <1>2 DEF StepCovers, Reading
<1> QED BY <1>3, StepCompletes

LEMMA OpenFilesCompletes ==
  ASSUME WalkInv, Complete, OpenFiles
  PROVE  Complete'
<1>1. /\ phase = "openFiles" /\ phase' = "copying" /\ ~Ended
      /\ UNCHANGED <<db, stack, dirs, copies, disturbed>>
  BY DEF OpenFiles, Ended, Steps, disk
<1>2. \/ failed' = failed /\ todo' = FilesUnder(db, Top.id)
      \/ failed' = failed \cup {Path}
  BY DEF OpenFiles, Result
<1>3. Growing
  BY <1>1, <1>2 DEF Growing
<1>4. ASSUME ~disturbed, NEW path \in Dirs, Good(path)', Here(path) PROVE Covered(path)'
  <2>1. Follows(path, Len(stack)) /\ Follows(path, Len(stack))'
    BY <1>1, <1>4 DEF Here, Follows
  <2>2. failed' = failed /\ todo' = FilesUnder(db, Top.id)
    BY <1>1, <1>2, <1>4, <2>1, FailureCuts
  <2>3. CASE Len(path) > Len(stack)
    <3>1. Here(path)'
      BY <1>1, <2>1, <2>3 DEF Here, Reading
    <3> QED BY <3>1 DEF Covered
  <2>4. CASE Len(path) = Len(stack)
    <3>1. path \in dirs /\ path[Len(path)] = Top.tag
      BY <1>1, <1>4, <2>1, <2>4, PathOfTheStack, TopIsFrame DEF Here, WalkInv, Standing
    <3>2. Listed(db, path[Len(path)]) = todo'
      BY <1>1, <1>4, <2>2, <3>1, AllListed DEF Complete
    <3>3. Here(path)'
      BY <1>1, <2>1, <3>1, <3>2 DEF Here
    <3> QED BY <3>3 DEF Covered
  <2>5. Len(path) = Len(stack) \/ Len(path) > Len(stack)
    BY <1>1, <2>1, PathsAreSeqs, TopIsFrame DEF Follows, WalkInv, Standing
  <2> QED BY <2>3, <2>4, <2>5
<1> QED BY <1>1, <1>3, <1>4, SameStackCompletes DEF Reading

LEMMA CopyCompletes ==
  ASSUME WalkInv, Complete, Copy
  PROVE  Complete'
<1>1. /\ phase = "copying" /\ phase' = "copying" /\ ~Ended
      /\ UNCHANGED <<db, stack, dirs, disturbed>>
  BY DEF Copy, Ended, Steps
<1>2. PICK f \in todo :
        /\ todo' = todo \ {f}
        /\ \/ copies' = copies \cup {<<Path, f>>} /\ failed' = failed
           \/ failed' = failed \cup {<<Path, f>>} /\ copies' = copies
  BY DEF Copy, Fails
<1>3. Growing
  BY <1>1, <1>2 DEF Growing
<1>4. ASSUME NEW path \in Dirs, Here(path) PROVE Covered(path)'
  <2>1. Follows(path, Len(stack)) /\ Follows(path, Len(stack))'
    BY <1>1, <1>4 DEF Here, Follows
  <2>2. CASE Len(path) > Len(stack)
    <3>1. Here(path)'
      BY <1>1, <2>1, <2>2 DEF Here, Reading
    <3> QED BY <3>1 DEF Covered
  <2>3. CASE Len(path) = Len(stack)
    <3>1. /\ path \in dirs /\ path = Path
          /\ \A g \in Listed(db, path[Len(path)]) : g \in todo \/ Copied(path, g)
      BY <1>1, <1>4, <2>1, <2>3, PathOfTheStack, TopIsFrame DEF Here, WalkInv, Standing
    <3>2. \A g \in Listed(db, path[Len(path)]) : g \in todo' \/ Copied(path, g)'
      BY <1>2, <3>1 DEF Copied
    <3>3. Here(path)'
      BY <1>1, <2>1, <3>1, <3>2 DEF Here
    <3> QED BY <3>3 DEF Covered
  <2>4. Len(path) = Len(stack) \/ Len(path) > Len(stack)
    BY <1>1, <2>1, PathsAreSeqs, TopIsFrame DEF Follows, WalkInv, Standing
  <2> QED BY <2>2, <2>3, <2>4
<1> QED BY <1>1, <1>3, <1>4, SameStackCompletes DEF Reading

LEMMA CloseFilesCompletes ==
  ASSUME WalkInv, Complete, CloseFiles
  PROVE  Complete'
<1>1. /\ phase = "copying" /\ phase' = "below" /\ ~Ended /\ todo = {}
      /\ UNCHANGED <<db, stack, dirs, copies, failed, disturbed>>
  BY DEF CloseFiles, Ended, Steps, disk
<1>2. Growing
  BY <1>1 DEF Growing
<1>3. ASSUME NEW path \in Dirs, Here(path) PROVE Covered(path)'
  <2>1. CASE Len(path) > Len(stack)
    <3>1. Here(path)'
      BY <1>1, <1>3, <2>1 DEF Here, Reading, Follows
    <3> QED BY <3>1 DEF Covered
  <2>2. CASE ~(Len(path) > Len(stack))
    <3>1. Filled(path)
      BY <1>1, <1>3, <2>2 DEF Here, Filled
    <3> QED BY <1>2, <3>1, FilledStays DEF Covered
  <2> QED BY <2>1, <2>2
<1> QED BY <1>1, <1>2, <1>3, SameStackCompletes DEF Reading

LEMMA OpenBelowCompletes ==
  ASSUME WalkInv, Complete, OpenBelow
  PROVE  Complete'
<1>1. /\ phase = "openBelow" /\ phase' = "walking" /\ ~Ended
      /\ UNCHANGED <<db, dirs, copies, disturbed>> /\ Top.todo = {}
      /\ stack \in Seq(CallFrames) /\ Len(stack) \in Nat /\ Len(stack) >= 1
      /\ Len(stack) \in 1..Len(stack) /\ Top \in CallFrames
  BY TopIsFrame DEF OpenBelow, Ended, Steps, disk, WalkInv, Standing
<1>2. PICK tags \in SUBSET TagNames :
        /\ Result(tags = TagsBelow(db, Top.id), tags = {})
        /\ stack' = [stack EXCEPT ![Len(stack)].todo = tags]
  BY DEF OpenBelow
<1>3. \/ failed' = failed /\ tags = TagsBelow(db, Top.id)
      \/ failed' = failed \cup {Path}
  BY <1>2 DEF Result
<1>4. TopReplaced(stack', [Top EXCEPT !.todo = tags])
  BY <1>1, <1>2, ReplaceTodo
<1>5. /\ Len(stack') = Len(stack) /\ stack'[Len(stack)].todo = tags
      /\ \A i \in 1..Len(stack) : stack'[i].tag = stack[i].tag
      /\ \A i \in 1..Len(stack) : i # Len(stack) => stack'[i].todo = stack[i].todo
  BY <1>1, <1>4 DEF TopReplaced, Top, CallFrames
<1>6. Growing
  BY <1>1, <1>3, <1>5 DEF Growing
<1>7. \A path, k : k \in 1..Len(stack) /\ Follows(path, k) => Follows(path, k)'
  BY <1>1, <1>5 DEF Follows
<1>8. ASSUME ~disturbed, NEW path \in Dirs, Good(path), Good(path)', Covered(path)
      PROVE  Covered(path)'
  <2>1. CASE Filled(path)
    BY <1>6, <2>1, FilledStays DEF Covered
  <2>2. CASE Waiting(path)
    <3>1. PICK k \in 1..Len(stack) :
            Follows(path, k) /\ k < Len(path) /\ path[k+1] \in stack[k].todo
      BY <2>2 DEF Waiting
    <3>2. k # Len(stack)
      BY <1>1, <3>1 DEF Top
    <3>3. Waiting(path)'
      BY <1>5, <1>7, <3>1, <3>2 DEF Waiting
    <3> QED BY <3>3 DEF Covered
  <2>3. CASE Here(path)
    <3>1. Follows(path, Len(stack)) /\ Len(path) > Len(stack)
      BY <1>1, <2>3 DEF Here
    <3>2. tags = TagsBelow(db, Top.id)
      BY <1>1, <1>3, <1>8, <3>1, FailureCuts
    <3>3. path[Len(stack) + 1] \in tags
      BY <1>1, <1>8, <3>1, <3>2, GoesOnToSubgroup DEF Complete
    <3>4. Waiting(path)'
      BY <1>1, <1>5, <1>7, <3>1, <3>3 DEF Waiting
    <3> QED BY <3>4 DEF Covered
  <2> QED BY <1>8, <2>1, <2>2, <2>3 DEF Covered
<1>9. ~disturbed => StepCovers
  BY <1>1, <1>8 DEF StepCovers
<1> QED BY <1>1, <1>6, <1>9, StepCompletes

LEMMA DescendCompletes ==
  ASSUME WalkInv, Complete, Descend
  PROVE  Complete'
<1>1. /\ phase = "walking" /\ phase' = "enter" /\ ~Ended
      /\ UNCHANGED <<db, dirs, copies, failed, disturbed>>
      /\ stack \in Seq(CallFrames) /\ Len(stack) \in Nat /\ Len(stack) >= 1
      /\ Len(stack) \in 1..Len(stack) /\ Top \in CallFrames
  BY TopIsFrame DEF Descend, Ended, Steps, disk, WalkInv, Standing
<1>2. PICK n \in Top.todo :
        stack' = Append([stack EXCEPT ![Len(stack)].todo = @ \ {n}], Frame(n))
  BY DEF Descend
<1>3. Entered(stack', n)
  <2>1. n \in TagNames
    BY <1>1 DEF CallFrames
  <2> QED BY <1>1, <1>2, <2>1, Enter
<1>4. /\ Len(stack') = Len(stack) + 1 /\ stack'[Len(stack) + 1].tag = n
      /\ stack'[Len(stack)].todo = Top.todo \ {n}
      /\ \A i \in 1..Len(stack) : stack'[i].tag = stack[i].tag
      /\ \A i \in 1..Len(stack) : i # Len(stack) => stack'[i].todo = stack[i].todo
  BY <1>1, <1>3 DEF Entered, Top, CallFrames, Frame
<1>5. Growing
  BY <1>1, <1>4 DEF Growing
<1>6. \A path, k : k \in 1..Len(stack) /\ Follows(path, k) => Follows(path, k)'
  BY <1>1, <1>4 DEF Follows
<1>7. ASSUME NEW path \in Dirs, Covered(path) PROVE Covered(path)'
  <2>1. CASE Filled(path)
    BY <1>5, <2>1, FilledStays DEF Covered
  <2>2. CASE Waiting(path)
    <3>1. PICK k \in 1..Len(stack) :
            Follows(path, k) /\ k < Len(path) /\ path[k+1] \in stack[k].todo
      BY <2>2 DEF Waiting
    <3>2. CASE k = Len(stack) /\ path[k+1] = n
      <4>1. Len(stack') <= Len(path)
        BY <1>1, <1>4, <3>1, <3>2, PathsAreSeqs
      <4>2. \A i \in 1..Len(stack') : path[i] = stack'[i].tag
        <5>1. TAKE i \in 1..Len(stack')
        <5>2. i \in 1..Len(stack) \/ i = Len(stack) + 1
          BY <1>1, <1>4
        <5> QED BY <1>4, <3>1, <3>2, <5>2 DEF Follows
      <4>3. Follows(path, Len(stack))'
        BY <4>1, <4>2 DEF Follows
      <4>4. Here(path)'
        BY <1>1, <4>3 DEF Here
      <4> QED BY <4>4 DEF Covered
    <3>3. CASE ~(k = Len(stack) /\ path[k+1] = n)
      <4>1. k \in 1..Len(stack') /\ path[k+1] \in stack'[k].todo
        BY <1>1, <1>4, <3>1, <3>3 DEF Top
      <4>2. Waiting(path)'
        BY <1>6, <3>1, <4>1 DEF Waiting
      <4> QED BY <4>2 DEF Covered
    <3> QED BY <3>2, <3>3
  <2>3. CASE Here(path)
    BY <1>1, <2>3 DEF Here, Reading
  <2> QED BY <1>7, <2>1, <2>2, <2>3 DEF Covered
<1>8. StepCovers
  BY <1>1, <1>7 DEF StepCovers
<1> QED BY <1>1, <1>5, <1>8, StepCompletes

LEMMA AscendCompletes ==
  ASSUME WalkInv, Complete, Ascend
  PROVE  Complete'
<1>1. /\ phase = "walking" /\ ~Ended /\ Top.todo = {}
      /\ UNCHANGED <<db, dirs, copies, failed, disturbed>>
      /\ stack \in Seq(CallFrames) /\ Len(stack) \in Nat /\ Len(stack) >= 1
  BY TopIsFrame DEF Ascend, Ended, Steps, disk, WalkInv, Standing
<1>2. \A path : ~Here(path)
  BY <1>1 DEF Here, Reading
<1>3. CASE Outer
  <2>1. Len(stack) > 1 /\ stack' = SubSeq(stack, 1, Len(stack) - 1) /\ phase' = "walking"
    BY <1>3 DEF Ascend, Returned, Outer
  <2>2. Left(stack')
    BY <1>1, <2>1, Leave
  <2>3. Growing
    BY <1>1, <2>1, <2>2 DEF Growing, Left
  <2>4. ASSUME NEW path \in Dirs, Covered(path) PROVE Covered(path)'
    BY <1>1, <1>2, <2>1, <2>2, <2>3, <2>4, ReturnCovers
  <2>5. StepCovers
    BY <2>1, <2>4 DEF StepCovers
  <2> QED BY <1>1, <2>3, <2>5, StepCompletes
<1>4. CASE ~Outer
  <2>1. stack' = stack /\ phase' = "done" /\ Len(stack) = 1
    <3>1. ~(Len(stack) > 1)
      BY <1>4 DEF Outer
    <3>2. stack' = stack /\ phase' = "done"
      BY <1>4 DEF Ascend, Returned
    <3>3. \A n \in Nat : n >= 1 /\ ~(n > 1) => n = 1
      OBVIOUS
    <3>4. Len(stack) = 1
      BY <1>1, <3>1, <3>3
    <3> QED BY <3>2, <3>4
  <2>2. Growing
    BY <1>1, <2>1 DEF Growing
  <2>3. ASSUME NEW path \in Dirs, Covered(path) PROVE Filled(path)'
    <3>1. ~Waiting(path)
      BY <1>1, <2>1 DEF Waiting, Top
    <3> QED BY <1>2, <2>2, <2>3, <3>1, FilledStays DEF Covered
  <2>4. StepCovers
    BY <2>1, <2>3 DEF StepCovers, Ended
  <2> QED BY <1>1, <2>2, <2>4, StepCompletes
<1> QED BY <1>3, <1>4

LEMMA StartCompletes ==
  ASSUME WalkInv, NEW n \in TagNames, Start(n)
  PROVE  Complete'
<1>1. phase' = "enter" /\ Len(stack') = 1 /\ stack'[1] = Frame(n)
  BY DEF Start
<1>2. ASSUME NEW path \in Dirs, Good(path)' PROVE Covered(path)'
  <2>1. Follows(path, Len(stack))'
    BY <1>1, <1>2, PathsAreSeqs DEF Follows, Good
  <2>2. Here(path)'
    BY <1>1, <2>1 DEF Here
  <2> QED BY <2>2 DEF Covered
<1> QED BY <1>1, <1>2 DEF Complete

LEMMA DaemonCompletes ==
  ASSUME WalkInv, Complete, Daemon
  PROVE  Complete'
<1>1. UNCHANGED <<phase, stack, todo, dirs, copies, code, failed>>
  BY DaemonWaits
<1>2. ~disturbed' => ~disturbed /\ db' = db
  BY DEF Daemon
<1> SUFFICES ASSUME db' = db, ~disturbed PROVE Complete'
  BY <1>2 DEF Complete
<1> QED BY <1>1 DEF Complete, Ended, Good, Covered, Waiting, Here, Filled, Copied, Follows, Top

LEMMA CompleteKeeps == WalkInv /\ Complete /\ [ExportNext]_exportVars => Complete'
<1> SUFFICES ASSUME WalkInv, Complete, [ExportNext]_exportVars PROVE Complete'
  OBVIOUS
<1>1. CASE Kill
  BY <1>1 DEF Kill, Complete, Ended
<1>2. CASE UNCHANGED exportVars
  BY <1>2 DEF exportVars, statementVars, running, disk, Complete, Ended, Good, Covered, Waiting,
              Here, Filled, Copied, Follows, Top
<1> QED BY <1>1, <1>2, StartCompletes, MakeDirCompletes, LookUpCompletes, OpenFilesCompletes,
           CopyCompletes, CloseFilesCompletes, OpenBelowCompletes, DescendCompletes,
           AscendCompletes, DaemonCompletes
        DEF ExportNext, Walk

(* An export that says it is done has made every way down the subgroups of *)
(* its tag and copied the files, but below what failed, however deep and   *)
(* wide the subgroups are and though they may meet or form a cycle.        *)
THEOREM ExportsEverything == Export => []EverythingExported
<1>1. ExportInit => WalkInv /\ Complete
  BY EmptySeq DEF ExportInit, WalkInv, Complete, Ended
<1>2. WalkInv /\ Complete => EverythingExported
  BY DEF Complete, EverythingExported, Good, Filled, Copied
<1> QED BY <1>1, <1>2, WalkInvKeeps, CompleteKeeps, PTL DEF Export

-----------------------------------------------------------------------------
(* The statements of the daemon keep its calls in order (StInv), and the   *)
(* export leaves the tables and the calls.                                 *)
LEMMA DaemonKeepsCalls ==
  ASSUME StInv, Daemon
  PROVE  StInv'
<1>1. ASSUME NEW p \in Threads, Statement(p) PROVE StInv'
  BY <1>1, StatementAdvances, MovesKeepInv
<1> QED BY <1>1, BeginKeepsInv, CrashKeepsInv DEF Daemon

LEMMA CallsKept ==
  ASSUME StInv, [ExportNext]_exportVars
  PROVE  StInv'
<1>1. Walk \/ Kill => UNCHANGED <<db, calls, loose>>
  BY DEF Walk, Kill, MakeDir, LookUpFiles, LookUpBelow, LookUp, OpenFiles, Copy, CloseFiles,
         OpenBelow, Descend, Ascend, Steps
<1>2. (\E n \in TagNames : Start(n)) \/ UNCHANGED exportVars => UNCHANGED <<db, calls, loose>>
  BY DEF Start, exportVars, statementVars
<1> QED BY <1>1, <1>2, DaemonKeepsCalls, SameKeepsInv DEF ExportNext

(* Where the path goes that is copied to, and how deep it may be.          *)
Room == {"files", "openFiles", "copying", "below", "openBelow", "walking"}

ExportFits ==
  /\ disturbed \in BOOLEAN /\ code \in {KW_SUCCESS, KW_FAIL}
  /\ Len(stack) \in 0..(MaxDepth + 1)
  /\ phase \in Room => Len(stack) <= MaxDepth
  /\ phase \in {"files", "openFiles", "copying"} => Path \in dirs
  /\ todo \subseteq FileNames
  /\ dirs \subseteq Dirs /\ copies \subseteq dirs \X FileNames

(* The files of the tables are named.                                      *)
LEMMA FilesAreNamed ==
  ASSUME NEW d \in Databases, NEW t
  PROVE  FilesUnder(d, t) \subseteq FileNames
BY DEF FilesUnder, Databases, FileTable, FileNames

(* A step that leaves the depth of the stack and the tags of the calls.    *)
LEMMA SamePathFits ==
  ASSUME ExportFits, Len(stack') = Len(stack), \A i \in 1..Len(stack) : stack'[i].tag = stack[i].tag,
         UNCHANGED <<dirs, code, disturbed>>, phase \in Room, phase' \in Room,
         phase' \in {"files", "openFiles", "copying"} => phase \in {"files", "openFiles", "copying"},
         todo' \subseteq FileNames, copies' \subseteq dirs \X FileNames
  PROVE  ExportFits'
<1>1. Path' = Path
  BY DEF Path
<1>2. disturbed' \in BOOLEAN
  BY DEF ExportFits
<1> QED BY <1>1, <1>2 DEF ExportFits

LEMMA ReturnedFits ==
  ASSUME ExportFits, WalkInv, ~Ended, UNCHANGED <<dirs, copies, todo, disturbed>>,
         NEW result \in {KW_SUCCESS, KW_FAIL}, Returned(result)
  PROVE  ExportFits'
<1>1. disturbed' \in BOOLEAN /\ Len(stack) \in Nat /\ MaxDepth \in Nat /\ Len(stack) <= MaxDepth + 1
  BY ExportAssumption DEF ExportFits
<1>2. CASE Outer
  <2>1. Len(stack) > 1 /\ stack' = SubSeq(stack, 1, Len(stack) - 1) /\ phase' = "walking" /\ code' = code
    BY <1>2 DEF Returned, Outer
  <2>2. Len(stack') = Len(stack) - 1
    BY <2>1, Leave DEF Left, WalkInv
  <2>3. Len(stack') \in 0..(MaxDepth + 1) /\ Len(stack') <= MaxDepth
    BY <1>1, <2>1, <2>2
  <2> QED BY <1>1, <2>1, <2>3 DEF ExportFits
<1>3. CASE ~Outer
  <2>1. stack' = stack /\ phase' = "done" /\ code' = result
    BY <1>3 DEF Returned
  <2> QED BY <1>1, <2>1 DEF ExportFits, Room
<1> QED BY <1>2, <1>3

LEMMA MakeDirFits ==
  ASSUME ExportFits, WalkInv, MakeDir
  PROVE  ExportFits'
<1>1. /\ phase = "enter" /\ ~Ended /\ UNCHANGED <<todo, copies, disturbed>>
      /\ stack \in Seq(CallFrames) /\ Len(stack) \in Nat /\ Len(stack) >= 1
      /\ \A i \in 1..Len(stack) : stack[i] \in CallFrames
  BY TopIsFrame DEF MakeDir, Ended, Steps, WalkInv, Standing
<1>2. disturbed' \in BOOLEAN
  BY <1>1 DEF ExportFits
<1>3. CASE Returned(KW_FAIL) /\ UNCHANGED dirs
  BY <1>1, <1>3, ReturnedFits
<1>4. CASE phase' = "crashed" /\ UNCHANGED <<stack, dirs, code, failed, locked>>
  BY <1>1, <1>2, <1>4 DEF ExportFits, Room
<1>5. CASE /\ Len(stack) <= MaxDepth /\ phase' = "files"
           /\ dirs' = dirs \cup {Path} /\ UNCHANGED <<stack, code>>
  <2>1. Len(stack) \in 1..MaxDepth
    BY <1>1, <1>5, ExportAssumption
  <2>2. Path \in [1..Len(stack) -> TagNames]
    BY <1>1 DEF Path, CallFrames
  <2>3. Path \in Dirs
    BY <2>1, <2>2 DEF Dirs
  <2>4. dirs' \subseteq Dirs /\ copies' \subseteq dirs' \X FileNames
    BY <1>1, <1>5, <2>3 DEF ExportFits
  <2>5. Path' \in dirs'
    BY <1>5 DEF Path
  <2> QED BY <1>1, <1>2, <1>5, <2>4, <2>5 DEF ExportFits
<1> QED BY <1>3, <1>4, <1>5 DEF MakeDir

LEMMA LookUpFits ==
  ASSUME ExportFits, WalkInv, NEW at, NEW select, NEW after, LookUp(at, select, after),
         \/ at = "files" /\ select = "openFiles" /\ after = "below"
         \/ at = "below" /\ select = "openBelow" /\ after = "walking"
  PROVE  ExportFits'
<1>1. PICK id \in TagIds \cup {KW_FAIL} :
        /\ stack' = [stack EXCEPT ![Len(stack)].id = id]
        /\ phase' = (IF id = KW_FAIL THEN after ELSE select)
  BY DEF LookUp
<1>2. /\ phase = at /\ ~Ended /\ UNCHANGED <<todo, dirs, copies, code, disturbed>>
      /\ stack \in Seq(CallFrames) /\ Len(stack) >= 1 /\ Top \in CallFrames
  BY TopIsFrame DEF LookUp, Ended, Steps, disk, WalkInv, Standing
<1>3. TopReplaced(stack', [Top EXCEPT !.id = id])
  BY <1>1, <1>2, ReplaceId
<1>4. Len(stack') = Len(stack) /\ \A i \in 1..Len(stack) : stack'[i].tag = stack[i].tag
  BY <1>2, <1>3 DEF TopReplaced, Top, CallFrames
<1>5. todo' \subseteq FileNames /\ copies' \subseteq dirs \X FileNames
  BY <1>2 DEF ExportFits
<1> QED BY <1>1, <1>2, <1>4, <1>5, SamePathFits DEF Room

LEMMA OpenFilesFits ==
  ASSUME ExportFits, db \in Databases, OpenFiles
  PROVE  ExportFits'
<1>1. /\ phase = "openFiles" /\ phase' = "copying"
      /\ UNCHANGED <<stack, dirs, copies, code, disturbed>>
  BY DEF OpenFiles, Steps, disk
<1>2. todo' \subseteq FileNames
  BY FilesAreNamed DEF OpenFiles, Result
<1>3. copies' \subseteq dirs \X FileNames
  BY <1>1 DEF ExportFits
<1> QED BY <1>1, <1>2, <1>3, SamePathFits DEF Room

LEMMA CopyFits ==
  ASSUME ExportFits, Copy
  PROVE  ExportFits'
<1>1. /\ phase = "copying" /\ phase' = "copying" /\ UNCHANGED <<stack, dirs, code, disturbed>>
  BY DEF Copy, Steps
<1>2. PICK f \in todo : /\ todo' = todo \ {f}
                        /\ copies' = copies \cup {<<Path, f>>} \/ UNCHANGED copies
  BY DEF Copy
<1>3. todo' \subseteq FileNames /\ copies' \subseteq dirs \X FileNames
  BY <1>1, <1>2 DEF ExportFits
<1> QED BY <1>1, <1>3, SamePathFits DEF Room

LEMMA CloseFilesFits ==
  ASSUME ExportFits, CloseFiles
  PROVE  ExportFits'
<1>1. /\ phase = "copying" /\ phase' = "below"
      /\ UNCHANGED <<stack, todo, dirs, copies, code, disturbed>>
  BY DEF CloseFiles, Steps, disk
<1>2. todo' \subseteq FileNames /\ copies' \subseteq dirs \X FileNames
  BY <1>1 DEF ExportFits
<1> QED BY <1>1, <1>2, SamePathFits DEF Room

LEMMA OpenBelowFits ==
  ASSUME ExportFits, WalkInv, OpenBelow
  PROVE  ExportFits'
<1>1. PICK tags \in SUBSET TagNames : stack' = [stack EXCEPT ![Len(stack)].todo = tags]
  BY DEF OpenBelow
<1>2. /\ phase = "openBelow" /\ phase' = "walking" /\ ~Ended
      /\ UNCHANGED <<todo, dirs, copies, code, disturbed>>
      /\ stack \in Seq(CallFrames) /\ Len(stack) >= 1 /\ Top \in CallFrames
  BY TopIsFrame DEF OpenBelow, Ended, Steps, disk, WalkInv, Standing
<1>3. TopReplaced(stack', [Top EXCEPT !.todo = tags])
  BY <1>1, <1>2, ReplaceTodo
<1>4. Len(stack') = Len(stack) /\ \A i \in 1..Len(stack) : stack'[i].tag = stack[i].tag
  BY <1>2, <1>3 DEF TopReplaced, Top, CallFrames
<1>5. todo' \subseteq FileNames /\ copies' \subseteq dirs \X FileNames
  BY <1>2 DEF ExportFits
<1> QED BY <1>2, <1>4, <1>5, SamePathFits DEF Room

LEMMA DescendFits ==
  ASSUME ExportFits, WalkInv, Descend
  PROVE  ExportFits'
<1>1. /\ phase = "walking" /\ phase' = "enter" /\ ~Ended
      /\ UNCHANGED <<todo, dirs, copies, code, disturbed>>
      /\ stack \in Seq(CallFrames) /\ Len(stack) >= 1 /\ Top \in CallFrames
  BY TopIsFrame DEF Descend, Ended, Steps, disk, WalkInv, Standing
<1>2. PICK n \in Top.todo :
        stack' = Append([stack EXCEPT ![Len(stack)].todo = @ \ {n}], Frame(n))
  BY DEF Descend
<1>3. n \in TagNames
  BY <1>1, <1>2 DEF CallFrames
<1>4. Len(stack') = Len(stack) + 1
  BY <1>1, <1>2, <1>3, Enter DEF Entered
<1>5. Len(stack') \in 0..(MaxDepth + 1)
  BY <1>1, <1>4, ExportAssumption DEF ExportFits, Room
<1>6. disturbed' \in BOOLEAN
  BY <1>1 DEF ExportFits
<1> QED BY <1>1, <1>5, <1>6 DEF ExportFits, Room

LEMMA ExportFitsKeeps ==
  ASSUME ExportFits, WalkInv, db \in Databases, [ExportNext]_exportVars
  PROVE  ExportFits'
<1>1. CASE UNCHANGED exportVars
  <2>1. disturbed' \in BOOLEAN
    BY <1>1 DEF exportVars, ExportFits
  <2> QED BY <1>1, <2>1 DEF exportVars, running, disk, ExportFits, Path
<1>2. ASSUME NEW n \in TagNames, Start(n) PROVE ExportFits'
  <2>1. /\ stack' = <<Frame(n)>> /\ phase' = "enter" /\ disturbed' = FALSE
        /\ UNCHANGED <<todo, dirs, copies, code>>
    BY <1>2 DEF Start, disk
  <2>2. Len(stack') = 1 /\ 1 \in 0..(MaxDepth + 1)
    BY <2>1, ExportAssumption
  <2> QED BY <2>1, <2>2 DEF ExportFits, Room
<1>3. CASE LookUpFiles \/ LookUpBelow
  BY <1>3, LookUpFits DEF LookUpFiles, LookUpBelow
<1>4. CASE Ascend
  <2>1. ~Ended /\ UNCHANGED <<dirs, copies, todo, disturbed>> /\ Returned(KW_SUCCESS)
    BY <1>4 DEF Ascend, Ended, Steps, disk
  <2> QED BY <2>1, ReturnedFits
<1>5. CASE Kill
  <2>1. phase' = "killed" /\ UNCHANGED <<stack, todo, dirs, copies, code, disturbed>>
    BY <1>5 DEF Kill, Steps, disk
  <2>2. disturbed' \in BOOLEAN
    BY <2>1 DEF ExportFits
  <2> QED BY <2>1, <2>2 DEF ExportFits, Room
<1>6. CASE Daemon
  <2>1. UNCHANGED <<phase, stack, todo, dirs, copies, code>>
    BY <1>6, DaemonWaits
  <2>2. disturbed' = (disturbed \/ db' # db)
    BY <1>6 DEF Daemon
  <2>3. disturbed' \in BOOLEAN
    BY <2>2 DEF ExportFits
  <2> QED BY <2>1, <2>3 DEF ExportFits, Path
<1> QED BY <1>1, <1>2, <1>3, <1>4, <1>5, <1>6, MakeDirFits, OpenFilesFits, CopyFits, CloseFilesFits,
           OpenBelowFits, DescendFits DEF ExportNext, Walk

(* The state of the export has its type, with every statement the daemon   *)
(* may run in between: the path has room for every tag of a call but the   *)
(* one that is about to run over its end, and what is copied goes to a     *)
(* directory that has been made.                                           *)
THEOREM ExportTypeCorrect == Export => []ExportTypeOK
<1>1. ExportInit => StInv /\ WalkInv /\ ExportFits
  <2> SUFFICES ASSUME ExportInit PROVE StInv /\ WalkInv /\ ExportFits
    OBVIOUS
  <2>1. StInv
    BY InitInv DEF ExportInit
  <2>2. WalkInv
    BY EmptySeq DEF ExportInit, WalkInv, Ended
  <2>3. Len(stack) \in 0..(MaxDepth + 1)
    BY EmptySeq, ExportAssumption DEF ExportInit
  <2>4. disturbed \in BOOLEAN
    BY DEF ExportInit
  <2> QED BY <2>1, <2>2, <2>3, <2>4 DEF ExportInit, ExportFits, Room
<1>2. StInv /\ WalkInv /\ ExportFits /\ [ExportNext]_exportVars
        => StInv' /\ WalkInv' /\ ExportFits'
  BY CallsKept, WalkInvKeeps, ExportFitsKeeps DEF StInv, Tidy
<1>3. StInv /\ WalkInv /\ ExportFits => ExportTypeOK
  <2> SUFFICES ASSUME StInv, WalkInv, ExportFits PROVE ExportTypeOK
    OBVIOUS
  <2>1. disturbed \in BOOLEAN
    BY DEF ExportFits
  <2>2. \A i \in DOMAIN stack : stack[i] \in CallFrames
    BY ElementOfSeq, LenProperties DEF WalkInv
  <2> QED BY <2>1, <2>2 DEF ExportTypeOK, StInv, Tidy, WalkInv, ExportFits, CallFrames, Reading
<1> QED BY <1>1, <1>2, <1>3, PTL DEF Export

=============================================================================

-------------------------- MODULE ExtractionProofs --------------------------
(***************************************************************************)
(* Proofs of the invariants of the extracting side.                        *)
(*                                                                         *)
(* Of Extraction: for any archive, any list of files asked for, any        *)
(* BufWriter and any faults.  All but the type invariant assume that no    *)
(* temporary path is the path of an archived file: one whose name ends in  *)
(* .tmp would be removed as its own temporary file.                        *)
(*                                                                         *)
(* Of DiscWriter: for any disc, any blocks that fit the buffer and any     *)
(* faults.                                                                 *)
(***************************************************************************)
EXTENDS Extraction, DiscWriter, TLAPS

TmpsDiffer == \A n, m \in Name : TmpOf[n] # m

LEMMA Paths ==
  /\ \A n \in Name : n \in Path /\ TmpOf[n] \in Path
  /\ \A i \in 1 .. Len(roms) : roms[i] \in Name
  /\ Len(roms) \in Nat
BY ExtractionAssumption DEF ExtractionAssumption, Path, Range
-----------------------------------------------------------------------------
(***************************************************************************)
(* Type correctness.                                                       *)
(***************************************************************************)

(* What the BufWriter does not hold of the chunks taken is in the file.    *)
PlaceInv ==
  /\ pc \in {"chunks", "renamed", "failed"} =>
       disk[place] = <<name, taken - buffered>>
  /\ pc \in {"chunks", "failed"} => place = tmp
  /\ pc = "renamed" => place = name

TypeInv == TypeOK /\ PlaceInv

LEMMA TypeInit == Init => TypeInv
<1> SUFFICES ASSUME Init PROVE TypeInv
  OBVIOUS
<1>1. rom \in 1 .. Len(roms) + 1 /\ buffered \in 0 .. BUFFER
  BY Paths, ExtractionAssumption DEF Init, ExtractionAssumption
<1>2. disk \in [Path -> Content] /\ before \in [Path -> {Absent, Other}]
  BY DEF Init, Content
<1> QED
  BY <1>1, <1>2 DEF Init, TypeInv, TypeOK, PlaceInv

LEMMA TypeStep == TypeInv /\ [Next]_vars => TypeInv'
<1> SUFFICES ASSUME TypeInv, [Next]_vars PROVE TypeInv'
  OBVIOUS
<1>1. rom <= Len(roms) => name \in Name /\ name \in Path /\ tmp \in Path
  BY Paths DEF name, tmp, TypeInv, TypeOK
<1>2. rom' = rom => name' = name /\ tmp' = tmp
  BY DEF name, tmp
<1>3. /\ Absent \in Content /\ Other \in Content
      /\ \A n \in Name, k \in Nat : <<n, k>> \in Content
  BY DEF Content
<1>4. rom <= Len(roms) => Chunks[name] \in Nat
  BY <1>1, ExtractionAssumption DEF ExtractionAssumption
<1>5. BUFFER \in Nat /\ rom \in Nat /\ Len(roms) \in Nat
  BY Paths, ExtractionAssumption DEF ExtractionAssumption, TypeInv, TypeOK
<1>6. CASE CreateTmp
  <2>1. disk' \in [Path -> Content]
    BY <1>1, <1>3, <1>6 DEF CreateTmp, Created, TypeInv, TypeOK
  <2>2. CASE pc' = "chunks"
    <3>1. /\ place' = tmp /\ taken' = 0 /\ buffered' = 0
          /\ disk'[place'] = <<name, 0>>
          /\ rom <= Len(roms)
          /\ UNCHANGED <<running, rom, result, before, lost, tmp_left>>
      BY <1>1, <1>6, <2>2 DEF CreateTmp, Created, TypeInv, TypeOK, history
    <3> QED
      BY <1>1, <1>2, <1>4, <1>5, <2>1, <2>2, <3>1
         DEF TypeInv, TypeOK, PlaceInv
  <2>3. CASE pc' = "guard"
    BY <1>6, <2>1, <2>3
       DEF CreateTmp, TypeInv, TypeOK, PlaceInv, writer, history
  <2> QED
    BY <1>6, <2>2, <2>3 DEF CreateTmp
<1>7. CASE ChunkFails \/ Cancelled
  BY <1>2, <1>7
     DEF ChunkFails, Cancelled, Fail, TypeInv, TypeOK, PlaceInv, writer,
         history
<1>8. CASE WriteChunk
  <2>1. /\ pc = "chunks" /\ rom <= Len(roms) /\ taken < Chunks[name]
        /\ taken \in Nat /\ buffered \in Nat /\ buffered <= taken
        /\ buffered <= BUFFER
        /\ place \in {name, tmp} /\ place \in Path
        /\ disk[place] = <<name, taken - buffered>>
        /\ disk \in [Path -> Content]
    BY <1>1, <1>4, <1>8
       DEF WriteChunk, AllTaken, TypeInv, TypeOK, PlaceInv
  <2>2. UNCHANGED <<running, rom, place, before, lost, tmp_left>>
    BY <1>8 DEF WriteChunk, history
  <2>3. ASSUME NEW n \in Nat, Reach(n)
        PROVE  /\ disk' \in [Path -> Content]
               /\ disk'[place] = <<name, taken - buffered + n>>
    <3>1. disk[place][2] + n = taken - buffered + n
      BY <2>1
    <3>2. taken - buffered + n \in Nat
      BY <2>1
    <3> QED
      BY <1>1, <1>3, <2>1, <2>3, <3>1, <3>2 DEF Reach
  <2>4. CASE /\ Buffer \/ WriteThrough
             /\ taken' = taken + 1
             /\ UNCHANGED <<pc, result>>
    <3>1. CASE Buffer
      BY <1>2, <1>4, <1>5, <2>1, <2>2, <2>4, <3>1
         DEF Buffer, TypeInv, TypeOK, PlaceInv
    <3>2. CASE WriteThrough
      <4>1. /\ disk' \in [Path -> Content]
            /\ buffered' \in 0 .. BUFFER /\ buffered' <= taken'
            /\ disk'[place] = <<name, taken' - buffered'>>
        BY <1>5, <2>1, <2>3, <2>4, <3>2 DEF WriteThrough
      <4> QED
        BY <1>2, <1>4, <1>5, <2>1, <2>2, <2>4, <4>1
           DEF TypeInv, TypeOK, PlaceInv
    <3> QED
      BY <2>4, <3>1, <3>2
  <2>5. CASE /\ \E n \in 0 .. buffered :
                  Reach(n) /\ buffered' = buffered - n
             /\ Fail("Error")
             /\ UNCHANGED taken
    <3>1. /\ disk' \in [Path -> Content]
          /\ buffered' \in 0 .. buffered
          /\ disk'[place] = <<name, taken - buffered'>>
      BY <2>1, <2>3, <2>5
    <3> QED
      BY <1>2, <1>4, <1>5, <2>1, <2>2, <2>5, <3>1
         DEF Fail, TypeInv, TypeOK, PlaceInv
  <2> QED
    BY <1>8, <2>4, <2>5 DEF WriteChunk
<1>9. CASE Rename
  <2>1. /\ pc = "chunks" /\ rom <= Len(roms)
        /\ disk \in [Path -> Content]
        /\ UNCHANGED <<running, rom, taken, buffered, before, lost, tmp_left>>
    BY <1>9 DEF Rename, TypeInv, TypeOK, history
  <2>2. CASE pc' = "failed"
    BY <1>2, <1>9, <2>1, <2>2 DEF Rename, Fail, TypeInv, TypeOK, PlaceInv
  <2>3. CASE pc' = "renamed"
    <3>1. /\ place' = name /\ result' = result
          /\ disk' = [p \in Path |-> CASE p = name -> disk[tmp]
                                       [] p = tmp /\ p # name -> Absent
                                       [] OTHER -> disk[p]]
      BY <1>9, <2>3 DEF Rename, Fail
    <3>2. disk' \in [Path -> Content]
      BY <1>1, <1>3, <2>1, <3>1
    <3>3. disk'[name] = disk[tmp]
      BY <1>1, <2>1, <3>1
    <3>4. disk[tmp] = <<name, taken - buffered>>
      BY <2>1 DEF TypeInv, PlaceInv
    <3>5. disk'[place'] = <<name', taken' - buffered'>>
      BY <1>2, <2>1, <3>1, <3>3, <3>4
    <3>6. disk'[place'] \in {name'} \X (0 .. taken')
      BY <2>1, <3>5 DEF TypeInv, TypeOK
    <3> QED
      BY <1>2, <2>1, <2>3, <3>1, <3>2, <3>5, <3>6
         DEF TypeInv, TypeOK, PlaceInv
  <2> QED
    BY <1>9, <2>2, <2>3 DEF Rename, Fail
<1>10. CASE CloseWriter
  <2>1. /\ rom <= Len(roms) /\ place \in Path
        /\ taken \in Nat /\ buffered \in Nat /\ buffered <= taken
        /\ disk[place] = <<name, taken - buffered>>
        /\ disk \in [Path -> Content]
    BY <1>1, <1>4, <1>10 DEF CloseWriter, TypeInv, TypeOK, PlaceInv
  <2>2. disk' \in [Path -> Content]
    <3>1. PICK n \in 0 .. buffered : Reach(n)
      BY <1>10 DEF CloseWriter
    <3>2. disk[place][2] + n \in Nat
      BY <2>1
    <3> QED
      BY <1>1, <1>3, <2>1, <3>1, <3>2 DEF Reach
  <2>3. lost' \in BOOLEAN
    BY <1>10 DEF CloseWriter
  <2> QED
    BY <1>5, <1>10, <2>1, <2>2, <2>3
       DEF CloseWriter, TypeInv, TypeOK, PlaceInv
<1>11. CASE GuardDrop
  <2>1. disk' \in [Path -> Content]
    BY <1>1, <1>3, <1>11 DEF GuardDrop, TypeInv, TypeOK
  <2>2. rom <= Len(roms)
    BY <1>11 DEF GuardDrop, TypeInv, TypeOK
  <2>3. rom' \in 1 .. Len(roms) + 1 /\ pc' \in {"next", "returned"}
    BY <1>5, <1>11, <2>2 DEF GuardDrop, TypeInv, TypeOK
  <2> QED
    BY <1>11, <2>1, <2>3
       DEF GuardDrop, TypeInv, TypeOK, PlaceInv, writer
<1>12. CASE Finish \/ Cancel \/ Crash
  BY <1>2, <1>12
     DEF Finish, Cancel, Crash, TypeInv, TypeOK, PlaceInv, writer, history
<1>13. CASE UNCHANGED vars
  BY <1>2, <1>13 DEF vars, TypeInv, TypeOK, PlaceInv, writer, history
<1> QED
  BY <1>6, <1>7, <1>8, <1>9, <1>10, <1>11, <1>12, <1>13 DEF Next, Step, Done

(* Every variable keeps its type, and the open file is the temporary file  *)
(* or, once renamed, the final one, with no more than was taken.           *)
THEOREM TypeCorrect == Spec => []TypeOK
<1>1. TypeInv => TypeOK
  BY DEF TypeInv
<1> QED
  BY TypeInit, TypeStep, <1>1, PTL DEF Spec
-----------------------------------------------------------------------------
(***************************************************************************)
(* The files asked for.                                                    *)
(***************************************************************************)

(* How far the result is known.                                            *)
ResultInv ==
  /\ pc \in {"next", "chunks", "renamed"} => result = "none"
  /\ pc = "failed" => result # "none" /\ result # "Ok"
  /\ pc = "renamed" => taken = Chunks[name]
  /\ result = "Ok" => rom > Len(roms)

(* The file that was renamed and not closed yet.                           *)
Exposed(n) == pc \in {"renamed", "crashed"} /\ rom <= Len(roms) /\ n = name

(* Every other one is whole, or its turn has not come.                     *)
Settled(i) ==
  \/ disk[roms[i]] = Whole(roms[i])
  \/ i >= rom /\ disk[roms[i]] = before[roms[i]]

FilesInv ==
  /\ ResultInv
  /\ ~ lost => /\ \A i \in 1 .. Len(roms) : Settled(i) \/ Exposed(roms[i])
               /\ pc = "guard" /\ result = "none" => disk[name] = Whole(name)

LEMMA FilesInit == Init => FilesInv
BY Paths DEF Init, FilesInv, ResultInv, Settled

LEMMA ResultStep == TypeInv /\ FilesInv /\ [Next]_vars => ResultInv'
<1> SUFFICES ASSUME TypeInv, ResultInv, [Next]_vars PROVE ResultInv'
  BY DEF FilesInv
<1>1. rom' = rom => name' = name
  BY DEF name
<1>2. rom \in Nat /\ Len(roms) \in Nat
  BY Paths DEF TypeInv, TypeOK
<1>3. CASE CreateTmp
  BY <1>1, <1>2, <1>3 DEF CreateTmp, ResultInv
<1>4. CASE ChunkFails \/ Cancelled \/ WriteChunk \/ Rename
  BY <1>1, <1>2, <1>4, Zenon
     DEF ChunkFails, Cancelled, WriteChunk, Rename, Fail, AllTaken, ResultInv
<1>5. CASE CloseWriter \/ Cancel \/ Crash \/ UNCHANGED vars
  BY <1>1, <1>2, <1>5
     DEF CloseWriter, Cancel, Crash, vars, writer, ResultInv
<1>6. CASE GuardDrop
  BY <1>1, <1>2, <1>6 DEF GuardDrop, ResultInv, TypeInv, TypeOK
<1>7. CASE Finish
  BY <1>1, <1>2, <1>7 DEF Finish, ResultInv
<1> QED
  BY <1>3, <1>4, <1>5, <1>6, <1>7 DEF Next, Step, Done

LEMMA FilesStep ==
  TmpsDiffer /\ TypeInv /\ FilesInv /\ [Next]_vars => FilesInv'
<1> SUFFICES ASSUME TmpsDiffer, TypeInv, FilesInv, [Next]_vars, ~ lost'
             PROVE  /\ \A i \in 1 .. Len(roms) :
                         (Settled(i) \/ Exposed(roms[i]))'
                    /\ (pc = "guard" /\ result = "none"
                         => disk[name] = Whole(name))'
  BY ResultStep DEF FilesInv
<1>1. rom' = rom => name' = name
  BY DEF name
<1>2. /\ rom \in Nat /\ Len(roms) \in Nat
      /\ rom <= Len(roms) => name \in Name /\ name \in Path /\ tmp \in Path
      /\ \A i \in 1 .. Len(roms) :
           /\ roms[i] \in Name /\ roms[i] \in Path
           /\ rom <= Len(roms) => roms[i] # tmp
      /\ disk \in [Path -> Content]
  BY Paths DEF TmpsDiffer, name, tmp, TypeInv, TypeOK
<1>3. ASSUME rom' = rom, before' = before, ~ lost, pc # "renamed",
             pc' # "renamed" /\ (pc' = "crashed" <=> pc = "crashed"),
             \A i \in 1 .. Len(roms) : disk'[roms[i]] = disk[roms[i]]
      PROVE  \A i \in 1 .. Len(roms) : (Settled(i) \/ Exposed(roms[i]))'
  BY <1>1, <1>3 DEF FilesInv, Settled, Exposed, Whole
<1>4. CASE CreateTmp
  <2>1. \A i \in 1 .. Len(roms) : disk'[roms[i]] = disk[roms[i]]
    BY <1>2, <1>4 DEF CreateTmp, Created
  <2> QED
    BY <1>3, <1>4, <2>1 DEF CreateTmp, history
<1>5. CASE ChunkFails \/ Cancelled
  BY <1>3, <1>5 DEF ChunkFails, Cancelled, Fail, history
<1>6. CASE WriteChunk
  <2>1. place = tmp
    BY <1>6 DEF WriteChunk, TypeInv, PlaceInv
  <2>2. \A i \in 1 .. Len(roms) : disk'[roms[i]] = disk[roms[i]]
    <3>1. disk' = disk \/ \E x : disk' = [disk EXCEPT ![tmp] = x]
      BY <1>6, <2>1 DEF WriteChunk, Buffer, WriteThrough, Reach
    <3>2. rom <= Len(roms)
      BY <1>6 DEF WriteChunk, TypeInv, TypeOK
    <3> QED
      BY <1>2, <3>1, <3>2
  <2>3. pc' \in {"chunks", "failed"} /\ pc = "chunks"
    BY <1>6 DEF WriteChunk, Fail
  <2> QED
    BY <1>3, <1>6, <2>2, <2>3 DEF WriteChunk, history
<1>7. CASE Rename
  <2>1. CASE pc' = "renamed"
    <3>1. /\ pc = "chunks" /\ rom <= Len(roms)
          /\ UNCHANGED <<rom, before, lost>>
          /\ disk' = [p \in Path |-> CASE p = name -> disk[tmp]
                                       [] p = tmp /\ p # name -> Absent
                                       [] OTHER -> disk[p]]
      BY <1>7, <2>1 DEF Rename, Fail, history, TypeInv, TypeOK
    <3>2. \A i \in 1 .. Len(roms) :
            roms[i] # name => disk'[roms[i]] = disk[roms[i]]
      BY <1>2, <3>1
    <3> QED
      BY <1>1, <2>1, <3>1, <3>2 DEF FilesInv, Settled, Exposed, Whole
  <2>2. CASE pc' = "failed"
    BY <1>3, <1>7, <2>2 DEF Rename, history
  <2> QED
    BY <1>7, <2>1, <2>2 DEF Rename, Fail
<1>8. CASE CloseWriter
  <2>1. PICK n \in 0 .. buffered : Reach(n) /\ lost' = (lost \/ n < buffered)
    BY <1>8 DEF CloseWriter
  <2>2. /\ UNCHANGED <<rom, result, before>> /\ pc' = "guard"
        /\ ~ lost /\ n = buffered /\ rom <= Len(roms)
        /\ taken \in Nat /\ buffered \in Nat /\ buffered <= taken
        /\ disk[place] = <<name, taken - buffered>>
    <3>1. pc \in {"renamed", "failed"} /\ rom <= Len(roms)
      BY <1>8 DEF CloseWriter, TypeInv, TypeOK
    <3>2. /\ buffered \in Nat /\ taken \in Nat /\ buffered <= taken
          /\ disk[place] = <<name, taken - buffered>>
      <4>1. Chunks[name] \in Nat /\ BUFFER \in Nat
        BY <1>2, <3>1, ExtractionAssumption DEF ExtractionAssumption
      <4> QED
        BY <3>1, <4>1 DEF TypeInv, TypeOK, PlaceInv
    <3>3. ~ lost /\ n = buffered
      <4>1. ~ lost /\ ~ (n < buffered)
        BY <2>1, Zenon
      <4> QED
        BY <3>2, <4>1
    <3> QED
      BY <1>8, <3>1, <3>2, <3>3 DEF CloseWriter
  <2>3. disk' = [disk EXCEPT ![place] = <<name, taken>>]
    <3>1. disk[place][2] + n = taken
      BY <2>2
    <3> QED
      BY <2>1, <3>1 DEF Reach
  <2>4. CASE pc = "renamed"
    <3>1. place = name /\ taken = Chunks[name]
      BY <2>4 DEF TypeInv, PlaceInv, FilesInv, ResultInv
    <3>2. disk'[name] = Whole(name)
      BY <1>2, <2>2, <2>3, <3>1 DEF Whole
    <3>3. \A i \in 1 .. Len(roms) :
            roms[i] # name => disk'[roms[i]] = disk[roms[i]]
      BY <1>2, <2>2, <2>3, <3>1
    <3> QED
      BY <1>1, <2>2, <2>4, <3>2, <3>3 DEF FilesInv, Settled, Exposed, Whole
  <2>5. CASE pc = "failed"
    <3>1. place = tmp /\ result # "none"
      BY <2>5 DEF TypeInv, PlaceInv, FilesInv, ResultInv
    <3>2. \A i \in 1 .. Len(roms) : disk'[roms[i]] = disk[roms[i]]
      BY <1>2, <2>2, <2>3, <3>1
    <3> QED
      BY <1>3, <2>2, <2>5, <3>1, <3>2
  <2> QED
    BY <1>8, <2>4, <2>5 DEF CloseWriter
<1>9. CASE GuardDrop
  <2>1. /\ pc = "guard" /\ pc' \in {"next", "returned"} /\ rom <= Len(roms)
        /\ UNCHANGED <<result, before, lost>>
    BY <1>9 DEF GuardDrop, TypeInv, TypeOK
  <2>2. \A i \in 1 .. Len(roms) : disk'[roms[i]] = disk[roms[i]]
    BY <1>2, <1>9, <2>1 DEF GuardDrop
  <2>3. CASE result = "none"
    <3>1. disk[name] = Whole(name) /\ rom' = rom + 1
      BY <1>9, <2>1, <2>3 DEF GuardDrop, FilesInv
    <3> QED
      BY <1>2, <2>1, <2>2, <3>1
         DEF FilesInv, Settled, Exposed, Whole, name
  <2>4. CASE result # "none"
    BY <1>3, <1>9, <2>1, <2>2, <2>4 DEF GuardDrop
  <2> QED
    BY <2>3, <2>4
<1>10. CASE Finish \/ Cancel
  BY <1>1, <1>10
     DEF Finish, Cancel, FilesInv, Settled, Exposed, Whole, writer, history
<1>11. CASE Crash \/ UNCHANGED vars
  BY <1>1, <1>11
     DEF Crash, vars, FilesInv, Settled, Exposed, Whole, writer, history
<1> QED
  BY <1>4, <1>5, <1>6, <1>7, <1>8, <1>9, <1>10, <1>11 DEF Next, Step, Done

LEMMA FilesAlways == ASSUME TmpsDiffer PROVE Spec => [](TypeInv /\ FilesInv)
<1>1. TypeInv /\ FilesInv /\ [Next]_vars => TypeInv' /\ FilesInv'
  BY TypeStep, FilesStep
<1> QED
  BY TypeInit, FilesInit, <1>1, PTL DEF Spec

(* Ok means that every file asked for is on disk, whole, unless a          *)
(* BufWriter was dropped with data that it could not write.                *)
THEOREM OkWhole == ASSUME TmpsDiffer PROVE Spec => []OkIsWholeUnlessLost
<1>1. TypeInv /\ FilesInv => OkIsWholeUnlessLost
  BY Paths
     DEF TypeInv, TypeOK, FilesInv, ResultInv, Settled, Exposed,
         OkIsWholeUnlessLost, OkIsWhole
<1> QED
  BY FilesAlways, <1>1, PTL

(* Between two files and at the return, each is as it was or whole.        *)
THEOREM FilesAtomic == ASSUME TmpsDiffer PROVE Spec => []Atomic
<1>1. FilesInv => Atomic
  BY DEF FilesInv, Settled, Exposed, Atomic
<1> QED
  BY FilesAlways, <1>1, PTL

(* A file that was finished stays whole until it is asked for once more.   *)
THEOREM FinishedWhole == ASSUME TmpsDiffer PROVE Spec => []FinishedStayWhole
<1>1. TypeInv /\ FilesInv => FinishedStayWhole
  BY Paths
     DEF TypeInv, TypeOK, FilesInv, Settled, Exposed, FinishedStayWhole
<1> QED
  BY FilesAlways, <1>1, PTL
-----------------------------------------------------------------------------
(***************************************************************************)
(* Temporary files.                                                        *)
(***************************************************************************)

(* Of the paths used so far only the one in use may hold a file.           *)
InUse(p) ==
  /\ pc \in {"chunks", "renamed", "failed", "guard", "crashed"}
  /\ rom <= Len(roms) /\ p = tmp

TmpInv ==
  ~ tmp_left =>
    /\ \A i \in 1 .. Len(roms) :
         i < rom => disk[TmpOf[roms[i]]] = Absent \/ InUse(TmpOf[roms[i]])
    /\ pc = "returned" /\ rom <= Len(roms) => disk[tmp] = Absent

LEMMA TmpStep == TmpsDiffer /\ TypeInv /\ TmpInv /\ [Next]_vars => TmpInv'
<1> SUFFICES ASSUME TmpsDiffer, TypeInv, TmpInv, [Next]_vars, ~ tmp_left'
             PROVE  /\ \A i \in 1 .. Len(roms) :
                         (i < rom => \/ disk[TmpOf[roms[i]]] = Absent
                                     \/ InUse(TmpOf[roms[i]]))'
                    /\ (pc = "returned" /\ rom <= Len(roms)
                         => disk[tmp] = Absent)'
  BY DEF TmpInv
<1>1. rom' = rom => name' = name /\ tmp' = tmp
  BY DEF name, tmp
<1>2. /\ rom \in Nat /\ Len(roms) \in Nat
      /\ rom <= Len(roms) => tmp \in Path
      /\ \A i \in 1 .. Len(roms) :
           /\ TmpOf[roms[i]] \in Path
           /\ rom <= Len(roms) => TmpOf[roms[i]] # name
      /\ disk \in [Path -> Content]
  BY Paths DEF TmpsDiffer, name, tmp, TypeInv, TypeOK
<1>3. ASSUME rom' = rom, tmp_left' = tmp_left, rom <= Len(roms),
             pc' \in {"chunks", "renamed", "failed", "guard", "crashed"},
             \A i \in 1 .. Len(roms) :
               TmpOf[roms[i]] = tmp
                 \/ disk'[TmpOf[roms[i]]] = disk[TmpOf[roms[i]]]
      PROVE  /\ \A i \in 1 .. Len(roms) :
                  (i < rom => \/ disk[TmpOf[roms[i]]] = Absent
                              \/ InUse(TmpOf[roms[i]]))'
             /\ (pc = "returned" /\ rom <= Len(roms) => disk[tmp] = Absent)'
  BY <1>1, <1>2, <1>3 DEF TmpInv, InUse
<1>4. CASE CreateTmp
  <2>1. \A i \in 1 .. Len(roms) :
          TmpOf[roms[i]] = tmp \/ disk'[TmpOf[roms[i]]] = disk[TmpOf[roms[i]]]
    BY <1>2, <1>4 DEF CreateTmp, Created
  <2> QED
    BY <1>3, <1>4, <2>1 DEF CreateTmp, history
<1>5. CASE ChunkFails \/ Cancelled
  BY <1>3, <1>5 DEF ChunkFails, Cancelled, Fail, history, TypeInv, TypeOK
<1>6. CASE WriteChunk
  <2>1. /\ place = tmp /\ rom <= Len(roms) /\ rom' = rom
        /\ tmp_left' = tmp_left /\ pc' \in {"chunks", "failed"}
    BY <1>6
       DEF WriteChunk, Fail, history, TypeInv, TypeOK, PlaceInv
  <2>2. disk' = disk \/ \E x : disk' = [disk EXCEPT ![tmp] = x]
    BY <1>6, <2>1 DEF WriteChunk, Buffer, WriteThrough, Reach
  <2>3. \A i \in 1 .. Len(roms) :
          TmpOf[roms[i]] = tmp \/ disk'[TmpOf[roms[i]]] = disk[TmpOf[roms[i]]]
    BY <1>2, <2>1, <2>2
  <2> QED
    BY <1>3, <2>1, <2>3
<1>7. CASE Rename
  <2>1. /\ rom <= Len(roms) /\ UNCHANGED <<rom, tmp_left>>
        /\ pc' \in {"renamed", "failed"}
    BY <1>7 DEF Rename, Fail, history, TypeInv, TypeOK
  <2>2. \A i \in 1 .. Len(roms) :
          TmpOf[roms[i]] = tmp \/ disk'[TmpOf[roms[i]]] = disk[TmpOf[roms[i]]]
    BY <1>2, <1>7, <2>1 DEF Rename
  <2> QED
    BY <1>3, <2>1, <2>2
<1>8. CASE CloseWriter
  <2>1. PICK n : Reach(n)
    BY <1>8 DEF CloseWriter
  <2>2. /\ rom <= Len(roms) /\ UNCHANGED <<rom, tmp_left>> /\ pc' = "guard"
        /\ place \in {name, tmp}
    BY <1>8 DEF CloseWriter, TypeInv, TypeOK
  <2>3. \A i \in 1 .. Len(roms) :
          TmpOf[roms[i]] = tmp \/ disk'[TmpOf[roms[i]]] = disk[TmpOf[roms[i]]]
    BY <1>2, <2>1, <2>2 DEF Reach
  <2> QED
    BY <1>3, <2>2, <2>3
<1>9. CASE GuardDrop
  <2>1. /\ pc = "guard" /\ pc' \in {"next", "returned"} /\ rom <= Len(roms)
        /\ tmp \in Path
    BY <1>2, <1>9 DEF GuardDrop, TypeInv, TypeOK
  <2>2. ~ tmp_left /\ disk'[tmp] = Absent
    BY <1>2, <1>9, <2>1 DEF GuardDrop, Removed
  <2>3. \A p \in Path : p = tmp \/ disk'[p] = disk[p]
    BY <1>2, <1>9, <2>1 DEF GuardDrop
  <2>4. \A i \in 1 .. Len(roms) : i <= rom => disk'[TmpOf[roms[i]]] = Absent
    BY <1>2, <2>1, <2>2, <2>3 DEF TmpInv, InUse, tmp, name
  <2>5. CASE rom' = rom
    BY <1>1, <1>2, <2>2, <2>4, <2>5
  <2>6. CASE rom' = rom + 1 /\ pc' = "next"
    BY <1>2, <2>4, <2>6
  <2> QED
    BY <1>9, <2>5, <2>6 DEF GuardDrop
<1>10. CASE Finish \/ Cancel
  BY <1>1, <1>2, <1>10 DEF Finish, Cancel, TmpInv, InUse, writer, history
<1>11. CASE Crash \/ UNCHANGED vars
  BY <1>1, <1>2, <1>11 DEF Crash, vars, TmpInv, InUse, writer, history
<1> QED
  BY <1>4, <1>5, <1>6, <1>7, <1>8, <1>9, <1>10, <1>11 DEF Next, Step, Done

(* No temporary file is left behind at the return that could be removed.   *)
THEOREM TmpGone == ASSUME TmpsDiffer PROVE Spec => []TmpRemoved
<1>1. Init => TmpInv
  BY Paths DEF Init, TmpInv
<1>2. TypeInv /\ TmpInv /\ [Next]_vars => TypeInv' /\ TmpInv'
  BY TypeStep, TmpStep
<1>3. TypeInv /\ TmpInv => TmpRemoved
  BY Paths DEF TypeInv, TypeOK, TmpInv, InUse, TmpRemoved, tmp, name
<1> QED
  BY TypeInit, <1>1, <1>2, <1>3, PTL DEF Spec

(* Each file is old or whole, and no temporary file is left behind.        *)
THEOREM ExtractionSafe == ASSUME TmpsDiffer PROVE Spec => []Safe
BY TypeCorrect, FilesAtomic, TmpGone, PTL DEF Safe
-----------------------------------------------------------------------------
(***************************************************************************)
(* DiscWriter.                                                             *)
(***************************************************************************)

(***************************************************************************)
(* Type correctness.                                                       *)
(***************************************************************************)

(* What the assumption says of one sector and of one block.                *)
LEMMA DiscBounds ==
  /\ TotalSectors \in Nat /\ ResumeThreshold \in Nat /\ MaxBuffer \in Nat
  /\ ResumeThreshold < MaxBuffer
  /\ \A s \in Stream : /\ Len(blocks[s]) \in Nat
                       /\ \A b \in 1 .. Len(blocks[s]) : blocks[s][b] \in Nat
  /\ \A i \in 1 .. TotalSectors :
       /\ sectors[i].stream \in Stream
       /\ sectors[i].size \in Nat \ {0}
       /\ sectors[i].size <= ResumeThreshold
       /\ \A b \in 1 .. Len(blocks[sectors[i].stream]) :
            blocks[sectors[i].stream][b] + sectors[i].size <= MaxBuffer
  <1> DEFINE Sector == [stream : Stream, size : Nat \ {0}]
  <1>1. sectors \in Seq(Sector)
    BY DiscAssumption
  <1>2. TotalSectors \in Nat /\ \A i \in 1 .. TotalSectors : sectors[i] \in Sector
    <2> HIDE DEF Sector
    <2> QED
      BY <1>1 DEF TotalSectors
  <1>3. ASSUME NEW s \in Stream
        PROVE  /\ Len(blocks[s]) \in Nat /\ DOMAIN blocks[s] = 1 .. Len(blocks[s])
               /\ \A b \in 1 .. Len(blocks[s]) : blocks[s][b] \in Nat
    <2>1. blocks[s] \in Seq(Nat \ {0})
      BY DiscAssumption
    <2> QED
      BY <2>1
  <1>4. \A i \in 1 .. TotalSectors : /\ sectors[i].stream \in Stream
                                     /\ sectors[i].size \in Nat \ {0}
    BY <1>2
  <1>5. ASSUME NEW i \in 1 .. TotalSectors
        PROVE  /\ sectors[i].size <= ResumeThreshold
               /\ \A b \in 1 .. Len(blocks[sectors[i].stream]) :
                    blocks[sectors[i].stream][b] + sectors[i].size <= MaxBuffer
    <2> DEFINE s == sectors[i].stream
    <2>1. /\ sectors[i].size <= ResumeThreshold
          /\ \A b \in DOMAIN blocks[s] :
               blocks[s][b] + sectors[i].size <= MaxBuffer
      BY DiscAssumption
    <2>2. DOMAIN blocks[s] = 1 .. Len(blocks[s])
      BY <1>3, <1>4
    <2> QED
      BY <2>1, <2>2
  <1>6. /\ ResumeThreshold \in Nat /\ MaxBuffer \in Nat
        /\ ResumeThreshold < MaxBuffer
    BY DiscAssumption DEF ResumeThreshold
  <1> QED
    BY <1>2, <1>3, <1>4, <1>5, <1>6

LEMMA DiscTypeInit == DiscInit => DiscTypeOK
  BY DiscBounds DEF DiscInit, DiscTypeOK

LEMMA DiscTypeStep == DiscTypeOK /\ [DiscNext]_disc_vars => DiscTypeOK'
  <1> SUFFICES ASSUME DiscTypeOK, [DiscNext]_disc_vars
               PROVE  DiscTypeOK'
    OBVIOUS
  <1> USE DEF DiscTypeOK, buffers, workers, files, mainState, NotifyAll,
              WaitAs, Reasons
  <1>1. ASSUME NEW s \in Stream, WorkerNext(s)
        PROVE  DiscTypeOK'
    <2>1. CASE WorkerLoad(s)
      BY <2>1 DEF WorkerLoad
    <2>2. CASE WorkerPush(s)
      <3>1. worker_pc[s] \in {"lock", "resume", "fit"}
        BY <2>2 DEF WorkerPush
      <3>2. BlockLen(s) \in Nat /\ pushed[s] + 1 \in Nat
            /\ pushed[s] + 1 <= Len(blocks[s])
        BY <3>1, DiscBounds DEF BlockLen
      <3>3. CASE /\ filled' = [filled EXCEPT ![s] = @ + BlockLen(s)]
                 /\ pushed' = [pushed EXCEPT ![s] = @ + 1]
                 /\ worker_pc' = [worker_pc EXCEPT ![s] = "load"]
                 /\ NotifyAll(s)
        <4>1. filled' \in [Stream -> Nat] /\ pushed' \in [Stream -> Nat]
          BY <3>2, <3>3
        <4>2. \A t \in Stream : /\ pushed'[t] <= Len(blocks[t])
                                /\ worker_pc'[t] \in {"lock", "resume", "fit"}
                                     => pushed'[t] < Len(blocks[t])
          BY <3>2, <3>3
        <4> QED
          BY <2>2, <3>3, <4>1, <4>2 DEF WorkerPush
      <3>4. CASE /\ UNCHANGED <<filled, pushed>>
                 /\ WaitAs(s, "worker")
                 /\ \/ worker_pc' = [worker_pc EXCEPT ![s] = "resume"]
                    \/ worker_pc' = [worker_pc EXCEPT ![s] = "fit"]
        <4>1. waiting' \subseteq Stream \X {"worker", "main"}
          BY <3>4
        <4>2. /\ worker_pc' \in [Stream -> {"load", "lock", "resume", "fit",
                                            "failed", "exited"}]
              /\ \A t \in Stream : worker_pc'[t] \in {"lock", "resume", "fit"}
                                     => pushed'[t] < Len(blocks[t])
          BY <3>1, <3>4
        <4> QED
          BY <2>2, <3>4, <4>1, <4>2 DEF WorkerPush
      <3> QED
        BY <2>2, <3>3, <3>4 DEF WorkerPush, PushOrWait
    <2>3. CASE WorkerGuardDrop(s)
      BY <2>3 DEF WorkerGuardDrop
    <2> QED
      BY <1>1, <2>1, <2>2, <2>3 DEF WorkerNext
  <1>2. CASE CheckError
    BY <1>2, DiscBounds DEF CheckError, LeaveScope, Current
  <1>3. CASE Pull \/ Woken
    <2> DEFINE s == Current.stream
    <2>1. /\ loop_count < TotalSectors /\ loop_count + 1 \in 1 .. TotalSectors
          /\ s \in Stream /\ Current.size \in Nat
      BY <1>3, DiscBounds DEF Pull, Woken, Current
    <2>2. CASE PullOrWait(s) /\ UNCHANGED error
      <3> DEFINE left == IF filled[s] < Current.size THEN 0
                                                     ELSE filled[s] - Current.size
      <3>1. filled' \in [Stream -> Nat]
        <4>1. left \in Nat
          BY <2>1
        <4>2. filled' = filled \/ filled' = [filled EXCEPT ![s] = left]
          BY <2>2 DEF PullOrWait, Drained
        <4> QED
          BY <2>1, <4>1, <4>2
      <3>2. waiting' \subseteq Stream \X {"worker", "main"}
        BY <2>1, <2>2 DEF PullOrWait, Drained
      <3>3. /\ main_pc' \in {"check", "pull", "wait", "unwind"}
            /\ loop_count' \in 0 .. TotalSectors
            /\ main_pc' \in {"pull", "wait"} => loop_count' = loop_count
            /\ disc_result' \in Reasons \cup {"running", "Ok"}
        BY <2>1, <2>2 DEF PullOrWait, TakeSector, LeaveScope
      <3> QED
        BY <1>3, <2>1, <2>2, <3>1, <3>2, <3>3 DEF Pull, Woken
    <2>3. CASE ~ (PullOrWait(s) /\ UNCHANGED error)
      BY <1>3, <2>1, <2>3 DEF Pull, Woken, LeaveScope
    <2> QED
      BY <2>2, <2>3
  <1>4. CASE JoinAll \/ Unwind \/ FinishDisc
    BY <1>4 DEF JoinAll, Unwind, FinishDisc
  <1>5. CASE SpuriousWakeup \/ UNCHANGED disc_vars
    BY <1>5 DEF SpuriousWakeup, disc_vars
  <1> QED
    BY <1>1, <1>2, <1>3, <1>4, <1>5 DEF DiscNext, MainNext, Ended

(* Every variable keeps its type; no index into the blocks of a stream or  *)
(* the sectors of the disc leaves its range.                               *)
THEOREM DiscTypeCorrect == DiscSpec => []DiscTypeOK
  BY DiscTypeInit, DiscTypeStep, PTL DEF DiscSpec
-----------------------------------------------------------------------------
(***************************************************************************)
(* Who waits for what.                                                     *)
(***************************************************************************)

(* A thread that waits, and has not been notified since, waits for         *)
(* something that still is not so.                                         *)
WaitInv ==
  \A s \in Stream :
    /\ <<s, "main">> \in waiting =>
         /\ main_pc = "wait" /\ s = Current.stream
         /\ filled[s] < Current.size /\ ~ finished[s]
    /\ <<s, "worker">> \in waiting =>
         \/ worker_pc[s] = "resume" /\ filled[s] > ResumeThreshold
         \/ worker_pc[s] = "fit" /\ filled[s] + BlockLen(s) > MaxBuffer
    /\ worker_pc[s] = "exited" => finished[s]

LEMMA WaitInit == DiscInit => WaitInv
  BY DEF DiscInit, WaitInv

LEMMA WaitStep == DiscTypeOK /\ WaitInv /\ [DiscNext]_disc_vars => WaitInv'
  <1> SUFFICES ASSUME DiscTypeOK, WaitInv, [DiscNext]_disc_vars
               PROVE  WaitInv'
    OBVIOUS
  <1> USE DEF buffers, workers, files, mainState, NotifyAll, WaitAs
  <1>1. ASSUME NEW s \in Stream, WorkerNext(s)
        PROVE  WaitInv'
    <2>1. /\ UNCHANGED <<main_pc, loop_count>> /\ Current' = Current
          /\ \A t \in Stream \ {s} : /\ filled'[t] = filled[t]
                                     /\ finished'[t] = finished[t]
                                     /\ worker_pc'[t] = worker_pc[t]
                                     /\ pushed'[t] = pushed[t]
                                     /\ BlockLen(t)' = BlockLen(t)
      BY <1>1 DEF WorkerNext, WorkerLoad, WorkerPush, PushOrWait,
                  WorkerGuardDrop, Current, BlockLen, DiscTypeOK
    <2>2. CASE WorkerLoad(s)
      <3>1. /\ UNCHANGED <<filled, finished, waiting, pushed>>
            /\ worker_pc[s] = "load" /\ worker_pc'[s] \in {"lock", "failed"}
        BY <2>2 DEF WorkerLoad, DiscTypeOK
      <3> QED
        BY <2>1, <3>1 DEF WaitInv, BlockLen
    <2>3. CASE NotifyAll(s) /\ WorkerPush(s)
      <3>1. worker_pc'[s] = "load" \/ worker_pc'[s] \in {"resume", "fit"}
        BY <2>3 DEF WorkerPush, PushOrWait, DiscTypeOK
      <3>2. finished' = finished
        BY <2>3 DEF WorkerPush
      <3> QED
        BY <2>1, <2>3, <3>1, <3>2 DEF WaitInv
    <2>4. CASE WaitAs(s, "worker") /\ WorkerPush(s) /\ ~ NotifyAll(s)
      <3>1. /\ UNCHANGED <<filled, finished, pushed>>
            /\ \/ worker_pc'[s] = "resume" /\ filled[s] > ResumeThreshold
               \/ worker_pc'[s] = "fit" /\ ~ HasRoom(s)
        BY <2>4 DEF WorkerPush, PushOrWait, DiscTypeOK
      <3>2. BlockLen(s)' = BlockLen(s)
        BY <3>1 DEF BlockLen
      <3>3. worker_pc[s] # "exited" /\ filled[s] + BlockLen(s) \in Nat
        <4>1. worker_pc[s] \in {"lock", "resume", "fit"}
          BY <2>4 DEF WorkerPush
        <4>2. pushed[s] + 1 \in 1 .. Len(blocks[s]) /\ filled[s] \in Nat
          BY <4>1, DiscBounds DEF DiscTypeOK
        <4>3. BlockLen(s) \in Nat
          BY <4>2, DiscBounds DEF BlockLen
        <4> QED
          BY <4>1, <4>2, <4>3
      <3>4. \/ worker_pc'[s] = "resume" /\ filled'[s] > ResumeThreshold
            \/ worker_pc'[s] = "fit" /\ filled'[s] + BlockLen(s)' > MaxBuffer
        BY <3>1, <3>2, <3>3, DiscBounds DEF HasRoom
      <3>5. \A t \in Stream : <<t, "main">> \in waiting' => <<t, "main">> \in waiting
        BY <2>4
      <3>6. \A t \in Stream \ {s} :
              <<t, "worker">> \in waiting' => <<t, "worker">> \in waiting
        BY <2>4
      <3>7. worker_pc'[s] # "exited"
        BY <3>1
      <3> QED
        BY <2>1, <3>1, <3>4, <3>5, <3>6, <3>7 DEF WaitInv
    <2>5. CASE WorkerGuardDrop(s)
      <3>1. NotifyAll(s) /\ finished'[s]
        BY <2>5 DEF WorkerGuardDrop, DiscTypeOK
      <3> QED
        BY <2>1, <3>1 DEF WaitInv
    <2> QED
      BY <1>1, <2>2, <2>3, <2>4, <2>5 DEF WorkerNext, WorkerPush, PushOrWait
  <1>2. CASE Pull \/ Woken
    <2> DEFINE s == Current.stream
    <2>1. /\ s \in Stream /\ UNCHANGED <<finished, workers>>
          /\ \A t \in Stream : BlockLen(t)' = BlockLen(t)
          /\ \A t \in Stream : <<t, "main">> \notin waiting
      <3>1. loop_count + 1 \in 1 .. TotalSectors
        BY <1>2, DiscBounds DEF Pull, Woken, DiscTypeOK
      <3>2. s \in Stream
        BY <3>1, DiscBounds DEF Current
      <3>3. UNCHANGED <<finished, workers>>
        BY <1>2 DEF Pull, Woken
      <3>4. \A t \in Stream : <<t, "main">> \notin waiting
        BY <1>2 DEF Pull, Woken, WaitInv, Awake
      <3> QED
        BY <3>2, <3>3, <3>4 DEF BlockLen
    <2>2. CASE UNCHANGED <<filled, waiting>>
      BY <2>1, <2>2 DEF WaitInv
    <2>3. CASE Drained(s)
      <3>1. \A t \in Stream \ {s} : filled'[t] = filled[t]
        BY <2>3 DEF Drained, DiscTypeOK
      <3> QED
        BY <2>1, <2>3, <3>1 DEF Drained, WaitInv
    <2>4. CASE /\ MustWait(s) /\ WaitAs(s, "main")
               /\ main_pc' = "wait" /\ UNCHANGED <<filled, loop_count>>
      <3>1. Current' = Current
        BY <2>4 DEF Current
      <3> QED
        BY <2>1, <2>4, <3>1 DEF MustWait, WaitInv
    <2> QED
      BY <1>2, <2>2, <2>3, <2>4 DEF Pull, Woken, PullOrWait
  <1>3. CASE CheckError \/ JoinAll \/ Unwind \/ FinishDisc
    <2>1. /\ UNCHANGED <<filled, finished, waiting, worker_pc, pushed>>
          /\ main_pc # "wait"
      BY <1>3 DEF CheckError, JoinAll, Unwind, FinishDisc
    <2> QED
      BY <2>1 DEF WaitInv, BlockLen
  <1>4. CASE SpuriousWakeup \/ UNCHANGED disc_vars
    <2>1. /\ waiting' \subseteq waiting
          /\ UNCHANGED <<filled, finished, worker_pc, pushed, main_pc, loop_count>>
      BY <1>4 DEF SpuriousWakeup, disc_vars
    <2> QED
      BY <2>1 DEF WaitInv, BlockLen, Current
  <1> QED
    BY <1>1, <1>2, <1>3, <1>4 DEF DiscNext, MainNext, Ended

LEMMA WaitInvariant == DiscSpec => [](DiscTypeOK /\ WaitInv)
  <1>1. DiscTypeOK /\ WaitInv /\ [DiscNext]_disc_vars
          => (DiscTypeOK /\ WaitInv)'
    BY DiscTypeStep, WaitStep
  <1> QED
    BY <1>1, DiscTypeInit, WaitInit, PTL DEF DiscSpec

(* The two sides of a condition variable never both wait: what the one     *)
(* waits for excludes what the other waits for, as blocks fit the buffer   *)
(* and sectors its half.                                                   *)
THEOREM NoStall == DiscSpec => []NeverBothWait
  <1>1. ASSUME DiscTypeOK, WaitInv, NEW s \in Stream,
               <<s, "worker">> \in waiting, <<s, "main">> \in waiting
        PROVE  FALSE
    <2>1. /\ loop_count + 1 \in 1 .. TotalSectors
          /\ s = Current.stream /\ filled[s] < Current.size
      BY <1>1, DiscBounds DEF DiscTypeOK, WaitInv
    <2>2. /\ Current.size \in Nat /\ Current.size <= ResumeThreshold
          /\ \A b \in 1 .. Len(blocks[s]) : blocks[s][b] + Current.size <= MaxBuffer
      BY <2>1, DiscBounds DEF Current
    <2>3. CASE worker_pc[s] = "resume" /\ filled[s] > ResumeThreshold
      BY <1>1, <2>1, <2>2, <2>3, DiscBounds DEF DiscTypeOK
    <2>4. CASE worker_pc[s] = "fit" /\ filled[s] + BlockLen(s) > MaxBuffer
      <3>1. pushed[s] + 1 \in 1 .. Len(blocks[s])
        BY <1>1, <2>4, DiscBounds DEF DiscTypeOK
      <3>2. BlockLen(s) \in Nat /\ BlockLen(s) + Current.size <= MaxBuffer
        BY <2>2, <3>1, DiscBounds DEF BlockLen
      <3> QED
        BY <1>1, <2>1, <2>2, <2>4, <3>2, DiscBounds DEF DiscTypeOK
    <2> QED
      BY <1>1, <2>3, <2>4 DEF WaitInv
  <1>2. DiscTypeOK /\ WaitInv => NeverBothWait
    BY <1>1 DEF NeverBothWait
  <1> QED
    BY <1>2, WaitInvariant, PTL

(* Nobody waits for a worker that has gone.                                *)
THEOREM NoDeadPartner == DiscSpec => []WaitsForTheLiving
  <1>1. WaitInv => WaitsForTheLiving
    BY DEF WaitInv, WaitsForTheLiving
  <1> QED
    BY <1>1, WaitInvariant, PTL
-----------------------------------------------------------------------------
(***************************************************************************)
(* The final name.                                                         *)
(***************************************************************************)

(* The calling thread leaves the scope with an error, or with the disc     *)
(* written and both workers joined.                                        *)
EndInv ==
  /\ main_pc = "unwind" => disc_result # "running"
  /\ main_pc = "finish" /\ disc_result = "running" =>
       loop_count = TotalSectors /\ WorkersExited
  /\ output = "final" =>
       main_pc = "returned" /\ loop_count = TotalSectors /\ WorkersExited

LEMMA EndStep == DiscTypeOK /\ EndInv /\ [DiscNext]_disc_vars => EndInv'
  <1> SUFFICES ASSUME DiscTypeOK, EndInv, [DiscNext]_disc_vars
               PROVE  EndInv'
    OBVIOUS
  <1> USE DEF EndInv, workers, files, mainState
  <1>1. ASSUME NEW s \in Stream, WorkerNext(s)
        PROVE  EndInv'
    <2>1. UNCHANGED mainState /\ worker_pc[s] # "exited"
      BY <1>1 DEF WorkerNext, WorkerLoad, WorkerPush, WorkerGuardDrop,
                  WorkerEnding
    <2> QED
      BY <2>1 DEF WorkersExited
  <1>2. CASE Pull \/ Woken
    BY <1>2 DEF Pull, Woken, PullOrWait, TakeSector, LeaveScope, WorkersExited
  <1>3. CASE CheckError
    BY <1>3 DEF CheckError, LeaveScope, WorkersExited
  <1>4. CASE JoinAll \/ Unwind \/ FinishDisc
    BY <1>4 DEF JoinAll, Unwind, FinishDisc, WorkersExited
  <1>5. CASE SpuriousWakeup \/ UNCHANGED disc_vars
    BY <1>5 DEF SpuriousWakeup, disc_vars, WorkersExited
  <1> QED
    BY <1>1, <1>2, <1>3, <1>4, <1>5 DEF DiscNext, MainNext, Ended

(* The image takes its final name only when every sector has been written  *)
(* and both workers have ended.                                            *)
THEOREM FinalWhole == DiscSpec => []FinalIsWhole
  <1>1. DiscInit => EndInv
    BY DEF DiscInit, EndInv
  <1>2. EndInv => FinalIsWhole
    BY DEF EndInv, FinalIsWhole
  <1> QED
    BY <1>1, <1>2, EndStep, DiscTypeCorrect, PTL DEF DiscSpec

(* A wait always has somebody to end it: the other side of the condition   *)
(* variable is not waiting too, and has not gone.                          *)
THEOREM NoWaitForever == DiscSpec => []NobodyStalls
  BY NoStall, NoDeadPartner, PTL DEF NobodyStalls
-----------------------------------------------------------------------------
(***************************************************************************)
(* Bytes and their ends.                                                   *)
(***************************************************************************)

Taking == main_pc \in {"check", "pull", "wait"}

(* While sectors are taken, a worker that will push no more has pushed all *)
(* or has left an error that nobody has looked at.                         *)
CauseInv ==
  /\ BytesConserved
  /\ PrematureHasCause
  /\ Taking => disc_result = "running"
  /\ \A s \in Stream : finished[s] => worker_pc[s] = "exited"
  /\ Taking =>
       \A s \in Stream :
         /\ worker_pc[s] = "failed" => s \in error
         /\ worker_pc[s] = "exited" => s \in error \/ pushed[s] = Len(blocks[s])

LEMMA CauseInit == DiscInit => CauseInv
  <1> SUFFICES ASSUME DiscInit PROVE CauseInv
    OBVIOUS
  <1>1. BytesConserved
    BY TotalsAssumption DEF DiscInit, BytesConserved
  <1> QED
    BY <1>1 DEF DiscInit, CauseInv, PrematureHasCause, Taking

(* What one more block holds, and one more sector takes.                   *)
LEMMA OneMoreBlock ==
  ASSUME NEW s \in Stream, NEW n \in Nat, n < Len(blocks[s])
  PROVE  /\ BytesPushed[s][n] \in Nat
         /\ BytesPushed[s][n + 1] = BytesPushed[s][n] + blocks[s][n + 1]
  <1>1. n + 1 \in 1 .. Len(blocks[s]) /\ n \in 0 .. Len(blocks[s])
    BY DiscBounds
  <1>2. BytesPushed[s][n + 1] = BytesPushed[s][(n + 1) - 1] + blocks[s][n + 1]
    BY <1>1, TotalsAssumption
  <1>3. BytesPushed[s][n] \in Nat
    BY <1>1, TotalsAssumption
  <1> QED
    BY <1>2, <1>3

LEMMA OneMoreSector ==
  ASSUME NEW n \in Nat, n < TotalSectors, NEW s \in Stream
  PROVE  /\ BytesTaken[s][n] \in Nat
         /\ BytesTaken[s][n + 1] = BytesTaken[s][n]
              + (IF sectors[n + 1].stream = s THEN sectors[n + 1].size ELSE 0)
         /\ BytesTaken[s][n + 1] <= BytesPushed[s][Len(blocks[s])]
  <1>1. n + 1 \in 1 .. TotalSectors /\ n \in 0 .. TotalSectors
    BY DiscBounds
  <1>2. /\ BytesTaken[s][n + 1] = BytesTaken[s][(n + 1) - 1]
              + (IF sectors[n + 1].stream = s THEN sectors[n + 1].size ELSE 0)
        /\ BytesTaken[s][n + 1] <= BytesPushed[s][Len(blocks[s])]
    BY <1>1, TotalsAssumption
  <1>3. BytesTaken[s][n] \in Nat
    BY <1>1, TotalsAssumption
  <1> QED
    BY <1>2, <1>3

LEMMA WorkerConserves ==
  ASSUME DiscTypeOK, CauseInv, NEW s \in Stream, WorkerNext(s)
  PROVE  CauseInv'
  <1> USE DEF buffers, workers, files, mainState, NotifyAll, WaitAs
  <1>1. UNCHANGED mainState /\ Current' = Current /\ Taking' = Taking
    BY DEF WorkerNext, WorkerLoad, WorkerPush, WorkerGuardDrop, Current, Taking
  <1>2. error \subseteq error'
    BY DEF WorkerNext, WorkerLoad, WorkerPush, WorkerGuardDrop
  <1>3. BytesConserved'
    <2>1. CASE UNCHANGED <<filled, pushed>>
      BY <1>1, <2>1 DEF CauseInv, BytesConserved
    <2>2. CASE WorkerPush(s) /\ ~ UNCHANGED <<filled, pushed>>
      <3>1. /\ filled' = [filled EXCEPT ![s] = @ + BlockLen(s)]
            /\ pushed' = [pushed EXCEPT ![s] = @ + 1]
        BY <2>2 DEF WorkerPush, PushOrWait
      <3>2. pushed[s] \in Nat /\ pushed[s] < Len(blocks[s]) /\ filled[s] \in Nat
        BY <2>2 DEF WorkerPush, DiscTypeOK
      <3>3. /\ BytesPushed[s][pushed[s] + 1] = BytesPushed[s][pushed[s]] + BlockLen(s)
            /\ BytesPushed[s][pushed[s]] \in Nat
            /\ BlockLen(s) \in Nat
        <4>1. pushed[s] + 1 \in 1 .. Len(blocks[s])
          BY <3>2, DiscBounds
        <4> QED
          BY <3>2, <4>1, OneMoreBlock, DiscBounds DEF BlockLen
      <3>4. ASSUME Taking PROVE BytesTaken[s][loop_count] \in Nat
        <4>1. loop_count \in 0 .. TotalSectors
          BY DEF DiscTypeOK
        <4> QED
          BY <4>1, TotalsAssumption
      <3>5. ASSUME Taking, NEW t \in Stream
            PROVE  BytesPushed[t][pushed'[t]] = BytesTaken[t][loop_count] + filled'[t]
        <4>1. BytesPushed[t][pushed[t]] = BytesTaken[t][loop_count] + filled[t]
          BY <3>5 DEF CauseInv, BytesConserved, Taking
        <4>2. CASE t = s
          <5>1. pushed'[s] = pushed[s] + 1 /\ filled'[s] = filled[s] + BlockLen(s)
            BY <3>1 DEF DiscTypeOK
          <5> QED
            BY <3>2, <3>3, <3>4, <3>5, <4>1, <4>2, <5>1
        <4>3. CASE t # s
          BY <3>1, <4>1, <4>3 DEF DiscTypeOK
        <4> QED
          BY <4>2, <4>3
      <3> QED
        BY <1>1, <3>5 DEF BytesConserved, Taking
    <2> QED
      BY <2>1, <2>2 DEF WorkerNext, WorkerLoad, WorkerGuardDrop
  <1>4. PrematureHasCause'
    BY <1>1, <1>2 DEF CauseInv, PrematureHasCause
  <1>5. \A t \in Stream \ {s} : /\ finished'[t] = finished[t]
                               /\ worker_pc'[t] = worker_pc[t]
                               /\ pushed'[t] = pushed[t]
    BY DEF WorkerNext, WorkerLoad, WorkerPush, PushOrWait, WorkerGuardDrop,
           DiscTypeOK
  <1>6. /\ finished'[s] => worker_pc'[s] = "exited"
        /\ Taking => /\ worker_pc'[s] = "failed" => s \in error'
                     /\ worker_pc'[s] = "exited" =>
                          s \in error' \/ pushed'[s] = Len(blocks[s])
    <2>1. CASE WorkerLoad(s)
      BY <2>1 DEF WorkerLoad, CauseInv, DiscTypeOK
    <2>2. CASE WorkerPush(s)
      BY <2>2 DEF WorkerPush, PushOrWait, CauseInv, DiscTypeOK
    <2>3. CASE WorkerGuardDrop(s)
      BY <2>3 DEF WorkerGuardDrop, WorkerEnding, CauseInv, DiscTypeOK
    <2> QED
      BY <2>1, <2>2, <2>3 DEF WorkerNext
  <1> QED
    BY <1>1, <1>2, <1>3, <1>4, <1>5, <1>6 DEF CauseInv

(* A sector is taken whole, or its stream has ended for a cause.           *)
LEMMA PullConserves ==
  ASSUME DiscTypeOK, CauseInv, Pull \/ Woken
  PROVE  CauseInv'
  <1> DEFINE s == Current.stream
  <1> USE DEF buffers, workers, files, NotifyAll, WaitAs
  <1>1. /\ loop_count \in Nat /\ loop_count < TotalSectors
        /\ s \in Stream /\ Current.size \in Nat /\ Current = sectors[loop_count + 1]
    <2>1. loop_count + 1 \in 1 .. TotalSectors
      BY DiscBounds DEF Pull, Woken, DiscTypeOK
    <2> QED
      BY <2>1, DiscBounds DEF Pull, Woken, DiscTypeOK, Current
  <1>2. Taking /\ UNCHANGED <<finished, worker_pc, pushed>>
    BY DEF Pull, Woken, Taking
  <1>3. CASE PullOrWait(s) /\ UNCHANGED error
    <2>1. CASE MustWait(s)
      BY <1>2, <1>3, <2>1
        DEF PullOrWait, CauseInv, BytesConserved, PrematureHasCause, Taking
    <2>2. CASE ~ MustWait(s) /\ filled[s] < Current.size
      <3>1. finished[s]
        BY <1>1, <2>2 DEF MustWait, DiscTypeOK
      <3>2. s \in error
        <4>1. /\ BytesPushed[s][pushed[s]] = BytesTaken[s][loop_count] + filled[s]
              /\ worker_pc[s] = "exited"
              /\ s \in error \/ pushed[s] = Len(blocks[s])
          BY <1>1, <1>2, <3>1 DEF CauseInv, BytesConserved, Taking
        <4>2. /\ BytesTaken[s][loop_count] \in Nat
              /\ BytesTaken[s][loop_count + 1] = BytesTaken[s][loop_count] + Current.size
              /\ BytesTaken[s][loop_count + 1] <= BytesPushed[s][Len(blocks[s])]
          BY <1>1, OneMoreSector
        <4> QED
          BY <1>1, <2>2, <4>1, <4>2 DEF DiscTypeOK
      <3>3. /\ main_pc' = "unwind" /\ disc_result' = "premature"
            /\ UNCHANGED loop_count
        BY <1>1, <1>3, <2>2 DEF PullOrWait, TakeSector, LeaveScope, DiscTypeOK
      <3>4. Current' = Current
        BY <3>3 DEF Current
      <3> QED
        BY <1>2, <1>3, <3>2, <3>3, <3>4
          DEF CauseInv, BytesConserved, PrematureHasCause, Taking
    <2>3. CASE ~ MustWait(s) /\ filled[s] >= Current.size
      <3>1. filled' = [filled EXCEPT ![s] = filled[s] - Current.size]
        BY <1>1, <1>3, <2>3 DEF PullOrWait, Drained, DiscTypeOK
      <3>2. CASE loop_count' = loop_count + 1 /\ main_pc' = "check" /\ UNCHANGED disc_result
        <4>1. ASSUME NEW t \in Stream
              PROVE  BytesPushed[t][pushed[t]] = BytesTaken[t][loop_count + 1] + filled'[t]
          <5>1. BytesPushed[t][pushed[t]] = BytesTaken[t][loop_count] + filled[t]
            BY <1>2 DEF CauseInv, BytesConserved, Taking
          <5>2. /\ BytesTaken[t][loop_count] \in Nat
                /\ BytesTaken[t][loop_count + 1] = BytesTaken[t][loop_count]
                     + (IF s = t THEN Current.size ELSE 0)
            BY <1>1, OneMoreSector
          <5>3. filled'[t] = (IF s = t THEN filled[t] - Current.size ELSE filled[t])
                /\ filled[t] \in Nat
            BY <3>1 DEF DiscTypeOK
          <5> QED
            BY <1>1, <2>3, <5>1, <5>2, <5>3
        <4>2. BytesConserved'
          BY <1>2, <3>2, <4>1 DEF BytesConserved
        <4> QED
          BY <1>2, <1>3, <3>2, <4>2 DEF CauseInv, PrematureHasCause, Taking
      <3>3. CASE main_pc' = "unwind" /\ disc_result' = "sector"
        BY <1>2, <1>3, <3>3 DEF CauseInv, BytesConserved, PrematureHasCause, Taking
      <3> QED
        BY <1>1, <1>3, <2>3, <3>2, <3>3
          DEF PullOrWait, TakeSector, LeaveScope, DiscTypeOK
    <2> QED
      BY <1>1, <2>1, <2>2, <2>3 DEF DiscTypeOK
  <1>4. CASE main_pc' = "unwind" /\ disc_result' = "worker"
    BY <1>2, <1>4 DEF CauseInv, BytesConserved, PrematureHasCause, Taking
  <1> QED
    BY <1>3, <1>4 DEF Pull, Woken, LeaveScope

LEMMA CauseStep == DiscTypeOK /\ CauseInv /\ [DiscNext]_disc_vars => CauseInv'
  <1> SUFFICES ASSUME DiscTypeOK, CauseInv, [DiscNext]_disc_vars
               PROVE  CauseInv'
    OBVIOUS
  <1> USE DEF buffers, workers, files
  <1>1. CASE CheckError
    <2>1. UNCHANGED <<filled, finished, worker_pc, pushed, loop_count>> /\ Taking
      BY <1>1 DEF CheckError, Taking
    <2>2. CASE main_pc' = "unwind" /\ disc_result' = "worker"
      BY <2>1, <2>2 DEF CauseInv, BytesConserved, PrematureHasCause, Taking
    <2>3. CASE main_pc' = "pull" /\ UNCHANGED <<error, disc_result>>
      BY <2>1, <2>3 DEF CauseInv, BytesConserved, PrematureHasCause, Taking
    <2> QED
      BY <1>1, <2>2, <2>3 DEF CheckError, LeaveScope
  <1>2. CASE JoinAll \/ Unwind \/ FinishDisc
    <2>1. /\ UNCHANGED <<filled, finished, worker_pc, pushed, loop_count, error>>
          /\ main_pc' \in {"finish", "returned"}
          /\ disc_result' = "premature" => disc_result = "premature"
      BY <1>2 DEF JoinAll, Unwind, FinishDisc
    <2>2. Current' = Current
      BY <2>1 DEF Current
    <2> QED
      BY <2>1, <2>2 DEF CauseInv, BytesConserved, PrematureHasCause, Taking
  <1>3. CASE SpuriousWakeup \/ UNCHANGED disc_vars
    <2>1. UNCHANGED <<filled, finished, worker_pc, pushed, main_pc, loop_count,
                    error, disc_result>>
      BY <1>3 DEF SpuriousWakeup, disc_vars
    <2>2. Current' = Current
      BY <2>1 DEF Current
    <2> QED
      BY <2>1, <2>2 DEF CauseInv, BytesConserved, PrematureHasCause, Taking
  <1> QED
    BY <1>1, <1>2, <1>3, WorkerConserves, PullConserves
      DEF DiscNext, MainNext, Ended

(* The buffers hold what was pushed less what was taken, sector by sector, *)
(* and a stream ends early only if its worker failed, for any disc whose   *)
(* blocks hold what its sectors take.                                      *)
THEOREM BytesKept == DiscSpec => []BuffersSafe
  <1>1. DiscTypeOK /\ CauseInv /\ [DiscNext]_disc_vars
          => (DiscTypeOK /\ CauseInv)'
    BY DiscTypeStep, CauseStep
  <1>2. DiscTypeOK /\ CauseInv => BuffersSafe
    BY DEF CauseInv, BuffersSafe
  <1> QED
    BY <1>1, <1>2, DiscTypeInit, CauseInit, PTL DEF DiscSpec
=============================================================================

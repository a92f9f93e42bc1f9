------------------------ MODULE HomeMigrationProofs ------------------------
(***************************************************************************)
(* Proofs about the migration of ~/.tdc, for every number of racing        *)
(* processes, every set of durable files and every number of kills.  A     *)
(* published ~/.ti is whole because of what a staging directory holds at   *)
(* each point of the script, so the inductive invariant follows the staged *)
(* tree from the copy to the rename; the old tdc only ever adds a file, so *)
(* what the copy found in ~/.tdc is still there.                           *)
(***************************************************************************)
EXTENDS HomeMigration, TLAPS

StagedTree == [marker : BOOLEAN, files : [File -> Staged], source : SUBSET File]

(* While p builds its staging directory: what it found is still in ~/.tdc, *)
(* and is staged once p has looked at it.                                  *)
FoundIsStaged(p) ==
  /\ stage[p] \in StagedTree
  /\ \A f \in stage[p].source :
       legacy.files[f] # "absent" /\ (f \notin todo[p] => stage[p].files[f] # "absent")

(* Only the file whose copy is under way is half copied, and copyEntry has *)
(* let it through.                                                         *)
OnePartial(p) ==
  /\ \A f \in File : stage[p].files[f] = "partial" =>
       f \in todo[p] /\ legacy.files[f] \in {"usable", "corrupt"}
  /\ \A f, g \in File :
       stage[p].files[f] = "partial" /\ stage[p].files[g] = "partial" => f = g

NoPartial(p) == \A f \in File : stage[p].files[f] # "partial"

Canonical(p) == Parses(stage[p].files) /\ stage[p].files[Credentials] # "usable"

Building == {"copy", "copying", "mark", "validate", "publish", "rename"}

StagedWell(p) ==
  /\ pc[p] \in Building => FoundIsStaged(p)
  /\ pc[p] = "copying" => OnePartial(p)
  /\ pc[p] \in Building \ {"copying"} => NoPartial(p)
  /\ pc[p] \in {"mark", "validate", "publish", "rename"} => todo[p] = {}
  /\ pc[p] \in {"validate", "publish", "rename"} => stage[p].marker
  /\ pc[p] \in {"publish", "rename"} => Canonical(p)

StageInv == \A p \in Proc : StagedWell(p)

(* A process that has not made its staging directory has looked at nothing.*)
Before == {"new", "statHome", "mounts", "makeStage"}
TodoInv == \A p \in Proc : pc[p] \in Before => todo[p] = File

HomeInv == DestinationWhole /\ MigratedIsMarked

IInv == TypeOK /\ StageInv /\ TodoInv /\ HomeInv

-----------------------------------------------------------------------------
(* What a step leaves alone: the staging directory, the place in the code  *)
(* and the list of a process, and every file of ~/.tdc that was there.     *)
Keeps(p) ==
  /\ pc'[p] = pc[p] /\ stage'[p] = stage[p] /\ todo'[p] = todo[p]
  /\ \A f \in File : legacy.files[f] # "absent" => legacy'.files[f] = legacy.files[f]

(* A process another one does not touch stays as far as it was.            *)
LEMMA KeptStaysWell ==
  ASSUME NEW p \in Proc, TypeOK, StagedWell(p), Keeps(p)
  PROVE  StagedWell(p)'
<1>1. ASSUME pc[p] \in Building PROVE FoundIsStaged(p)'
  <2>1. FoundIsStaged(p)
    BY <1>1 DEF StagedWell
  <2>2. stage[p].source \subseteq File
    BY <2>1 DEF FoundIsStaged, StagedTree
  <2> QED
    BY <2>1, <2>2 DEF FoundIsStaged, Keeps
<1>2. ASSUME pc[p] = "copying" PROVE OnePartial(p)'
  <2>1. OnePartial(p)
    BY <1>2 DEF StagedWell
  <2> QED
    BY <2>1 DEF OnePartial, Keeps
<1>3. ASSUME NoPartial(p) PROVE NoPartial(p)'
  BY <1>3 DEF NoPartial, Keeps
<1>4. ASSUME Canonical(p) PROVE Canonical(p)'
  BY <1>4 DEF Canonical, Parses, Keeps
<1> QED
  BY <1>1, <1>2, <1>3, <1>4 DEF StagedWell, Keeps

(* StageFile writes one file of p's staging directory and nothing else.    *)
LEMMA StageFileWrites ==
  ASSUME NEW p \in Proc, NEW f \in File, NEW content \in Staged,
         TypeOK, stage[p] \in StagedTree, StageFile(p, f, content)
  PROVE  /\ stage' \in [Proc -> {None} \cup StagedTree]
         /\ stage'[p] \in StagedTree
         /\ stage'[p].marker = stage[p].marker
         /\ stage'[p].source = stage[p].source
         /\ stage'[p].files = [stage[p].files EXCEPT ![f] = content]
         /\ \A q \in Proc \ {p} : stage'[q] = stage[q]
<1> DEFINE tree == [stage[p] EXCEPT !.files[f] = content]
<1>1. stage[p].files \in [File -> Staged] /\ stage[p].marker \in BOOLEAN
      /\ stage[p].source \in SUBSET File
  BY DEF StagedTree
<1>2. [stage[p].files EXCEPT ![f] = content] \in [File -> Staged]
  BY <1>1
<1>3. /\ tree.marker = stage[p].marker /\ tree.source = stage[p].source
      /\ tree.files = [stage[p].files EXCEPT ![f] = content]
  BY DEF StagedTree
<1>4. tree \in StagedTree
  BY <1>1, <1>2 DEF StagedTree
<1>5. stage \in [Proc -> {None} \cup StagedTree]
  BY DEF TypeOK, StagedTree
<1>6. stage' = [stage EXCEPT ![p] = tree]
  BY DEF StageFile
<1> HIDE DEF tree
<1> QED
  BY <1>3, <1>4, <1>5, <1>6

(* A process that has left the script, or has not yet made a staging       *)
(* directory, owes nothing.                                                *)
LEMMA OutsideIsWell ==
  ASSUME NEW p \in Proc, pc'[p] \notin Building
  PROVE  StagedWell(p)'
BY DEF StagedWell, Building

(* The places a process can be.                                            *)
Step == {"new", "statHome", "marker", "mounts", "makeStage", "copy", "copying", "mark",
         "validate", "publish", "rename", "cleanup", "run", "write", "end", "failed",
         "conflict", "crashed"}

(* Goto and Fail move p and no other process.                              *)
LEMMA GotoMoves ==
  ASSUME NEW p \in Proc, NEW step \in Step, TypeOK, Goto(p, step)
  PROVE  pc' \in [Proc -> Step] /\ pc'[p] = step /\ \A q \in Proc \ {p} : pc'[q] = pc[q]
BY DEF Goto, TypeOK, Step

(* A failing process leaves the script, with or without a cleanup.         *)
LEMMA FailMoves ==
  ASSUME NEW p \in Proc, TypeOK, Fail(p)
  PROVE  /\ pc' \in [Proc -> Step] /\ pc'[p] \in {"failed", "cleanup"}
         /\ \A q \in Proc \ {p} : pc'[q] = pc[q]
BY GotoMoves DEF Fail, Step

-----------------------------------------------------------------------------
(* The first state satisfies the invariant.                                *)
LEMMA InitIInv == Init => IInv
<1> SUFFICES ASSUME Init PROVE IInv
  OBVIOUS
<1>1. TypeOK
  <2>1. legacy \in [present : BOOLEAN, files : [File -> Legacy], mounted : BOOLEAN]
    <3>1. Empty \in [File -> Legacy]
      BY DEF Empty, Legacy
    <3>2. CASE legacy = [present |-> FALSE, files |-> Empty, mounted |-> FALSE]
      BY <3>1, <3>2
    <3>3. CASE legacy \in [present : {TRUE}, files : [File -> Legacy], mounted : BOOLEAN]
      BY <3>3
    <3> QED
      BY <3>2, <3>3 DEF Init
  <2>2. home \in [present : BOOLEAN, marker : BOOLEAN, files : [File -> Published],
                  source : SUBSET File]
    <3>1. Empty \in [File -> Published]
      BY DEF Empty, Published
    <3> QED
      BY <3>1 DEF Init
  <2> QED
    BY <2>1, <2>2, HomeAssumption DEF Init, TypeOK
<1>2. StageInv
  BY DEF Init, StageInv, StagedWell, Building
<1>3. HomeInv
  BY DEF Init, HomeInv, DestinationWhole, MigratedIsMarked, Empty
<1>4. TodoInv
  BY DEF Init, TodoInv
<1> QED
  BY <1>1, <1>2, <1>3, <1>4 DEF IInv

(* ~/.ti is the same after a step that does not touch it.                  *)
LEMMA HomeKept ==
  ASSUME HomeInv, UNCHANGED home
  PROVE  HomeInv'
BY DEF HomeInv, DestinationWhole, MigratedIsMarked

(* A step that takes p somewhere outside the script.                       *)
LEMMA LeaveKeeps ==
  ASSUME NEW p \in Proc, IInv, UNCHANGED <<legacy, todo>>,
         home' \in [present : BOOLEAN, marker : BOOLEAN, files : [File -> Published],
                    source : SUBSET File],
         HomeInv',
         stage' \in [Proc -> {None} \cup StagedTree],
         \A q \in Proc \ {p} : stage'[q] = stage[q] /\ pc'[q] = pc[q],
         pc' \in [Proc -> Step], pc'[p] \notin Building,
         pc'[p] \in Before => pc[p] \in Before,
         sawLegacy' \in [Proc -> BOOLEAN], crashes' \in 0 .. MaxCrashes
  PROVE  IInv'
<1>1. TypeOK /\ StageInv /\ TodoInv
  BY DEF IInv
<1>2. TypeOK'
  BY <1>1 DEF TypeOK, Step, StagedTree
<1>3. StagedWell(p)'
  BY OutsideIsWell
<1>4. ASSUME NEW q \in Proc \ {p} PROVE StagedWell(q)'
  BY <1>1, KeptStaysWell DEF StageInv, Keeps
<1>5. TodoInv'
  BY <1>1 DEF TodoInv
<1> QED
  BY <1>2, <1>3, <1>4, <1>5 DEF IInv, StageInv

(* A step of p that only moves p somewhere outside the script.             *)
LEMMA LookKeeps ==
  ASSUME NEW p \in Proc, IInv, UNCHANGED <<legacy, home, todo>>,
         stage' \in [Proc -> {None} \cup StagedTree],
         \A q \in Proc \ {p} : stage'[q] = stage[q] /\ pc'[q] = pc[q],
         pc' \in [Proc -> Step], pc'[p] \notin Building,
         pc'[p] \in Before => pc[p] \in Before,
         sawLegacy' \in [Proc -> BOOLEAN], crashes' \in 0 .. MaxCrashes
  PROVE  IInv'
<1>1. home \in [present : BOOLEAN, marker : BOOLEAN, files : [File -> Published],
                source : SUBSET File] /\ HomeInv
  BY DEF IInv, TypeOK
<1> QED
  BY <1>1, HomeKept, LeaveKeeps

(* A step of p inside the script: it may write p's staging directory.      *)
LEMMA ScriptKeeps ==
  ASSUME NEW p \in Proc, IInv, UNCHANGED <<legacy, home, sawLegacy, crashes>>,
         stage' \in [Proc -> {None} \cup StagedTree], todo' \in [Proc -> SUBSET File],
         \A q \in Proc \ {p} :
           stage'[q] = stage[q] /\ pc'[q] = pc[q] /\ todo'[q] = todo[q],
         pc' \in [Proc -> Step], pc'[p] \notin Before, StagedWell(p)'
  PROVE  IInv'
<1>1. TypeOK /\ StageInv /\ TodoInv /\ HomeInv
  BY DEF IInv
<1>2. TypeOK'
  BY <1>1 DEF TypeOK, Step, StagedTree
<1>4. ASSUME NEW q \in Proc \ {p} PROVE StagedWell(q)'
  BY <1>1, KeptStaysWell DEF StageInv, Keeps
<1>5. TodoInv'
  BY <1>1 DEF TodoInv
<1> QED
  BY <1>1, <1>2, <1>4, <1>5, HomeKept DEF IInv, StageInv

(* Every step keeps the invariant.                                         *)
LEMMA NextIInv == IInv /\ [Next]_vars => IInv'
<1> SUFFICES ASSUME IInv, [Next]_vars PROVE IInv'
  OBVIOUS
<1>0. TypeOK /\ StageInv /\ TodoInv /\ HomeInv
  BY DEF IInv
<1>a. /\ stage \in [Proc -> {None} \cup StagedTree] /\ pc \in [Proc -> Step]
      /\ sawLegacy \in [Proc -> BOOLEAN] /\ todo \in [Proc -> SUBSET File]
      /\ crashes \in 0 .. MaxCrashes
  BY <1>0 DEF TypeOK, StagedTree, Step
<1>1. ASSUME NEW p \in Proc, StatLegacy(p) PROVE IInv'
  <2>1. sawLegacy' \in [Proc -> BOOLEAN]
    BY <1>0, <1>1 DEF StatLegacy, TypeOK
  <2>2. pc' \in [Proc -> Step] /\ pc'[p] \notin Building
        /\ (pc'[p] \in Before => pc[p] \in Before)
        /\ \A q \in Proc \ {p} : pc'[q] = pc[q]
    BY <1>0, <1>1, GotoMoves DEF StatLegacy, Step, Building, Before
  <2> QED
    BY <1>a, <1>1, <2>1, <2>2, LookKeeps DEF StatLegacy
<1>2. ASSUME NEW p \in Proc, StatHome(p) PROVE IInv'
  <2>1. pc' \in [Proc -> Step] /\ pc'[p] \notin Building
        /\ (pc'[p] \in Before => pc[p] \in Before)
        /\ \A q \in Proc \ {p} : pc'[q] = pc[q]
    BY <1>0, <1>2, GotoMoves DEF StatHome, Step, Building, Before
  <2> QED
    BY <1>a, <1>2, <2>1, LookKeeps DEF StatHome
<1>3. ASSUME NEW p \in Proc, validMigrationMarker(p) PROVE IInv'
  <2>1. pc' \in [Proc -> Step] /\ pc'[p] \notin Building
        /\ (pc'[p] \in Before => pc[p] \in Before)
        /\ \A q \in Proc \ {p} : pc'[q] = pc[q]
    BY <1>0, <1>3, GotoMoves DEF validMigrationMarker, Step, Building, Before
  <2> QED
    BY <1>a, <1>3, <2>1, LookKeeps DEF validMigrationMarker
<1>4. ASSUME NEW p \in Proc, activeLegacyMount(p) PROVE IInv'
  <2>1. pc' \in [Proc -> Step] /\ pc'[p] \notin Building
        /\ (pc'[p] \in Before => pc[p] \in Before)
        /\ \A q \in Proc \ {p} : pc'[q] = pc[q]
    BY <1>0, <1>4, GotoMoves DEF activeLegacyMount, Step, Building, Before
  <2> QED
    BY <1>a, <1>4, <2>1, LookKeeps DEF activeLegacyMount
<1>5. ASSUME NEW p \in Proc, MakeStage(p) PROVE IInv'
  <2> DEFINE fresh == [marker |-> FALSE, files |-> Empty, source |-> Names(legacy.files)]
  <2>1. fresh \in StagedTree
    BY DEF StagedTree, Empty, Names, Staged
  <2>2. CASE stage' = [stage EXCEPT ![p] = fresh] /\ Goto(p, "copy")
    <3>1. /\ pc' \in [Proc -> Step] /\ pc'[p] = "copy"
          /\ \A q \in Proc \ {p} : pc'[q] = pc[q] /\ stage'[q] = stage[q]
          /\ stage'[p] = fresh /\ stage' \in [Proc -> {None} \cup StagedTree]
      BY <1>0, <1>a, <2>1, <2>2, GotoMoves DEF Step
    <3>2. todo'[p] = File /\ UNCHANGED legacy
      BY <1>0, <1>5 DEF MakeStage, TodoInv, Before
    <3>3. FoundIsStaged(p)' /\ NoPartial(p)'
      BY <2>1, <3>1, <3>2 DEF FoundIsStaged, NoPartial, Names, Empty
    <3>4. StagedWell(p)'
      BY <3>1, <3>3 DEF StagedWell
    <3> QED
      BY <1>a, <1>5, <3>1, <3>4, ScriptKeeps DEF MakeStage, Before
  <2>3. CASE UNCHANGED stage /\ Goto(p, "failed")
    <3>1. pc' \in [Proc -> Step] /\ pc'[p] \notin Building \cup Before
          /\ \A q \in Proc \ {p} : pc'[q] = pc[q]
      BY <1>0, <2>3, GotoMoves DEF Step, Building, Before
    <3> QED
      BY <1>a, <1>5, <2>3, <3>1, LookKeeps DEF MakeStage
  <2> QED
    BY <1>5, <2>2, <2>3 DEF MakeStage
(* a step of the script that ends it, whatever else it wrote              *)
<1>b. ASSUME NEW p \in Proc, Fail(p), UNCHANGED <<legacy, home, sawLegacy, todo, crashes>>,
             stage' \in [Proc -> {None} \cup StagedTree],
             \A q \in Proc \ {p} : stage'[q] = stage[q]
      PROVE  IInv'
  <2>1. pc' \in [Proc -> Step] /\ pc'[p] \notin Building \cup Before
        /\ \A q \in Proc \ {p} : pc'[q] = pc[q]
    BY <1>0, <1>b, FailMoves DEF Building, Before
  <2> QED
    BY <1>a, <1>b, <2>1, LookKeeps
<1>6. ASSUME NEW p \in Proc, copyEntry(p) PROVE IInv'
  <2>0. FoundIsStaged(p) /\ NoPartial(p) /\ stage[p] \in StagedTree
    BY <1>0, <1>6 DEF copyEntry, StageInv, StagedWell, Building, FoundIsStaged
  <2>1. ASSUME NEW f \in todo[p], legacy.files[f] = "absent",
               todo' = [todo EXCEPT ![p] = @ \ {f}], UNCHANGED <<stage, pc>>
        PROVE  IInv'
    <3>1. todo' \in [Proc -> SUBSET File] /\ todo'[p] = todo[p] \ {f}
          /\ \A q \in Proc \ {p} : todo'[q] = todo[q]
      BY <1>a, <2>1
    <3>2. FoundIsStaged(p)' /\ NoPartial(p)'
      BY <1>6, <2>0, <2>1, <3>1 DEF copyEntry, FoundIsStaged, NoPartial
    <3>3. StagedWell(p)'
      BY <1>6, <2>1, <3>2 DEF copyEntry, StagedWell
    <3> QED
      BY <1>a, <1>6, <2>1, <3>1, <3>3, ScriptKeeps DEF copyEntry, Before
  <2>2. ASSUME NEW f \in todo[p], legacy.files[f] \in {"usable", "corrupt"},
               StageFile(p, f, "partial"), Goto(p, "copying"), UNCHANGED todo
        PROVE  IInv'
    <3>0. f \in File
      BY <1>a, <2>2
    <3>1. /\ stage' \in [Proc -> {None} \cup StagedTree] /\ stage'[p] \in StagedTree
          /\ stage'[p].source = stage[p].source
          /\ stage'[p].files = [stage[p].files EXCEPT ![f] = "partial"]
          /\ \A q \in Proc \ {p} : stage'[q] = stage[q]
      BY <1>0, <2>0, <2>2, <3>0, StageFileWrites DEF Staged
    <3>2. pc' \in [Proc -> Step] /\ pc'[p] = "copying"
          /\ \A q \in Proc \ {p} : pc'[q] = pc[q]
      BY <1>0, <2>2, GotoMoves DEF Step
    <3>3. stage[p].files \in [File -> Staged] /\ stage[p].source \subseteq File
      BY <2>0 DEF StagedTree
    <3>4. FoundIsStaged(p)'
      BY <1>6, <2>0, <2>2, <3>1, <3>3 DEF copyEntry, FoundIsStaged
    <3>5. OnePartial(p)'
      BY <1>6, <2>0, <2>2, <3>1, <3>3 DEF copyEntry, OnePartial, NoPartial
    <3>6. StagedWell(p)'
      BY <3>2, <3>4, <3>5 DEF StagedWell
    <3> QED
      BY <1>a, <1>6, <2>2, <3>1, <3>2, <3>6, ScriptKeeps DEF copyEntry, Before
  <2>3. CASE Fail(p) /\ UNCHANGED <<stage, todo>>
    BY <1>a, <1>b, <1>6, <2>3 DEF copyEntry
  <2>4. CASE todo[p] = {} /\ Goto(p, "mark") /\ UNCHANGED <<stage, todo>>
    <3>1. pc' \in [Proc -> Step] /\ pc'[p] = "mark"
          /\ \A q \in Proc \ {p} : pc'[q] = pc[q]
      BY <1>0, <2>4, GotoMoves DEF Step
    <3>2. FoundIsStaged(p)' /\ NoPartial(p)'
      BY <1>6, <2>0, <2>4 DEF copyEntry, FoundIsStaged, NoPartial
    <3>3. StagedWell(p)'
      BY <2>4, <3>1, <3>2 DEF StagedWell
    <3> QED
      BY <1>a, <1>6, <2>4, <3>1, <3>3, ScriptKeeps DEF copyEntry, Before
  <2> QED
    BY <1>6, <2>1, <2>2, <2>3, <2>4 DEF copyEntry
<1>7. ASSUME NEW p \in Proc, copyRegularFile(p) PROVE IInv'
  <2>0. FoundIsStaged(p) /\ OnePartial(p) /\ stage[p] \in StagedTree
    BY <1>0, <1>7 DEF copyRegularFile, StageInv, StagedWell, Building, FoundIsStaged
  <2>f. PICK f \in todo[p] :
          /\ stage[p].files[f] = "partial"
          /\ \/ /\ StageFile(p, f, legacy.files[f])
                /\ todo' = [todo EXCEPT ![p] = @ \ {f}]
                /\ Goto(p, "copy")
             \/ StageFile(p, f, "absent") /\ UNCHANGED todo /\ Fail(p)
    BY <1>7 DEF copyRegularFile
  <2>g. f \in File /\ legacy.files[f] \in {"usable", "corrupt"}
    BY <1>a, <2>0, <2>f DEF OnePartial
  <2>1. CASE /\ StageFile(p, f, legacy.files[f])
             /\ todo' = [todo EXCEPT ![p] = @ \ {f}]
             /\ Goto(p, "copy")
    <3>0. legacy.files[f] \in Staged
      BY <2>g DEF Staged
    <3>1. /\ stage' \in [Proc -> {None} \cup StagedTree] /\ stage'[p] \in StagedTree
          /\ stage'[p].source = stage[p].source
          /\ stage'[p].files = [stage[p].files EXCEPT ![f] = legacy.files[f]]
          /\ \A q \in Proc \ {p} : stage'[q] = stage[q]
      BY <1>0, <2>0, <2>1, <2>g, <3>0, StageFileWrites
    <3>2. pc' \in [Proc -> Step] /\ pc'[p] = "copy"
          /\ \A q \in Proc \ {p} : pc'[q] = pc[q]
      BY <1>0, <2>1, GotoMoves DEF Step
    <3>3. stage[p].files \in [File -> Staged] /\ stage[p].source \subseteq File
      BY <2>0 DEF StagedTree
    <3>4. todo' \in [Proc -> SUBSET File] /\ todo'[p] = todo[p] \ {f}
          /\ \A q \in Proc \ {p} : todo'[q] = todo[q]
      BY <1>a, <2>1
    <3>5. FoundIsStaged(p)'
      BY <1>7, <2>0, <2>g, <3>1, <3>3, <3>4 DEF copyRegularFile, FoundIsStaged
    <3>6. NoPartial(p)'
      BY <2>0, <2>f, <2>g, <3>1, <3>3 DEF OnePartial, NoPartial
    <3>7. StagedWell(p)'
      BY <3>2, <3>5, <3>6 DEF StagedWell
    <3> QED
      BY <1>a, <1>7, <3>1, <3>2, <3>4, <3>7, ScriptKeeps DEF copyRegularFile, Before
  <2>2. CASE StageFile(p, f, "absent") /\ UNCHANGED todo /\ Fail(p)
    <3>1. /\ stage' \in [Proc -> {None} \cup StagedTree]
          /\ \A q \in Proc \ {p} : stage'[q] = stage[q]
      BY <1>0, <2>0, <2>2, <2>g, StageFileWrites DEF Staged
    <3> QED
      BY <1>b, <1>7, <2>2, <3>1 DEF copyRegularFile
  <2> QED
    BY <2>f, <2>1, <2>2
<1>8. ASSUME NEW p \in Proc, WriteMarker(p) PROVE IInv'
  <2>0. FoundIsStaged(p) /\ NoPartial(p) /\ stage[p] \in StagedTree /\ todo[p] = {}
    BY <1>0, <1>8 DEF WriteMarker, StageInv, StagedWell, Building, FoundIsStaged
  <2>1. CASE stage' = [stage EXCEPT ![p].marker = TRUE] /\ Goto(p, "validate")
    <3> DEFINE tree == [stage[p] EXCEPT !.marker = TRUE]
    <3>1. /\ tree \in StagedTree /\ tree.marker = TRUE /\ tree.files = stage[p].files
          /\ tree.source = stage[p].source
      BY <2>0 DEF StagedTree
    <3>2. stage' = [stage EXCEPT ![p] = tree]
      BY <2>1
    <3> HIDE DEF tree
    <3>3. /\ stage' \in [Proc -> {None} \cup StagedTree] /\ stage'[p] = tree
          /\ \A q \in Proc \ {p} : stage'[q] = stage[q]
      BY <1>a, <3>1, <3>2
    <3>4. pc' \in [Proc -> Step] /\ pc'[p] = "validate"
          /\ \A q \in Proc \ {p} : pc'[q] = pc[q]
      BY <1>0, <2>1, GotoMoves DEF Step
    <3>5. FoundIsStaged(p)' /\ NoPartial(p)'
      BY <1>8, <2>0, <3>1, <3>3 DEF WriteMarker, FoundIsStaged, NoPartial
    <3>6. StagedWell(p)'
      BY <1>8, <2>0, <3>1, <3>3, <3>4, <3>5 DEF WriteMarker, StagedWell
    <3> QED
      BY <1>a, <1>8, <3>3, <3>4, <3>6, ScriptKeeps DEF WriteMarker, Before
  <2>2. CASE UNCHANGED stage /\ Fail(p)
    BY <1>a, <1>b, <1>8, <2>2 DEF WriteMarker
  <2> QED
    BY <1>8, <2>1, <2>2 DEF WriteMarker
<1>9. ASSUME NEW p \in Proc, validateStaged(p) PROVE IInv'
  <2>0. /\ FoundIsStaged(p) /\ NoPartial(p) /\ stage[p] \in StagedTree
        /\ todo[p] = {} /\ stage[p].marker
    BY <1>0, <1>9 DEF validateStaged, StageInv, StagedWell, Building, FoundIsStaged
  <2>a. stage[p].files \in [File -> Staged] /\ stage[p].source \subseteq File
    BY <2>0 DEF StagedTree
  <2>1. ASSUME Parses(stage[p].files), Goto(p, "publish"),
               stage[p].files[Credentials] = "usable",
               StageFile(p, Credentials, "canonical")
        PROVE  IInv'
    <3>1. /\ stage' \in [Proc -> {None} \cup StagedTree] /\ stage'[p] \in StagedTree
          /\ stage'[p].source = stage[p].source /\ stage'[p].marker = stage[p].marker
          /\ stage'[p].files = [stage[p].files EXCEPT ![Credentials] = "canonical"]
          /\ \A q \in Proc \ {p} : stage'[q] = stage[q]
      BY <1>0, <2>0, <2>1, HomeAssumption, StageFileWrites DEF Staged
    <3>2. pc' \in [Proc -> Step] /\ pc'[p] = "publish"
          /\ \A q \in Proc \ {p} : pc'[q] = pc[q]
      BY <1>0, <2>1, GotoMoves DEF Step
    <3>3. FoundIsStaged(p)' /\ NoPartial(p)'
      BY <1>9, <2>0, <2>a, <3>1 DEF validateStaged, FoundIsStaged, NoPartial
    <3>4. Canonical(p)'
      BY <2>1, <2>a, <3>1, HomeAssumption DEF Canonical, Parses
    <3>5. StagedWell(p)'
      BY <1>9, <2>0, <3>1, <3>2, <3>3, <3>4 DEF validateStaged, StagedWell
    <3> QED
      BY <1>a, <1>9, <3>1, <3>2, <3>5, ScriptKeeps DEF validateStaged, Before
  <2>2. ASSUME Parses(stage[p].files), Goto(p, "publish"),
               stage[p].files[Credentials] # "usable", UNCHANGED stage
        PROVE  IInv'
    <3>1. pc' \in [Proc -> Step] /\ pc'[p] = "publish"
          /\ \A q \in Proc \ {p} : pc'[q] = pc[q]
      BY <1>0, <2>2, GotoMoves DEF Step
    <3>2. FoundIsStaged(p)' /\ NoPartial(p)' /\ Canonical(p)'
      BY <1>9, <2>0, <2>2 DEF validateStaged, FoundIsStaged, NoPartial, Canonical, Parses
    <3>3. StagedWell(p)'
      BY <1>9, <2>0, <2>2, <3>1, <3>2 DEF validateStaged, StagedWell
    <3> QED
      BY <1>a, <1>9, <2>2, <3>1, <3>3, ScriptKeeps DEF validateStaged, Before
  <2>3. CASE UNCHANGED stage /\ Fail(p)
    BY <1>a, <1>b, <1>9, <2>3 DEF validateStaged
  <2> QED
    BY <1>9, <2>1, <2>2, <2>3 DEF validateStaged
<1>10. ASSUME NEW p \in Proc, RenameLooks(p) PROVE IInv'
  <2>0. StagedWell(p) /\ pc[p] = "publish"
    BY <1>0, <1>10 DEF RenameLooks, StageInv
  <2>1. CASE Fail(p)
    BY <1>a, <1>b, <1>10, <2>1 DEF RenameLooks
  <2>2. CASE Goto(p, "rename")
    <3>1. pc' \in [Proc -> Step] /\ pc'[p] = "rename"
          /\ \A q \in Proc \ {p} : pc'[q] = pc[q]
      BY <1>0, <2>2, GotoMoves DEF Step
    <3>2. FoundIsStaged(p)' /\ NoPartial(p)' /\ Canonical(p)'
      BY <1>10, <2>0 DEF RenameLooks, StagedWell, Building, FoundIsStaged, NoPartial,
         Canonical, Parses
    <3>3. StagedWell(p)'
      BY <1>10, <2>0, <3>1, <3>2 DEF RenameLooks, StagedWell
    <3> QED
      BY <1>a, <1>10, <3>1, <3>3, ScriptKeeps DEF RenameLooks, Before
  <2> QED
    BY <1>10, <2>1, <2>2 DEF RenameLooks
<1>11. ASSUME NEW p \in Proc, Rename(p) PROVE IInv'
  <2>0. /\ FoundIsStaged(p) /\ NoPartial(p) /\ Canonical(p) /\ stage[p] \in StagedTree
        /\ todo[p] = {} /\ stage[p].marker
    BY <1>0, <1>11 DEF Rename, StageInv, StagedWell, Building, FoundIsStaged
  <2>1. CASE UNCHANGED <<home, stage>> /\ Fail(p)
    BY <1>a, <1>b, <1>11, <2>1 DEF Rename
  <2>2. CASE /\ home' = [present |-> TRUE, marker |-> stage[p].marker,
                         files |-> stage[p].files, source |-> stage[p].source]
             /\ stage' = [stage EXCEPT ![p] = None]
             /\ Goto(p, "run")
    <3>1. stage[p].files \in [File -> Published] /\ stage[p].source \in SUBSET File
      BY <2>0 DEF StagedTree, NoPartial, Staged, Published
    <3>2. home' \in [present : BOOLEAN, marker : BOOLEAN, files : [File -> Published],
                     source : SUBSET File]
      BY <2>0, <2>2, <3>1
    <3>3. HomeInv'
      BY <2>0, <2>2, HomeAssumption
         DEF FoundIsStaged, NoPartial, Canonical, Parses, HomeInv, DestinationWhole,
             MigratedIsMarked
    <3>4. stage' \in [Proc -> {None} \cup StagedTree]
          /\ \A q \in Proc \ {p} : stage'[q] = stage[q]
      BY <1>a, <2>2
    <3>5. pc' \in [Proc -> Step] /\ pc'[p] \notin Building \cup Before
          /\ \A q \in Proc \ {p} : pc'[q] = pc[q]
      BY <1>0, <2>2, GotoMoves DEF Step, Building, Before
    <3> QED
      BY <1>a, <1>11, <3>2, <3>3, <3>4, <3>5, LeaveKeeps DEF Rename
  <2> QED
    BY <1>11, <2>1, <2>2 DEF Rename
<1>12. ASSUME NEW p \in Proc, Cleanup(p) PROVE IInv'
  <2>1. pc' \in [Proc -> Step] /\ pc'[p] \notin Building \cup Before
        /\ \A q \in Proc \ {p} : pc'[q] = pc[q]
    BY <1>0, <1>12, GotoMoves DEF Cleanup, Step, Building, Before
  <2>2. stage' \in [Proc -> {None} \cup StagedTree]
        /\ \A q \in Proc \ {p} : stage'[q] = stage[q]
    BY <1>a, <1>12 DEF Cleanup
  <2> QED
    BY <1>a, <1>12, <2>1, <2>2, LookKeeps DEF Cleanup
<1>13. ASSUME NEW p \in Proc, MakeHome(p) \/ WriteHome(p) PROVE IInv'
  <2>1. pc' \in [Proc -> Step] /\ pc'[p] \notin Building \cup Before
        /\ \A q \in Proc \ {p} : pc'[q] = pc[q]
    BY <1>0, <1>13, GotoMoves DEF MakeHome, WriteHome, Step, Building, Before
  <2>2. home \in [present : BOOLEAN, marker : BOOLEAN, files : [File -> Published],
                  source : SUBSET File]
    BY <1>0 DEF TypeOK
  <2>3. \/ home' = [home EXCEPT !.present = TRUE]
        \/ \E f \in File : home' = [home EXCEPT !.files[f] = "ti"]
        \/ home' = home
    BY <1>13 DEF MakeHome, WriteHome
  <2>4. CASE home' = [home EXCEPT !.present = TRUE] \/ home' = home
    <3>1. /\ home' \in [present : BOOLEAN, marker : BOOLEAN, files : [File -> Published],
                        source : SUBSET File]
          /\ home'.marker = home.marker /\ home'.files = home.files
          /\ home'.source = home.source
      BY <2>2, <2>4
    <3>2. HomeInv'
      BY <1>0, <3>1 DEF HomeInv, DestinationWhole, MigratedIsMarked
    <3> QED
      BY <1>a, <1>13, <2>1, <3>1, <3>2, LeaveKeeps DEF MakeHome, WriteHome
  <2>5. ASSUME NEW f \in File, home' = [home EXCEPT !.files[f] = "ti"]
        PROVE  IInv'
    <3>1. /\ home'.marker = home.marker /\ home'.source = home.source
          /\ home'.files = [home.files EXCEPT ![f] = "ti"]
          /\ home'.files \in [File -> Published] /\ home.files \in [File -> Published]
          /\ home.source \subseteq File
      BY <2>2, <2>5 DEF Published
    <3>2. home' \in [present : BOOLEAN, marker : BOOLEAN, files : [File -> Published],
                     source : SUBSET File]
      BY <2>2, <2>5 DEF Published
    <3>3. HomeInv'
      BY <1>0, <3>1, HomeAssumption DEF HomeInv, DestinationWhole, MigratedIsMarked
    <3> QED
      BY <1>a, <1>13, <2>1, <3>2, <3>3, LeaveKeeps DEF MakeHome, WriteHome
  <2> QED
    BY <2>3, <2>4, <2>5
<1>14. ASSUME NEW p \in Proc, Crash(p) PROVE IInv'
  <2>1. pc' \in [Proc -> Step] /\ pc'[p] \notin Building \cup Before
        /\ \A q \in Proc \ {p} : pc'[q] = pc[q]
    BY <1>0, <1>14, GotoMoves DEF Crash, Step, Building, Before
  <2>2. crashes' \in 0 .. MaxCrashes
    BY <1>a, <1>14, HomeAssumption DEF Crash
  <2> QED
    BY <1>a, <1>14, <2>1, <2>2, LookKeeps DEF Crash
<1>15. CASE OldCommand
  <2>1. legacy \in [present : BOOLEAN, files : [File -> Legacy], mounted : BOOLEAN]
    BY <1>0 DEF TypeOK
  <2>2. /\ legacy' \in [present : BOOLEAN, files : [File -> Legacy], mounted : BOOLEAN]
        /\ \A f \in File : legacy.files[f] # "absent" => legacy'.files[f] = legacy.files[f]
    <3>1. ASSUME NEW f \in File, legacy.files[f] = "absent",
                 legacy' = [legacy EXCEPT !.files[f] = "usable"]
          PROVE  /\ legacy' \in [present : BOOLEAN, files : [File -> Legacy],
                               mounted : BOOLEAN]
                 /\ \A g \in File :
                      legacy.files[g] # "absent" => legacy'.files[g] = legacy.files[g]
      <4>1. legacy'.files = [legacy.files EXCEPT ![f] = "usable"]
            /\ legacy'.files \in [File -> Legacy]
        BY <2>1, <3>1 DEF Legacy
      <4> QED
        BY <2>1, <3>1, <4>1
    <3>2. CASE legacy' = [legacy EXCEPT !.present = TRUE]
      BY <2>1, <3>2
    <3>3. CASE legacy' = [legacy EXCEPT !.mounted = ~@]
      BY <2>1, <3>3
    <3> QED
      BY <1>15, <3>1, <3>2, <3>3 DEF OldCommand
  <2>3. TypeOK'
    BY <1>0, <1>15, <2>2 DEF OldCommand, TypeOK
  <2>4. StageInv'
    BY <1>0, <1>15, <2>2, KeptStaysWell DEF OldCommand, StageInv, Keeps
  <2> QED
    BY <1>0, <1>15, <2>3, <2>4, HomeKept DEF OldCommand, IInv, TodoInv
<1>16. CASE UNCHANGED vars
  <2>1. TypeOK' /\ TodoInv'
    BY <1>0, <1>16 DEF vars, TypeOK, TodoInv
  <2>2. StageInv'
    BY <1>0, <1>16, KeptStaysWell DEF vars, StageInv, Keeps
  <2> QED
    BY <1>0, <1>16, <2>1, <2>2, HomeKept DEF vars, IInv
<1> QED
  BY <1>1, <1>2, <1>3, <1>4, <1>5, <1>6, <1>7, <1>8, <1>9, <1>10, <1>11, <1>12, <1>13,
     <1>14, <1>15, <1>16 DEF Next, Ensure

-----------------------------------------------------------------------------
(* IInv holds in every reachable state.                                    *)
THEOREM Invariance == Spec => []IInv
BY InitIInv, NextIInv, PTL DEF Spec

(* The type invariant of the migration.                                    *)
THEOREM TypeCorrect == Spec => []TypeOK
<1>1. IInv => TypeOK
  BY DEF IInv
<1> QED
  BY <1>1, Invariance, PTL

(* However the processes race, fail and are killed, a ~/.ti that carries   *)
(* the migration marker is complete.                                       *)
THEOREM PublishedWhole == Spec => []DestinationWhole
<1>1. IInv => DestinationWhole
  BY DEF IInv, HomeInv
<1> QED
  BY <1>1, Invariance, PTL

(* Nothing migrated is ever found in a ~/.ti without the marker.           *)
THEOREM MigratedMarked == Spec => []MigratedIsMarked
<1>1. IInv => MigratedIsMarked
  BY DEF IInv, HomeInv
<1> QED
  BY <1>1, Invariance, PTL

(* Publishing a staged tree never replaces what a command of ti wrote:     *)
(* rename(2) only replaces an empty directory.                             *)
THEOREM CommandDataKept == Spec => KeepsCommandData
<1> DEFINE Keep == \A f \in File : home.files[f] = "ti" => home'.files[f] = "ti"
<1>1. IInv /\ [Next]_vars => [Keep]_vars
  <2> SUFFICES ASSUME IInv, [Next]_vars, NEW f \in File, home.files[f] = "ti"
               PROVE  home'.files[f] = "ti"
    OBVIOUS
  <2>1. home \in [present : BOOLEAN, marker : BOOLEAN, files : [File -> Published],
                  source : SUBSET File]
    BY DEF IInv, TypeOK
  <2>2. ASSUME NEW p \in Proc, Rename(p) PROVE home'.files[f] = "ti"
    BY <2>2 DEF Rename, Replaceable, Names
  <2>3. ASSUME NEW p \in Proc, MakeHome(p) \/ WriteHome(p) PROVE home'.files[f] = "ti"
    BY <2>1, <2>3 DEF MakeHome, WriteHome
  <2>4. CASE UNCHANGED home
    BY <2>4
  <2> QED
    BY <2>2, <2>3, <2>4
       DEF Next, Ensure, vars, StatLegacy, StatHome, validMigrationMarker, activeLegacyMount,
           MakeStage, copyEntry, copyRegularFile, WriteMarker, validateStaged, RenameLooks,
           Cleanup, Crash, OldCommand
<1> QED
  BY <1>1, Invariance, PTL DEF Spec, KeepsCommandData
=============================================================================

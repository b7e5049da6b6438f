------------------------- MODULE ProjectFileSaveProofs -------------------------
(***************************************************************************)
(* Theorems about ProjectFileSave, for any number of saves, versions and   *)
(* crashes: no reported save is lost, and the directory is a vault.        *)
(***************************************************************************)

EXTENDS ProjectFileSave, TLAPS

SaveCalls == {"open", "write", "moveOld", "moveTemp", "removeOld", "done"}

(* No version is newer than the newest.                                    *)
UpToNewest ==
  /\ data <= newest /\ written <= newest /\ project <= newest /\ committed <= newest
  /\ \A k \in Saves : tmp[k] <= newest

(* The names a save takes are free, and it writes the data in memory.      *)
SaveInOrder ==
  /\ \A k \in Saves : k > saves => tmp[k] = Absent /\ old[k] = Absent
  /\ task \in SaveCalls => saves \in Saves /\ written = data
  /\ task = "open" => tmp[saves] = Absent
  /\ task \in {"open", "write", "moveOld"} => old[saves] = Absent
  /\ task = "write" => tmp[saves] = Cut
  /\ task = "moveTemp" => project = Absent
  /\ task = "loaded" /\ ~error => written = project /\ project # Absent

(* What follows when no file was cut short.                                *)
HeldWhole ==
  /\ task # "stuck"
  /\ sessionState # "none" /\ task \notin {"read", "loaded"} =>
       data \in Nat /\ data >= committed /\ data >= project
  /\ task \in {"moveOld", "moveTemp"} => tmp[saves] = written
  /\ task \in {"moveTemp", "removeOld"} => old[saves] <= written
  /\ task = "removeOld" \/ (task = "done" /\ ~error) =>
       /\ project \in {written, Absent}
       /\ written \in {project, tmp[saves]}

FileInv ==
  /\ FileTypeOK /\ UpToNewest /\ SaveInOrder
  /\ ~wasCut => HeldWhole
  /\ NeverStale

-----------------------------------------------------------------------------
(***************************************************************************)
(* Every step keeps the invariant, part by part.                           *)
(***************************************************************************)

(* What the values of a file are.                                          *)
LEMMA ContentsAre ==
  /\ Absent \in Contents /\ Cut \in Contents
  /\ \A c \in Contents : c \in Int /\ (c \notin {Absent, Cut} => c \in Nat)
  /\ \A c \in Nat : c \in Contents /\ c \notin {Absent, Cut}
BY DEF Contents, Absent, Cut

(* Each value stays in its type, and a task keeps its session.             *)
LEMMA TypeStep ==
  ASSUME FileInv, [Next]_fileVars
  PROVE  FileTypeOK'
<1> USE ContentsAre DEF FileInv, FileTypeOK, UpToNewest, SaveInOrder, SaveCalls,
    Saves, mainVars, taskVars, diskVars, ghostVars
<1>1. CASE Crawl
  BY <1>1 DEF Crawl
<1>15. CASE refreshPage
  BY <1>15 DEF refreshPage
<1>2. ASSUME NEW andClear \in BOOLEAN, Save(andClear) PROVE  FileTypeOK'
  <2>1. /\ clearOnDone' \in BOOLEAN /\ oldFileExists' \in BOOLEAN
        /\ error' \in BOOLEAN /\ wasCut' \in BOOLEAN
    BY <1>2, Zenon DEF Save
  <2>2. /\ data' \in Contents /\ written' \in Contents
        /\ project' \in Contents /\ committed' \in Contents
        /\ tmp' \in [Saves -> Contents] /\ old' \in [Saves -> Contents]
    BY <1>2 DEF Save
  <2>3. /\ newest' \in Nat /\ saves' \in 0..MaxSaves /\ crashes' \in Nat
        /\ sessionState' \in {"none", "saved", "unsaved"}
        /\ task' \in {"none", "open", "write", "moveOld", "moveTemp", "removeOld",
                       "done", "read", "loaded", "stuck"}
        /\ task' # "none" => sessionState' # "none"
    BY <1>2, FileAssumption DEF Save
  <2> QED
    BY <2>1, <2>2, <2>3
<1>3. CASE closeFile
  BY <1>3 DEF closeFile
<1>4. CASE loadFromFile
  BY <1>4 DEF loadFromFile
<1>5. CASE OpenTemp
  <2>1. /\ clearOnDone' \in BOOLEAN /\ oldFileExists' \in BOOLEAN
        /\ error' \in BOOLEAN /\ wasCut' \in BOOLEAN
    BY <1>5, Zenon DEF OpenTemp
  <2>2. /\ data' \in Contents /\ written' \in Contents
        /\ project' \in Contents /\ committed' \in Contents
        /\ tmp' \in [Saves -> Contents] /\ old' \in [Saves -> Contents]
    BY <1>5 DEF OpenTemp
  <2>3. /\ newest' \in Nat /\ saves' \in 0..MaxSaves /\ crashes' \in Nat
        /\ sessionState' \in {"none", "saved", "unsaved"}
        /\ task' \in {"none", "open", "write", "moveOld", "moveTemp", "removeOld",
                       "done", "read", "loaded", "stuck"}
        /\ task' # "none" => sessionState' # "none"
    BY <1>5, FileAssumption DEF OpenTemp
  <2> QED
    BY <2>1, <2>2, <2>3
<1>6. CASE WriteTemp
  <2>1. /\ clearOnDone' \in BOOLEAN /\ oldFileExists' \in BOOLEAN
        /\ error' \in BOOLEAN /\ wasCut' \in BOOLEAN
    BY <1>6, Zenon DEF WriteTemp
  <2>2. /\ data' \in Contents /\ written' \in Contents
        /\ project' \in Contents /\ committed' \in Contents
        /\ tmp' \in [Saves -> Contents] /\ old' \in [Saves -> Contents]
    BY <1>6 DEF WriteTemp
  <2>3. /\ newest' \in Nat /\ saves' \in 0..MaxSaves /\ crashes' \in Nat
        /\ sessionState' \in {"none", "saved", "unsaved"}
        /\ task' \in {"none", "open", "write", "moveOld", "moveTemp", "removeOld",
                       "done", "read", "loaded", "stuck"}
        /\ task' # "none" => sessionState' # "none"
    BY <1>6, FileAssumption DEF WriteTemp
  <2> QED
    BY <2>1, <2>2, <2>3
<1>7. CASE MoveOld
  BY <1>7 DEF MoveOld
<1>8. CASE MoveTemp
  BY <1>8 DEF MoveTemp
<1>9. CASE RemoveOld
  BY <1>9 DEF RemoveOld
<1>10. CASE ReadProject
  BY <1>10 DEF ReadProject
<1>11. CASE SaveDone
  <2>1. /\ clearOnDone' \in BOOLEAN /\ oldFileExists' \in BOOLEAN
        /\ error' \in BOOLEAN /\ wasCut' \in BOOLEAN
    BY <1>11, Zenon DEF SaveDone
  <2>2. /\ data' \in Contents /\ written' \in Contents
        /\ project' \in Contents /\ committed' \in Contents
        /\ tmp' \in [Saves -> Contents] /\ old' \in [Saves -> Contents]
    BY <1>11 DEF SaveDone
  <2>3. /\ newest' \in Nat /\ saves' \in 0..MaxSaves /\ crashes' \in Nat
        /\ sessionState' \in {"none", "saved", "unsaved"}
        /\ task' \in {"none", "open", "write", "moveOld", "moveTemp", "removeOld",
                       "done", "read", "loaded", "stuck"}
        /\ task' # "none" => sessionState' # "none"
    BY <1>11, FileAssumption DEF SaveDone
  <2> QED
    BY <2>1, <2>2, <2>3
<1>12. CASE LoadDone
  BY <1>12 DEF LoadDone
<1>13. CASE Crash
  <2>1. /\ clearOnDone' \in BOOLEAN /\ oldFileExists' \in BOOLEAN
        /\ error' \in BOOLEAN /\ wasCut' \in BOOLEAN
    BY <1>13, Zenon DEF Crash
  <2>2. /\ data' \in Contents /\ written' \in Contents
        /\ project' \in Contents /\ committed' \in Contents
        /\ tmp' \in [Saves -> Contents] /\ old' \in [Saves -> Contents]
    BY <1>13 DEF Crash
  <2>3. /\ newest' \in Nat /\ saves' \in 0..MaxSaves /\ crashes' \in Nat
        /\ sessionState' \in {"none", "saved", "unsaved"}
        /\ task' \in {"none", "open", "write", "moveOld", "moveTemp", "removeOld",
                       "done", "read", "loaded", "stuck"}
        /\ task' # "none" => sessionState' # "none"
    BY <1>13, FileAssumption DEF Crash
  <2> QED
    BY <2>1, <2>2, <2>3
<1>14. CASE UNCHANGED fileVars
  BY <1>14 DEF fileVars
<1> QED
  BY <1>1, <1>2, <1>3, <1>4, <1>5, <1>6, <1>7, <1>8, <1>9, <1>10, <1>11, <1>12,
      <1>13, <1>14, <1>15
     DEF Next, User, TaskStep

(* Versions are taken in order.                                            *)
LEMMA NewestStep ==
  ASSUME FileInv, [Next]_fileVars
  PROVE  UpToNewest'
<1> USE ContentsAre DEF FileInv, FileTypeOK, UpToNewest, SaveInOrder, SaveCalls,
    Saves, mainVars, taskVars, diskVars, ghostVars
<1>1. CASE Crawl
  BY <1>1 DEF Crawl
<1>15. CASE refreshPage
  BY <1>15 DEF refreshPage
<1>2. CASE \E andClear \in BOOLEAN : Save(andClear)
  BY <1>2 DEF Save
<1>3. CASE closeFile
  BY <1>3 DEF closeFile
<1>4. CASE loadFromFile
  BY <1>4 DEF loadFromFile
<1>5. CASE OpenTemp
  <2>1. saves \in Saves /\ tmp \in [Saves -> Contents] /\ Cut <= newest
    BY <1>5 DEF OpenTemp, Cut
  <2>2. \A k \in Saves : tmp'[k] = tmp[k] \/ tmp'[k] = Cut
    BY <1>5, <2>1 DEF OpenTemp
  <2> QED
    BY <1>5, <2>1, <2>2 DEF OpenTemp
<1>6. CASE WriteTemp
  BY <1>6 DEF WriteTemp
<1>7. CASE MoveOld
  BY <1>7 DEF MoveOld
<1>8. CASE MoveTemp
  BY <1>8 DEF MoveTemp
<1>9. CASE RemoveOld
  BY <1>9 DEF RemoveOld
<1>10. CASE ReadProject
  BY <1>10 DEF ReadProject
<1>11. CASE SaveDone
  BY <1>11 DEF SaveDone
<1>12. CASE LoadDone
  BY <1>12 DEF LoadDone
<1>13. CASE Crash
  BY <1>13 DEF Crash
<1>14. CASE UNCHANGED fileVars
  BY <1>14 DEF fileVars
<1> QED
  BY <1>1, <1>2, <1>3, <1>4, <1>5, <1>6, <1>7, <1>8, <1>9, <1>10, <1>11, <1>12,
      <1>13, <1>14, <1>15
     DEF Next, User, TaskStep

(* A save goes through its calls in order, with names of its own.          *)
LEMMA OrderStep ==
  ASSUME FileInv, [Next]_fileVars
  PROVE  SaveInOrder'
<1> USE ContentsAre DEF FileInv, FileTypeOK, UpToNewest, SaveInOrder, SaveCalls,
    Saves, mainVars, taskVars, diskVars, ghostVars
<1>1. CASE Crawl
  BY <1>1 DEF Crawl
<1>15. CASE refreshPage
  BY <1>15 DEF refreshPage
<1>2. ASSUME NEW andClear \in BOOLEAN, Save(andClear)
      PROVE  SaveInOrder'
  <2>1. /\ saves' \in Saves /\ saves' > saves /\ written' = data' /\ task' = "open"
        /\ tmp' = tmp /\ old' = old
    BY <1>2, FileAssumption DEF Save
  <2>2. \A k \in Saves : k >= saves' => tmp'[k] = Absent /\ old'[k] = Absent
    BY <2>1
  <2> QED
    BY <2>1, <2>2
<1>3. CASE closeFile
  BY <1>3 DEF closeFile
<1>4. CASE loadFromFile
  BY <1>4 DEF loadFromFile
<1>5. CASE OpenTemp
  <2>1. saves \in Saves /\ tmp \in [Saves -> Contents] /\ old \in [Saves -> Contents]
    BY <1>5 DEF OpenTemp
  <2>2. \A k \in Saves : k # saves => tmp'[k] = tmp[k] /\ old'[k] = old[k]
    BY <1>5, <2>1 DEF OpenTemp
  <2>3. old'[saves] = Absent /\ (task' = "write" => tmp'[saves] = Cut)
    BY <1>5, <2>1 DEF OpenTemp
  <2>4. \A k \in Saves : k > saves' => tmp'[k] = Absent /\ old'[k] = Absent
    BY <1>5, <2>1, <2>2 DEF OpenTemp
  <2> QED
    BY <1>5, <2>1, <2>3, <2>4 DEF OpenTemp
<1>6. CASE WriteTemp
  <2>1. saves \in Saves /\ tmp \in [Saves -> Contents] /\ old \in [Saves -> Contents]
    BY <1>6 DEF WriteTemp
  <2>2. \A k \in Saves : k # saves => tmp'[k] = tmp[k] /\ old'[k] = old[k]
    BY <1>6, <2>1 DEF WriteTemp
  <2>3. old'[saves] = Absent
    BY <1>6, <2>1 DEF WriteTemp
  <2>4. \A k \in Saves : k > saves' => tmp'[k] = Absent /\ old'[k] = Absent
    BY <1>6, <2>1, <2>2 DEF WriteTemp
  <2> QED
    BY <1>6, <2>1, <2>3, <2>4 DEF WriteTemp
<1>7. CASE MoveOld
  <2>1. saves \in Saves /\ tmp \in [Saves -> Contents] /\ old \in [Saves -> Contents]
    BY <1>7 DEF MoveOld
  <2>2. \A k \in Saves : k # saves => tmp'[k] = tmp[k] /\ old'[k] = old[k]
    BY <1>7, <2>1 DEF MoveOld
  <2>3. task' = "moveTemp" => project' = Absent
    BY <1>7, <2>1 DEF MoveOld
  <2>4. \A k \in Saves : k > saves' => tmp'[k] = Absent /\ old'[k] = Absent
    BY <1>7, <2>1, <2>2 DEF MoveOld
  <2> QED
    BY <1>7, <2>1, <2>3, <2>4 DEF MoveOld
<1>8. CASE MoveTemp
  BY <1>8 DEF MoveTemp
<1>9. CASE RemoveOld
  BY <1>9 DEF RemoveOld
<1>10. CASE ReadProject
  BY <1>10 DEF ReadProject
<1>11. CASE SaveDone
  BY <1>11 DEF SaveDone
<1>12. CASE LoadDone
  BY <1>12 DEF LoadDone
<1>13. CASE Crash
  BY <1>13 DEF Crash
<1>14. CASE UNCHANGED fileVars
  BY <1>14 DEF fileVars
<1> QED
  BY <1>1, <1>2, <1>3, <1>4, <1>5, <1>6, <1>7, <1>8, <1>9, <1>10, <1>11, <1>12,
      <1>13, <1>14, <1>15
     DEF Next, User, TaskStep

(* Unless a file is cut short, the files hold what the save needs.         *)
LEMMA WholeStep ==
  ASSUME FileInv, [Next]_fileVars
  PROVE  ~wasCut' => HeldWhole'
<1> USE ContentsAre DEF FileInv, FileTypeOK, UpToNewest, SaveInOrder, SaveCalls,
    HeldWhole, NeverStale, Saves, mainVars, taskVars, diskVars, ghostVars
<1>1. CASE Crawl
  BY <1>1 DEF Crawl
<1>15. CASE refreshPage
  BY <1>15 DEF refreshPage
<1>2. CASE \E andClear \in BOOLEAN : Save(andClear)
  BY <1>2 DEF Save
<1>3. CASE closeFile
  BY <1>3 DEF closeFile
<1>4. CASE loadFromFile
  BY <1>4 DEF loadFromFile
<1>5. CASE OpenTemp
  BY <1>5 DEF OpenTemp
<1>6. CASE WriteTemp
  BY <1>6 DEF WriteTemp
<1>7. CASE MoveOld
  <2>1. saves \in Saves /\ old \in [Saves -> Contents] /\ written = data
        /\ old[saves] = Absent
    BY <1>7 DEF MoveOld
  <2>2. old'[saves] = project \/ old'[saves] = Absent
    BY <1>7, <2>1 DEF MoveOld
  <2>3. ASSUME ~wasCut
        PROVE  /\ old'[saves] <= written
               /\ written \in Nat /\ tmp'[saves] = written
    BY <1>7, <2>1, <2>2, <2>3 DEF MoveOld, Absent
  <2> QED
    BY <1>7, <2>1, <2>3 DEF MoveOld
<1>8. CASE MoveTemp
  <2>1. saves \in Saves /\ tmp \in [Saves -> Contents] /\ written = data
    BY <1>8 DEF MoveTemp
  <2>2. ASSUME ~wasCut
        PROVE  /\ project' = written \/ (project' = Absent /\ tmp'[saves] = written)
               /\ written \in Nat /\ written >= committed
    BY <1>8, <2>1, <2>2 DEF MoveTemp
  <2> QED
    BY <1>8, <2>1, <2>2 DEF MoveTemp, Absent
<1>9. CASE RemoveOld
  BY <1>9 DEF RemoveOld
<1>10. CASE ReadProject
  BY <1>10 DEF ReadProject, Absent, Cut
<1>11. CASE SaveDone
  BY <1>11 DEF SaveDone
<1>12. CASE LoadDone
  BY <1>12 DEF LoadDone
<1>13. CASE Crash
  BY <1>13 DEF Crash
<1>14. CASE UNCHANGED fileVars
  BY <1>14 DEF fileVars
<1> QED
  BY <1>1, <1>2, <1>3, <1>4, <1>5, <1>6, <1>7, <1>8, <1>9, <1>10, <1>11, <1>12,
      <1>13, <1>14, <1>15
     DEF Next, User, TaskStep

(* The project's file is never older than the last reported save.          *)
LEMMA StaleStep ==
  ASSUME FileInv, [Next]_fileVars
  PROVE  NeverStale'
<1> USE ContentsAre DEF FileInv, FileTypeOK, UpToNewest, SaveInOrder, SaveCalls,
    HeldWhole, NeverStale, Saves, mainVars, taskVars, diskVars, ghostVars
<1>1. CASE Crawl
  BY <1>1 DEF Crawl
<1>15. CASE refreshPage
  BY <1>15 DEF refreshPage
<1>2. CASE \E andClear \in BOOLEAN : Save(andClear)
  BY <1>2 DEF Save
<1>3. CASE closeFile
  BY <1>3 DEF closeFile
<1>4. CASE loadFromFile
  BY <1>4 DEF loadFromFile
<1>5. CASE OpenTemp
  BY <1>5 DEF OpenTemp
<1>6. CASE WriteTemp
  BY <1>6 DEF WriteTemp
<1>7. CASE MoveOld
  BY <1>7 DEF MoveOld
<1>8. CASE MoveTemp
  BY <1>8 DEF MoveTemp
<1>9. CASE RemoveOld
  BY <1>9 DEF RemoveOld
<1>10. CASE ReadProject
  BY <1>10 DEF ReadProject
<1>11. CASE SaveDone
  BY <1>11 DEF SaveDone
<1>12. CASE LoadDone
  BY <1>12 DEF LoadDone
<1>13. CASE Crash
  BY <1>13 DEF Crash
<1>14. CASE UNCHANGED fileVars
  BY <1>14 DEF fileVars
<1> QED
  BY <1>1, <1>2, <1>3, <1>4, <1>5, <1>6, <1>7, <1>8, <1>9, <1>10, <1>11, <1>12,
      <1>13, <1>14, <1>15
     DEF Next, User, TaskStep

(* FileInv holds of every state: it is inductive. *)
LEMMA FileInvHolds == Spec => []FileInv
<1>1. Init => FileInv
  <2>1. Init => FileTypeOK
    <3>1. Init => /\ clearOnDone \in BOOLEAN /\ oldFileExists \in BOOLEAN
                  /\ error \in BOOLEAN /\ wasCut \in BOOLEAN
      BY DEF Init
    <3>2. Init => /\ tmp \in [Saves -> Contents] /\ old \in [Saves -> Contents]
      BY ContentsAre DEF Init
    <3> QED
      BY <3>1, <3>2, FileAssumption, ContentsAre, SMT DEF Init, FileTypeOK
  <2>2. Init => UpToNewest
    BY DEF Init, UpToNewest, Absent
  <2>3. Init => SaveInOrder
    BY DEF Init, SaveInOrder, SaveCalls
  <2>4. Init => HeldWhole /\ NeverStale
    BY DEF Init, HeldWhole, NeverStale
  <2> QED
    BY <2>1, <2>2, <2>3, <2>4 DEF FileInv
<1>2. FileInv /\ [Next]_fileVars => FileInv'
  BY TypeStep, NewestStep, OrderStep, WholeStep, StaleStep DEF FileInv
<1> QED
  BY <1>1, <1>2, PTL DEF Spec

(* A task never answers a session that is gone: the assertions of          *)
(* onSerializationTaskDone hold, as long as the window blocks its commands.*)
THEOREM FileTypeCorrect == Spec => []FileTypeOK
<1>1. FileInv => FileTypeOK
  BY DEF FileInv
<1> QED
  BY <1>1, FileInvHolds, PTL

(* No older project than the last that was reported as saved opens under   *)
(* the project's name, whatever renames fail and wherever the program dies.*)
THEOREM ProjectNeverStale == Spec => []NeverStale
<1>1. FileInv => NeverStale
  BY DEF FileInv
<1> QED
  BY <1>1, FileInvHolds, PTL

-----------------------------------------------------------------------------
(***************************************************************************)
(* The files of a project are a vault.                                     *)
(***************************************************************************)

(* A copy is under one of the names.                                       *)
LEMMA CopiesAre ==
  /\ \A v : v \in Copies <=>
        v \in Nat /\ (v = project \/ \E k \in Saves : v = tmp[k] \/ v = old[k])
  /\ \A v : v \in Copies' <=>
        v \in Nat /\ (v = project' \/ \E k \in Saves : v = tmp'[k] \/ v = old'[k])
BY DEF Copies

(* Removing the old file gives up its version for the one just written.    *)
LEMMA RemoveOldGivesUp ==
  ASSUME FileInv, ~wasCut, RemoveOld
  PROVE  Vault!GiveUp \/ Copies' = Copies
<1>1. /\ saves \in Saves /\ old \in [Saves -> Contents]
      /\ project' = project /\ tmp' = tmp
      /\ \A k \in Saves : k # saves => old'[k] = old[k]
  BY DEF FileInv, FileTypeOK, SaveInOrder, SaveCalls, RemoveOld
<1>2. /\ written \in Nat /\ old[saves] <= written
      /\ written = project \/ written = tmp[saves]
  BY DEF FileInv, FileTypeOK, SaveInOrder, SaveCalls, HeldWhole, RemoveOld
<1>3. written \in Copies /\ written \in Copies'
  BY <1>1, <1>2, CopiesAre
<1>4. old'[saves] = old[saves] \/ old'[saves] = Absent
  BY <1>1 DEF RemoveOld
<1>5. \A v : v \in Copies' => v \in Copies
  BY <1>1, <1>4, CopiesAre, ContentsAre
<1>6. \A v : v \in Copies /\ v # old[saves] => v \in Copies'
  BY <1>1, CopiesAre
<1>7. CASE old[saves] \in Copies'
  BY <1>5, <1>6, <1>7
<1>8. CASE old[saves] \notin Copies /\ old[saves] \notin Copies'
  BY <1>5, <1>6, <1>8
<1>9. CASE old[saves] \in Copies /\ old[saves] \notin Copies'
  <2>1. Copies' = Copies \ {old[saves]}
    BY <1>5, <1>6, <1>9
  <2>2. old[saves] \in Int /\ written > old[saves]
    BY <1>1, <1>2, <1>3, <1>9, ContentsAre
  <2>3. UNCHANGED <<committed, wasCut>>
    BY DEF RemoveOld, ghostVars
  <2> QED
    BY <1>3, <1>9, <2>1, <2>2, <2>3 DEF Vault!GiveUp
<1> QED
  BY <1>7, <1>8, <1>9

(* Every step of the program is a step of the vault, or none it can see.   *)
LEMMA StepIsVaultStep ==
  ASSUME FileInv, [Next]_fileVars
  PROVE  [Vault!VaultNext]_(Vault!vaultVars)
<1> USE DEF FileInv, FileTypeOK, SaveInOrder, SaveCalls, mainVars, taskVars, diskVars,
        ghostVars
<1>1. CASE wasCut'
  BY <1>1 DEF Vault!VaultNext, Vault!Damage
<1>2. CASE ~wasCut'
  <2>1. ~wasCut /\ HeldWhole
    BY <1>2 DEF Next, User, TaskStep, Crawl, refreshPage, Save, closeFile,
        loadFromFile, OpenTemp,
                WriteTemp, MoveOld, MoveTemp, RemoveOld, ReadProject, SaveDone,
                LoadDone, Crash, fileVars
  <2>2. CASE \/ Crawl \/ refreshPage \/ (\E andClear \in BOOLEAN : Save(andClear))
             \/ closeFile \/ loadFromFile \/ ReadProject \/ LoadDone \/ Crash \/ UNCHANGED fileVars
    <3>1. UNCHANGED <<project, tmp, old, committed, wasCut>>
      BY <2>2 DEF Crawl, refreshPage, Save, closeFile, loadFromFile, ReadProject,
          LoadDone, Crash,
                  fileVars
    <3> QED
      BY <3>1 DEF Copies, Vault!vaultVars
  <2>3. CASE OpenTemp
    <3>1. \A k \in Saves : tmp'[k] = tmp[k] \/ (tmp[k] = Absent /\ tmp'[k] = Cut)
      BY <2>3 DEF OpenTemp
    <3>2. UNCHANGED <<project, old, committed, wasCut>>
      BY <2>3 DEF OpenTemp
    <3>3. \A v : v \in Copies' <=> v \in Copies
      BY <3>1, <3>2, CopiesAre, ContentsAre
    <3> QED
      BY <3>2, <3>3 DEF Vault!vaultVars
  <2>4. CASE WriteTemp
    <3>1. /\ written \in Nat /\ saves \in Saves /\ tmp'[saves] = written
          /\ tmp[saves] = Cut /\ \A k \in Saves : k # saves => tmp'[k] = tmp[k]
      BY <1>2, <2>1, <2>4 DEF WriteTemp, HeldWhole
    <3>2. UNCHANGED <<project, old, committed, wasCut>>
      BY <1>2, <2>1, <2>4 DEF WriteTemp
    <3>3. \A v : v \in Copies' <=> v \in Copies \union {written}
      BY <3>1, <3>2, CopiesAre, ContentsAre
    <3>4. written \in Copies' /\ Copies' = Copies \union {written}
      BY <3>3
    <3>5. Vault!Keep
      BY <3>2, <3>4 DEF Vault!Keep
    <3> QED
      BY <3>5 DEF Vault!VaultNext
  <2>5. CASE MoveOld
    <3>1. /\ saves \in Saves /\ old[saves] = Absent
          /\ \/ project' = project /\ old'[saves] = Absent
             \/ project' = Absent /\ old'[saves] = project
          /\ \A k \in Saves : k # saves => old'[k] = old[k]
      BY <2>5 DEF MoveOld
    <3>2. UNCHANGED <<tmp, committed, wasCut>>
      BY <2>5 DEF MoveOld
    <3>3. \A v : v \in Copies' <=> v \in Copies
      BY <3>1, <3>2, CopiesAre, ContentsAre
    <3> QED
      BY <3>2, <3>3 DEF Vault!vaultVars
  <2>6. CASE MoveTemp
    <3>1. /\ saves \in Saves /\ project = Absent
          /\ \/ project' = project /\ tmp'[saves] = tmp[saves]
             \/ project' = tmp[saves] /\ tmp'[saves] = Absent
          /\ \A k \in Saves : k # saves => tmp'[k] = tmp[k]
      BY <2>6 DEF MoveTemp
    <3>2. UNCHANGED <<old, committed, wasCut>>
      BY <2>6 DEF MoveTemp
    <3>3. \A v : v \in Copies' <=> v \in Copies
      BY <3>1, <3>2, CopiesAre, ContentsAre
    <3> QED
      BY <3>2, <3>3 DEF Vault!vaultVars
  <2>7. CASE RemoveOld
    <3>1. UNCHANGED <<committed, wasCut>>
      BY <2>7 DEF RemoveOld
    <3> QED
      BY <2>1, <2>7, <3>1, RemoveOldGivesUp DEF Vault!VaultNext, Vault!vaultVars
  <2>8. CASE SaveDone
    <3>1. /\ Copies' = Copies /\ wasCut' = wasCut
          /\ committed' = IF error THEN committed ELSE written
      BY <2>8 DEF SaveDone, Copies
    <3>2. ASSUME ~error
          PROVE  /\ saves \in Saves /\ written \in Nat /\ written >= committed
                 /\ written = project \/ written = tmp[saves]
      BY <2>1, <2>8, <3>2 DEF SaveDone, HeldWhole
    <3>3. ASSUME ~error PROVE Vault!Report
      BY <3>1, <3>2, <3>3, CopiesAre DEF Vault!Report
    <3> QED
      BY <3>1, <3>3 DEF Vault!VaultNext, Vault!vaultVars
  <2> QED
    BY <2>2, <2>3, <2>4, <2>5, <2>6, <2>7, <2>8 DEF Next, User, TaskStep
<1> QED
  BY <1>1, <1>2

(* A copy of a reported version is given up for a newer one only, whatever *)
(* fails and wherever the program dies: the files implement the vault.     *)
THEOREM FilesAreAVault == Spec => ImplementsVault
<1>1. Init => Vault!VaultInit
  <2>1. Init => committed = Absent /\ wasCut = FALSE /\ \A v : v \notin Copies
    BY CopiesAre, ContentsAre DEF Init
  <2> QED
    BY <2>1 DEF Vault!VaultInit, Vault!Nothing, Absent
<1>2. FileInv /\ [Next]_fileVars => [Vault!VaultNext]_(Vault!vaultVars)
  BY StepIsVaultStep
<1> QED
  BY <1>1, <1>2, FileInvHolds, PTL DEF Spec, ImplementsVault, Vault!VaultSpec

(* In a vault the last reported version, or a newer one, is always kept:   *)
(* a saved project survives in one of the files.                           *)
THEOREM SavedProjectSurvives == Spec => []ACopySurvives
<1>1. Init => ACopySurvives
  BY DEF Init, ACopySurvives
<1>2. ASSUME FileInv, ACopySurvives, [Next]_fileVars
      PROVE  ACopySurvives'
  <2>1. /\ committed \in Int /\ wasCut \in BOOLEAN
        /\ \A v \in Copies : v \in Int
    BY <1>2, ContentsAre, CopiesAre DEF FileInv, FileTypeOK
  <2>2. CASE Vault!Keep
    BY <1>2, <2>1, <2>2 DEF ACopySurvives, Vault!Keep
  <2>3. CASE Vault!GiveUp
    BY <1>2, <2>1, <2>3 DEF ACopySurvives, Vault!GiveUp
  <2>4. CASE Vault!Report
    BY <1>2, <2>1, <2>4 DEF ACopySurvives, Vault!Report
  <2>5. CASE Vault!Damage
    BY <2>5 DEF ACopySurvives, Vault!Damage
  <2>6. CASE UNCHANGED Vault!vaultVars
    BY <1>2, <2>6 DEF ACopySurvives, Vault!vaultVars
  <2> QED
    BY <1>2, <2>2, <2>3, <2>4, <2>5, <2>6, StepIsVaultStep DEF Vault!VaultNext
<1> QED
  BY <1>1, <1>2, FileInvHolds, PTL DEF Spec
=============================================================================

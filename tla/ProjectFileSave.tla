---------------------------- MODULE ProjectFileSave ----------------------------
(***************************************************************************)
(* A project is saved to its file and loaded from it, by a task on the     *)
(* SerializerThread that the main thread starts and waits for.             *)
(*                                                                         *)
(* SerializationTask::run writes a new file beside the project's, moves    *)
(* the project's file aside, moves the new one to its place, and removes   *)
(* what it moved aside:                                                    *)
(*                                                                         *)
(*   write -> <name>_tmp_<time>                                            *)
(*   rename <name> -> <name>_old_<time>                                    *)
(*   rename <name>_tmp_<time> -> <name>     (its result is not looked at)  *)
(*   remove <name>_old_<time>               (nor is this one's)            *)
(*                                                                         *)
(* Every call on the file system is an action and may fail; the program    *)
(* may die between any two of them, and is then started again. The time    *)
(* in the names is the number of the save: no two saves run at once. What  *)
(* a file holds is the version of the data it was written from.            *)
(***************************************************************************)

EXTENDS Integers, FiniteSets

CONSTANTS MaxSaves, MaxVersions, MaxCrashes  (* Bounds of the model.       *)

ASSUME FileAssumption == MaxSaves \in Nat /\ MaxVersions \in Nat /\ MaxCrashes \in Nat

(* What a file holds, or the program: a version, a part of one, or nothing.*)
Absent == -2
Cut == -1
Contents == {Absent, Cut} \union Nat
Saves == 1..MaxSaves

VARIABLES
  (* Main thread.                                                          *)
  data,          (* The data in memory.                                    *)
  newest,        (* Versions are numbered; the last one there was.         *)
  sessionState,  (* "none" (no session), "saved" or "unsaved".             *)
  clearOnDone,   (* MainWindow waits for serializationProcessDone.         *)
  saves, crashes,
  (* The task.                                                             *)
  task,          (* The call the task makes next, or "none".               *)
  written,       (* The data it was given, or has read.                    *)
  oldFileExists, error,
  (* The disk: the project's file, and what each save has left beside it.  *)
  project, tmp, old,
  (* History, for the properties only.                                     *)
  committed,     (* The version whose save was last reported to succeed.   *)
  wasCut         (* A device has taken a part of a file only.              *)

mainVars == <<data, newest, sessionState, clearOnDone, saves, crashes>>
taskVars == <<task, written, oldFileExists, error>>
diskVars == <<project, tmp, old>>
ghostVars == <<committed, wasCut>>
fileVars == <<mainVars, taskVars, diskVars, ghostVars>>

Init ==
  /\ data = Absent /\ newest = 0 /\ sessionState = "none"
  /\ clearOnDone = FALSE /\ saves = 0 /\ crashes = 0
  /\ task = "none" /\ written = Absent /\ oldFileExists = FALSE /\ error = FALSE
  /\ project = Absent
  /\ tmp = [k \in Saves |-> Absent] /\ old = [k \in Saves |-> Absent]
  /\ committed = Absent /\ wasCut = FALSE

-----------------------------------------------------------------------------
(***************************************************************************)
(* The main thread. The window is blocked while a task runs.               *)
(***************************************************************************)

(* A crawl changes the data: onSessionChanged.                             *)
Crawl ==
  /\ task = "none" /\ newest < MaxVersions
  /\ newest' = newest + 1 /\ data' = newest + 1
  /\ sessionState' = "unsaved"
  /\ UNCHANGED <<clearOnDone, saves, crashes, taskVars, diskVars, ghostVars>>

(* A page is refreshed: the session does not become unsaved, as            *)
(* onSequencedDataCollectionChanged looks at changes of a crawl only.      *)
refreshPage ==
  /\ task = "none" /\ sessionState # "none" /\ newest < MaxVersions
  /\ newest' = newest + 1 /\ data' = newest + 1
  /\ UNCHANGED <<sessionState, clearOnDone, saves, crashes, taskVars, diskVars,
                 ghostVars>>

(* saveFile, saveToFile, and saveFileAndClearData, which the user is asked *)
(* for when unsaved data is to be cleared.                                 *)
Save(andClear) ==
  /\ task = "none" /\ sessionState # "none" /\ saves < MaxSaves
  /\ andClear => sessionState = "unsaved"
  /\ saves' = saves + 1
  /\ clearOnDone' = andClear
  /\ task' = "open" /\ written' = data /\ error' = FALSE
  /\ UNCHANGED <<data, newest, sessionState, crashes, oldFileExists, diskVars,
                 ghostVars>>

(* A mutant of SaveDone: the error of the task is not told. *)
SaveDoneIgnoresError ==
  /\ task = "done" /\ task' = "none"
  /\ committed' = written
  /\ sessionState' = "saved" /\ clearOnDone' = FALSE
  /\ UNCHANGED <<data, newest, saves, crashes, written, oldFileExists, error,
                 diskVars, wasCut>>

(* onSerializationTaskDone; then, on serializationProcessDone, clearData,  *)
(* by which a session with a name becomes unsaved: empty data is a version *)
(* too, and can be saved.                                                  *)
SaveDone ==
  /\ task = "done" /\ task' = "none"
  /\ committed' = IF error THEN committed ELSE written
  /\ \/ /\ ~clearOnDone
        /\ sessionState' = "saved" /\ UNCHANGED <<data, newest>>
     \/ /\ clearOnDone
        /\ sessionState' = "unsaved"
        /\ newest' = newest + 1 /\ data' = newest + 1
  /\ clearOnDone' = FALSE
  /\ UNCHANGED <<saves, crashes, written, oldFileExists, error,
                 diskVars, wasCut>>

(* A mutant of closeFile: the window is not blocked by a task. *)
closeFileAtOnce ==
  /\ sessionState # "none"
  /\ sessionState' = "none" /\ data' = Absent
  /\ UNCHANGED <<newest, clearOnDone, saves, crashes, taskVars, diskVars, ghostVars>>

closeFile ==
  /\ task = "none" /\ sessionState # "none"
  /\ sessionState' = "none" /\ data' = Absent
  /\ UNCHANGED <<newest, clearOnDone, saves, crashes, taskVars, diskVars, ghostVars>>

(* Clearing the data before the load makes the new session unsaved.        *)
loadFromFile ==
  /\ task = "none" /\ sessionState = "none"
  /\ sessionState' = "unsaved" /\ data' = Absent
  /\ task' = "read" /\ error' = FALSE
  /\ UNCHANGED <<newest, clearOnDone, saves, crashes, written, oldFileExists,
                 diskVars, ghostVars>>

(* onDeserializationTaskDone: the session of a file that could not be      *)
(* opened is deleted.                                                      *)
LoadDone ==
  /\ task = "loaded" /\ task' = "none"
  /\ sessionState' = IF error THEN "none" ELSE sessionState
  /\ data' = IF error THEN data ELSE written
  /\ UNCHANGED <<newest, clearOnDone, saves, crashes, written, oldFileExists,
                 error, diskVars, ghostVars>>

-----------------------------------------------------------------------------
(***************************************************************************)
(* SerializationTask::run. An exception ends it with an error.             *)
(***************************************************************************)

(* A mutant of OpenTemp: the failure is thrown outside of the try block. *)
OpenTempThrows ==
  /\ task = "open"
  /\ \/ tmp' = [tmp EXCEPT ![saves] = Cut] /\ task' = "write"
     \/ task' = "stuck" /\ UNCHANGED tmp
  /\ UNCHANGED <<mainVars, written, oldFileExists, error, project, old, ghostVars>>

OpenTemp ==
  /\ task = "open"
  /\ \/ /\ tmp' = [tmp EXCEPT ![saves] = Cut]
        /\ task' = "write" /\ UNCHANGED error
     \/ task' = "done" /\ error' = TRUE /\ UNCHANGED tmp
  /\ UNCHANGED <<mainVars, written, oldFileExists, project, old, ghostVars>>

(* saveToStream and close: no error of the device is looked at.            *)
WriteTemp ==
  /\ task = "write" /\ task' = "moveOld"
  /\ \/ /\ tmp' = [tmp EXCEPT ![saves] = written] /\ UNCHANGED wasCut
     \/ wasCut' = TRUE /\ UNCHANGED tmp
  /\ UNCHANGED <<mainVars, written, oldFileExists, error, project, old, committed>>

(* A mutant of MoveOld: a failure is not looked at. *)
MoveOldUnchecked ==
  /\ task = "moveOld" /\ task' = "moveTemp"
  /\ oldFileExists' = (project # Absent)
  /\ \/ UNCHANGED <<project, old>>
     \/ /\ project # Absent
        /\ old' = [old EXCEPT ![saves] = project] /\ project' = Absent
  /\ UNCHANGED <<mainVars, written, error, tmp, ghostVars>>

MoveOld ==
  /\ task = "moveOld"
  /\ oldFileExists' = (project # Absent)
  /\ \/ /\ project = Absent
        /\ task' = "moveTemp" /\ UNCHANGED <<project, old, error>>
     \/ /\ project # Absent
        /\ old' = [old EXCEPT ![saves] = project] /\ project' = Absent
        /\ task' = "moveTemp" /\ UNCHANGED error
     \/ /\ project # Absent
        /\ task' = "done" /\ error' = TRUE /\ UNCHANGED <<project, old>>
  /\ UNCHANGED <<mainVars, written, tmp, ghostVars>>

(* A mutant of MoveTemp: the new file is removed when it cannot be moved. *)
MoveTempCleansUp ==
  /\ task = "moveTemp" /\ task' = "removeOld"
  /\ \/ project = Absent /\ project' = tmp[saves]
     \/ UNCHANGED project
  /\ tmp' = [tmp EXCEPT ![saves] = Absent]
  /\ UNCHANGED <<mainVars, written, oldFileExists, error, old, ghostVars>>

(* QFile::rename does not replace a file.                                  *)
MoveTemp ==
  /\ task = "moveTemp" /\ task' = "removeOld"
  /\ \/ /\ project = Absent /\ project' = tmp[saves]
        /\ tmp' = [tmp EXCEPT ![saves] = Absent]
     \/ UNCHANGED <<project, tmp>>
  /\ UNCHANGED <<mainVars, written, oldFileExists, error, old, ghostVars>>

(* The QFile that was renamed goes by its new name.                        *)
RemoveOld ==
  /\ task = "removeOld" /\ task' = "done"
  /\ \/ oldFileExists /\ old' = [old EXCEPT ![saves] = Absent]
     \/ UNCHANGED old
  /\ UNCHANGED <<mainVars, written, oldFileExists, error, project, tmp, ghostVars>>

(* DeserializatoinTask::run. Opening may fail, and does without a file.    *)
(* The loops of the Serializer that read the options, the pages and the    *)
(* links wait for the end of their element and never see it in a file that *)
(* is cut; cut between elements, it loads.                                 *)
ReadProject ==
  /\ task = "read"
  /\ \/ task' = "loaded" /\ error' = TRUE /\ UNCHANGED written
     \/ /\ project # Absent
        /\ task' = "loaded" /\ written' = project /\ UNCHANGED error
     \/ /\ project = Cut
        /\ task' = "stuck" /\ UNCHANGED <<written, error>>
  /\ UNCHANGED <<mainVars, oldFileExists, diskVars, ghostVars>>

TaskStep ==
  OpenTemp \/ WriteTemp \/ MoveOld \/ MoveTemp \/ RemoveOld \/ ReadProject

-----------------------------------------------------------------------------
(* The program dies and is started again. Closed files outlive it.         *)
Crash ==
  /\ crashes < MaxCrashes /\ crashes' = crashes + 1
  /\ data' = Absent /\ sessionState' = "none" /\ clearOnDone' = FALSE
  /\ task' = "none" /\ written' = Absent /\ oldFileExists' = FALSE /\ error' = FALSE
  /\ UNCHANGED <<newest, saves, diskVars, ghostVars>>

User ==
  \/ Crawl \/ refreshPage \/ \E andClear \in BOOLEAN : Save(andClear)
  \/ closeFile \/ loadFromFile

Next == User \/ TaskStep \/ SaveDone \/ LoadDone \/ Crash

Spec == Init /\ [][Next]_fileVars

(* The task runs to its end, and its answer is handled.                    *)
FairSpec == Spec /\ WF_fileVars(TaskStep) /\ WF_fileVars(SaveDone \/ LoadDone)

-----------------------------------------------------------------------------
(***************************************************************************)
(* Properties.                                                             *)
(***************************************************************************)

(* The types, and what onSerializationTaskDone and                         *)
(* onDeserializationTaskDone assert: a task has a session to answer to.    *)
FileTypeOK ==
  /\ data \in Contents /\ written \in Contents
  /\ project \in Contents /\ committed \in Contents
  /\ newest \in Nat /\ saves \in 0..MaxSaves /\ crashes \in Nat
  /\ sessionState \in {"none", "saved", "unsaved"}
  /\ task \in {"none", "open", "write", "moveOld", "moveTemp", "removeOld", "done",
               "read", "loaded", "stuck"}
  /\ clearOnDone \in BOOLEAN /\ oldFileExists \in BOOLEAN
  /\ error \in BOOLEAN /\ wasCut \in BOOLEAN
  /\ tmp \in [Saves -> Contents] /\ old \in [Saves -> Contents]
  /\ task # "none" => sessionState # "none"

(* The versions of which there is a complete copy, under whatever name.    *)
Copies ==
  ({project} \union {tmp[k] : k \in Saves} \union {old[k] : k \in Saves}) \cap Nat

(* A project once reported as saved is never lost to later saves, however  *)
(* their renames fail and wherever the program dies: it, or a newer one,   *)
(* is in one of the files, unless a device has cut a file short.           *)
ACopySurvives ==
  ~wasCut /\ committed # Absent => \E v \in Copies : v >= committed

(* What opens under the project's name is never older than the last save   *)
(* that was reported to succeed, nor only a part of a project.             *)
NeverStale ==
  ~wasCut /\ project # Absent => project # Cut /\ project >= committed

(* Every task ends; only the reading of a file that was cut may not.       *)
TaskEnds == task # "none" ~> task = "none" \/ wasCut

(* The directory is a vault: copies are given up for newer ones only.      *)
Vault == INSTANCE ProjectVault
           WITH kept <- Copies, reported <- committed, damaged <- wasCut
ImplementsVault == Vault!VaultSpec

(* "Would you like to save the results and have the ability to start next  *)
(* time from this point?" After Save, the data is cleared only when it is  *)
(* in the project's file.                                                  *)
ClearedOnlyWhenSaved ==
  [][task = "done" /\ data' # data /\ sessionState' # "none"
       => project = data]_fileVars
=============================================================================

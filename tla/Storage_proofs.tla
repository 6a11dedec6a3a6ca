--------------------------- MODULE Storage_proofs ---------------------------
(****************************************************************************)
(* Storage: the installation stays usable and old saves give way only to    *)
(* new ones, for any images, backup times and number of saves.  What makes  *)
(* InstallationUsable inductive is what a setup has reached at each of its  *)
(* steps: the image it copies is in place before the settings name it, and  *)
(* until the copy may go the settings name the image the setup is about.    *)
(* For the saves it is what an import and a backup have reached.            *)
(****************************************************************************)
EXTENDS Storage, TLAPS

(* What the setup under way is about. *)
Named == IF op.copies THEN "copied" ELSE op.from

SetupInv ==
  /\ executable /\ ~torn => image \in Images \/ copied
  /\ op.at \in SetupSteps => (op.from = "copied" => copied)
  /\ op.at \in SetupSteps \ {"setup image"} => (op.copies => copied)
  /\ op.at \in {"setup executable", "setup cleanup"} /\ ~torn => image = Named

IInv == TypeOK /\ SetupInv

(* The folders the steps make are folders. *)
LEMMA FolderFacts ==
  /\ NoFolder \in Folders /\ ForeignSave \in Folders
  /\ \A folder \in Folders, f \in Files : folder[f] \in 0..Foreign
  /\ \A folder \in Folders, f \in Files, v \in 0..Foreign : [folder EXCEPT ![f] = v] \in Folders
  /\ 0 \in 0..Foreign /\ \A n \in 0..MaxSaves : n \in 0..Foreign
  /\ "data" \in Files /\ "sfo" \in Files
BY StorageAssumption DEF Folders, NoFolder, ForeignSave, Foreign, Files

(* What an operation is at each of its steps. *)
LEMMA OperationFacts ==
  /\ \A at \in {"idle", "write data", "write sfo", "delete", "backup copy", "backup swap"} :
       [at |-> at] \in Operations
  /\ \A from \in Folders, d \in BackupDirs : [at |-> "import copy", from |-> from, dir |-> d] \in Operations
  /\ \A d \in BackupDirs, moved \in BOOLEAN : [at |-> "import place", dir |-> d, moved |-> moved] \in Operations
  /\ \A at \in SetupSteps, from \in Images \cup {"copied"}, copies \in BOOLEAN :
       [at |-> at, from |-> from, copies |-> copies] \in Operations
BY DEF Operations

(* And, of an operation, what its step says of its form. *)
LEMMA StepFacts ==
  ASSUME op \in Operations
  PROVE  /\ op.at \in {"idle", "write data", "write sfo", "delete", "backup copy", "backup swap"} =>
              op \in [at : {"idle", "write data", "write sfo", "delete", "backup copy", "backup swap"}]
         /\ op.at = "import copy" => op \in [at : {"import copy"}, from : Folders, dir : BackupDirs]
         /\ op.at = "import place" => op \in [at : {"import place"}, dir : BackupDirs, moved : BOOLEAN]
         /\ op.at \in SetupSteps => op \in [at : SetupSteps, from : Images \cup {"copied"}, copies : BOOLEAN]
<1>1. CASE op \in [at : {"idle", "write data", "write sfo", "delete", "backup copy", "backup swap"}]
  BY <1>1 DEF SetupSteps
<1>2. CASE op \in [at : {"import copy"}, from : Folders, dir : BackupDirs]
  BY <1>2 DEF SetupSteps
<1>3. CASE op \in [at : {"import place"}, dir : BackupDirs, moved : BOOLEAN]
  BY <1>3 DEF SetupSteps
<1>4. CASE op \in [at : SetupSteps, from : Images \cup {"copied"}, copies : BOOLEAN]
  BY <1>4 DEF SetupSteps
<1> QED
  BY <1>1, <1>2, <1>3, <1>4 DEF Operations

(* The initial states are usable: nothing is installed. *)
LEMMA InitIInv == Init => IInv
<1> SUFFICES ASSUME Init PROVE IInv
  OBVIOUS
<1>1. op \in Operations /\ op.at = "idle"
  BY OperationFacts DEF Init, Idle
<1>2. TypeOK
  <2>1. backups \in [BackupDirs -> Folders]
    BY FolderFacts DEF Init
  <2>2. saves \in 0..MaxSaves
    BY StorageAssumption DEF Init
  <2> QED
    BY <1>1, <2>1, <2>2, FolderFacts DEF Init, TypeOK
<1>3. SetupInv
  BY <1>1 DEF Init, SetupInv, SetupSteps
<1> QED
  BY <1>2, <1>3 DEF IInv

(* Every step of every operation is of the operation's form. *)
LEMMA StepOperation == TypeOK /\ [Next]_vars => op' \in Operations
<1> SUFFICES ASSUME TypeOK, [Next]_vars PROVE op' \in Operations
  OBVIOUS
<1> USE OperationFacts, StepFacts
<1>1. op \in Operations /\ backups \in [BackupDirs -> Folders]
  BY DEF TypeOK
<1>2. Idle \in Operations
  BY DEF Idle
<1>3. CASE WriteSave \/ WriteData
  <2>1. CASE WriteSave
    BY <2>1 DEF WriteSave, Begins
  <2>2. CASE WriteData
    <3>1. op \in [at : {"idle", "write data", "write sfo", "delete", "backup copy", "backup swap"}]
      BY <1>1, <2>2 DEF WriteData, Goes
    <3>2. op' = [at |-> "write sfo"]
      BY <3>1, <2>2 DEF WriteData, Goes
    <3> QED
      BY <3>2
  <2> QED
    BY <1>3, <2>1, <2>2
<1>4. CASE WriteSfo \/ ImportFails \/ Place \/ PlaceFails \/ BackupFails \/ KeepBackup \/ SetupCleanup \/ Stop
  BY <1>2, <1>4 DEF WriteSfo, ImportFails, Place, PlaceFails, BackupFails, KeepBackup, SetupCleanup, Stop, Ends
<1>5. CASE DeleteSave
  BY <1>2, <1>5 DEF DeleteSave
<1>6. CASE Import
  <2>1. PICK from \in {ForeignSave} \cup {b \in Range(backups) : Whole(b)}, d \in BackupDirs :
          op' = [at |-> "import copy", from |-> from, dir |-> d]
    BY <1>6 DEF Import, Begins
  <2>2. from \in Folders
    BY <1>1, FolderFacts DEF Range
  <2> QED
    BY <2>1, <2>2
<1>7. CASE ImportCopies \/ RemoveEarlier \/ CopyImageDocument \/ WriteSettings \/ UNCHANGED vars
  BY <1>1, <1>7 DEF ImportCopies, RemoveEarlier, CopyImageDocument, WriteSettings, vars
<1>8. CASE MoveAside
  <2>1. op \in [at : {"import copy"}, from : Folders, dir : BackupDirs]
    BY <1>1, <1>8 DEF MoveAside
  <2>2. op.dir \in BackupDirs /\ (save # NoFolder) \in BOOLEAN
    BY <2>1
  <2>3. op' = [at |-> "import place", dir |-> op.dir, moved |-> save # NoFolder]
    BY <1>8 DEF MoveAside
  <2> QED
    BY <2>2, <2>3
<1>9. CASE BackUp
  BY <1>9 DEF BackUp, Begins
<1>10. CASE BackupCopies
  BY <1>1, <1>10 DEF BackupCopies
<1>11. CASE Install
  BY <1>11 DEF Install, Begins, SetupSteps
<1>12. CASE SetupImage \/ SetupSettings \/ SetupExecutable
  <2>1. op \in [at : SetupSteps, from : Images \cup {"copied"}, copies : BOOLEAN]
    BY <1>1, <1>12 DEF SetupImage, SetupSettings, SetupExecutable, Goes, SetupSteps
  <2>2. PICK at \in SetupSteps : op' = [op EXCEPT !.at = at]
    BY <1>12 DEF SetupImage, SetupSettings, SetupExecutable, Goes, SetupSteps
  <2>3. op' = [at |-> at, from |-> op.from, copies |-> op.copies]
    BY <2>1, <2>2
  <2> QED
    BY <2>1, <2>3
<1> QED
  BY <1>3, <1>4, <1>5, <1>6, <1>7, <1>8, <1>9, <1>10, <1>11, <1>12 DEF Next

(* Every step of every operation keeps the types. *)
LEMMA StepTypeOK == TypeOK /\ [Next]_vars => TypeOK'
<1> SUFFICES ASSUME TypeOK, [Next]_vars PROVE TypeOK'
  OBVIOUS
<1> USE FolderFacts DEF TypeOK, saveVars, importVars, backupVars, setupVars
<1>0. op' \in Operations
  BY StepOperation
<1>1. CASE WriteSave
  <2>1. saves < MaxSaves /\ saves' = saves + 1
    BY <1>1 DEF WriteSave
  <2>2. saves' \in 0..MaxSaves
    BY <2>1, StorageAssumption
  <2> QED
    BY <1>0, <1>1, <2>2 DEF WriteSave
<1>2. CASE WriteData \/ WriteSfo
  <2>1. saves \in 0..Foreign
    BY FolderFacts
  <2>2. PICK f \in Files : save' = [save EXCEPT ![f] = saves]
    BY <1>2 DEF WriteData, WriteSfo, WritesFile
  <2>3. save' \in Folders
    BY <2>1, <2>2
  <2> QED
    BY <1>0, <1>2, <2>3 DEF WriteData, WriteSfo, WritesFile
<1>3. CASE DeleteSave
  <2>1. PICK f \in Files : save' = [save EXCEPT ![f] = 0]
    BY <1>3 DEF DeleteSave, RemovesFile
  <2>2. save' \in Folders
    BY <2>1
  <2> QED
    BY <1>0, <1>3, <2>2 DEF DeleteSave
<1>4. CASE Import
  BY <1>0, <1>4 DEF Import
<1>5. CASE ImportCopies
  <2>1. op.from \in Folders
    BY <1>5, StepFacts DEF ImportCopies
  <2>2. PICK f \in Files : staging' = [staging EXCEPT ![f] = op.from[f]]
    BY <1>5 DEF ImportCopies, CopiesFile
  <2>3. staging' \in Folders
    BY <2>1, <2>2
  <2> QED
    BY <1>0, <1>5, <2>3 DEF ImportCopies
<1>6. CASE ImportFails
  BY <1>0, <1>6 DEF ImportFails
<1>7. CASE MoveAside
  BY <1>0, <1>7 DEF MoveAside, Aside
<1>8. CASE Place \/ PlaceFails
  <2>1. op.at = "import place" => op.dir \in BackupDirs
    BY StepFacts
  <2>2. CASE Place
    BY <1>0, <2>2 DEF Place
  <2>3. CASE PlaceFails
    <3>1. op.dir \in BackupDirs
      BY <2>1, <2>3 DEF PlaceFails, Ends
    <3>2. backups[op.dir] \in Folders
      BY <3>1
    <3>3. [backups EXCEPT ![op.dir] = NoFolder] \in [BackupDirs -> Folders]
      BY <3>1
    <3>4. save' \in Folders /\ backups' \in [BackupDirs -> Folders]
      BY <2>3, <3>2, <3>3 DEF PlaceFails
    <3> QED
      BY <1>0, <2>3, <3>4 DEF PlaceFails
  <2> QED
    BY <1>8, <2>2, <2>3
<1>9. CASE BackUp \/ BackupFails \/ KeepBackup
  BY <1>0, <1>9 DEF BackUp, BackupFails, KeepBackup
<1>10. CASE BackupCopies
  <2>1. PICK f \in Files : partial' = [partial EXCEPT ![f] = save[f]]
    BY <1>10 DEF BackupCopies, CopiesFile
  <2>2. partial' \in Folders
    BY <2>1
  <2> QED
    BY <1>0, <1>10, <2>2 DEF BackupCopies
<1>11. CASE RemoveEarlier
  <2>1. PICK f \in Files : kept' = [kept EXCEPT ![f] = 0]
    BY <1>11 DEF RemoveEarlier, RemovesFile
  <2>2. kept' \in Folders
    BY <2>1
  <2> QED
    BY <1>0, <1>11, <2>2 DEF RemoveEarlier
<1>12. CASE Install
  BY <1>0, <1>12 DEF Install
<1>13. CASE SetupImage \/ SetupSettings \/ SetupExecutable \/ SetupCleanup
  <2>1. op.from \in Images \cup {"copied"} /\ op.copies \in BOOLEAN
    BY <1>13, StepFacts DEF SetupImage, SetupSettings, SetupExecutable, SetupCleanup, Goes, Ends, SetupSteps
  <2> QED
    BY <1>0, <1>13, <2>1 DEF SetupImage, SetupSettings, SettingsWritten, SetupExecutable, SetupCleanup
<1>14. CASE CopyImageDocument \/ WriteSettings
  BY <1>0, <1>14 DEF CopyImageDocument, WriteSettings, SettingsWritten
<1>15. CASE Stop
  BY <1>0, <1>15 DEF Stop
<1>16. CASE UNCHANGED vars
  BY <1>16 DEF vars
<1> QED
  BY <1>1, <1>2, <1>3, <1>4, <1>5, <1>6, <1>7, <1>8, <1>9, <1>10, <1>11, <1>12, <1>13, <1>14,
     <1>15, <1>16 DEF Next

(* Operations on saves do not touch the installation, and each step of a    *)
(* setup keeps what has been reached. *)
LEMMA StepSetupInv == IInv /\ [Next]_vars => SetupInv'
<1> SUFFICES ASSUME IInv, [Next]_vars PROVE SetupInv'
  OBVIOUS
<1>0. op \in Operations /\ SetupInv /\ (copied \in BOOLEAN /\ torn \in BOOLEAN /\ executable \in BOOLEAN)
  BY DEF IInv, TypeOK
<1>1. ASSUME UNCHANGED setupVars, op'.at \notin SetupSteps
      PROVE  SetupInv'
  BY <1>0, <1>1 DEF SetupInv, setupVars, SetupSteps
<1>2. CASE WriteSave \/ DeleteSave \/ Import \/ MoveAside \/ BackUp
  <2>1. op'.at \in {"write data", "idle", "delete", "import copy", "import place", "backup copy"}
    <3>1. CASE WriteSave \/ BackUp
      <4>1. op' = [at |-> "write data"] \/ op' = [at |-> "backup copy"]
        BY <3>1 DEF WriteSave, BackUp, Begins
      <4>2. CASE op' = [at |-> "write data"]
        BY <4>2
      <4>3. CASE op' = [at |-> "backup copy"]
        BY <4>3
      <4> QED
        BY <4>1, <4>2, <4>3
    <3>2. CASE DeleteSave
      <4>1. op' = [at |-> "idle"] \/ op' = [at |-> "delete"]
        BY <3>2 DEF DeleteSave, Idle
      <4>2. CASE op' = [at |-> "idle"]
        BY <4>2
      <4>3. CASE op' = [at |-> "delete"]
        BY <4>3
      <4> QED
        BY <4>1, <4>2, <4>3
    <3>3. CASE Import
      <4>1. PICK from, d : op' = [at |-> "import copy", from |-> from, dir |-> d]
        BY <3>3 DEF Import, Begins
      <4>2. op'.at = "import copy"
        BY <4>1
      <4> QED
        BY <4>2
    <3>4. CASE MoveAside
      BY <3>4 DEF MoveAside
    <3> QED
      BY <1>2, <3>1, <3>2, <3>3, <3>4
  <2>2. op'.at \notin SetupSteps
    BY <2>1 DEF SetupSteps
  <2> QED
    BY <1>1, <1>2, <2>2 DEF WriteSave, DeleteSave, Import, MoveAside, BackUp
<1>3. CASE WriteData
  <2>1. op' = [at |-> "write sfo"]
    BY <1>0, <1>3, StepFacts DEF WriteData, Goes
  <2> QED
    BY <1>1, <1>3, <2>1 DEF WriteData, WritesFile, SetupSteps
<1>4. CASE WriteSfo \/ ImportFails \/ Place \/ PlaceFails \/ BackupFails \/ KeepBackup \/ Stop
  <2>1. op' = [at |-> "idle"]
    BY <1>4 DEF WriteSfo, ImportFails, Place, PlaceFails, BackupFails, KeepBackup, Stop, Ends, Idle
  <2> QED
    BY <1>1, <1>4, <2>1 DEF WriteSfo, WritesFile, ImportFails, Place, PlaceFails, BackupFails, KeepBackup,
         Stop, SetupSteps
<1>5. CASE ImportCopies \/ BackupCopies \/ RemoveEarlier
  <2>1. op'.at \in {"import copy", "backup copy", "backup swap"}
    <3>1. CASE ImportCopies \/ RemoveEarlier
      BY <3>1 DEF ImportCopies, RemoveEarlier
    <3>2. CASE BackupCopies
      BY <3>2 DEF BackupCopies
    <3> QED
      BY <1>5, <3>1, <3>2
  <2> QED
    BY <1>1, <1>5, <2>1 DEF ImportCopies, BackupCopies, RemoveEarlier, SetupSteps
<1>6. CASE Install
  <2>1. PICK from \in Images \cup {"copied"}, copies \in BOOLEAN :
          /\ from = "copied" => copied
          /\ op' = [at |-> "setup image", from |-> from, copies |-> copies]
    BY <1>6 DEF Install, Begins
  <2> QED
    BY <1>0, <1>6, <2>1 DEF Install, setupVars, SetupInv, SetupSteps
<1>7. CASE SetupImage \/ SetupSettings \/ SetupExecutable
  <2>1. op \in [at : SetupSteps, from : Images \cup {"copied"}, copies : BOOLEAN]
    BY <1>0, <1>7, StepFacts DEF SetupImage, SetupSettings, SetupExecutable, Goes, SetupSteps
  <2>2. PICK at \in SetupSteps : op' = [op EXCEPT !.at = at]
    BY <1>7 DEF SetupImage, SetupSettings, SetupExecutable, Goes, SetupSteps
  <2>3. op'.at = at /\ op'.from = op.from /\ op'.copies = op.copies
    BY <2>1, <2>2
  <2>4. CASE SetupImage
    <3>1. op'.at = "setup settings"
      BY <2>1, <2>4 DEF SetupImage, Goes
    <3> QED
      BY <1>0, <2>3, <2>4, <3>1 DEF SetupImage, Goes, SetupInv, SetupSteps
  <2>5. CASE SetupSettings
    <3>1. op'.at = "setup executable"
      BY <2>1, <2>5 DEF SetupSettings, Goes
    <3>2. torn' \/ (image' = Named /\ image' = Named')
      BY <2>3, <2>5 DEF SetupSettings, SettingsWritten, Named
    <3>3. Named \in Images \/ copied
      BY <1>0, <2>1, <2>5 DEF SetupSettings, Goes, SetupInv, SetupSteps, Named
    <3> QED
      BY <1>0, <2>3, <2>5, <3>1, <3>2, <3>3 DEF SetupSettings, Goes, SetupInv, SetupSteps
  <2>6. CASE SetupExecutable
    <3>1. op'.at = "setup cleanup"
      BY <2>1, <2>6 DEF SetupExecutable, Goes
    <3>2. op.at = "setup executable" /\ Named' = Named /\ UNCHANGED <<copied, image, torn>>
      BY <2>3, <2>6 DEF SetupExecutable, Goes, Named
    <3>3. ~torn => image \in Images \/ copied
      BY <1>0, <2>1, <3>2 DEF SetupInv, SetupSteps, Named
    <3> QED
      BY <1>0, <2>3, <3>1, <3>2, <3>3 DEF SetupInv, SetupSteps
  <2> QED
    BY <1>7, <2>4, <2>5, <2>6
<1>8. CASE SetupCleanup
  <2>1. op \in [at : SetupSteps, from : Images \cup {"copied"}, copies : BOOLEAN] /\ op.at = "setup cleanup"
    BY <1>0, <1>8, StepFacts DEF SetupCleanup, Ends, SetupSteps
  <2>2. ~torn => image = Named
    BY <1>0, <2>1 DEF SetupInv
  <2>3. ~torn => image \in Images \/ (copied /\ ~UnusedCopy)
    BY <1>0, <2>1, <2>2 DEF SetupInv, SetupSteps, Named, UnusedCopy
  <2>4. op'.at \notin SetupSteps
    BY <1>8 DEF SetupCleanup, Ends, Idle, SetupSteps
  <2> QED
    BY <1>8, <2>3, <2>4 DEF SetupCleanup, SetupInv, SetupSteps
<1>9. CASE CopyImageDocument \/ WriteSettings
  <2>1. op.at = "idle" /\ op' = op
    BY <1>9 DEF CopyImageDocument, WriteSettings, Idle
  <2>2. op'.at \notin SetupSteps
    BY <2>1 DEF SetupSteps
  <2>3. executable' /\ ~torn' => image' \in Images \/ copied'
    <3>1. CASE CopyImageDocument
      BY <3>1 DEF CopyImageDocument
    <3>2. CASE WriteSettings
      <4>1. UNCHANGED <<copied, executable>>
        BY <3>2 DEF WriteSettings
      <4>2. (image' = image /\ torn' = torn) \/ torn' = TRUE
        BY <3>2 DEF WriteSettings, SettingsWritten
      <4> QED
        BY <1>0, <4>1, <4>2 DEF SetupInv
    <3> QED
      BY <1>9, <3>1, <3>2
  <2> QED
    BY <2>2, <2>3 DEF SetupInv, SetupSteps
<1>10. CASE UNCHANGED vars
  BY <1>0, <1>10 DEF vars, setupVars, SetupInv, Named
<1> QED
  BY <1>2, <1>3, <1>4, <1>5, <1>6, <1>7, <1>8, <1>9, <1>10 DEF Next

(* However often a setup is started over and wherever it is cut off, the    *)
(* settings of an installation that can be started name an image that is    *)
(* there (installer.cpp, the order of install_checked).                     *)
THEOREM InstallationStaysUsable == Spec => []InstallationUsable
<1>1. Init => IInv
  BY InitIInv
<1>2. IInv /\ [Next]_vars => IInv'
  BY StepTypeOK, StepSetupInv DEF IInv
<1>3. IInv => InstallationUsable
  BY DEF IInv, SetupInv, InstallationUsable
<1> QED
  BY <1>1, <1>2, <1>3, PTL DEF Spec

-----------------------------------------------------------------------------
(* Saves.  While an import is about to put its copy in place there is no    *)
(* save, and an earlier backup is taken apart only beside a copy of the     *)
(* save as it is. *)
SavesInv ==
  /\ op.at = "import place" => save = NoFolder
  /\ op.at = "backup swap" => partial = save

SInv == TypeOK /\ SavesInv

(* What is whole. *)
LEMMA WholeFacts ==
  /\ ~Whole(NoFolder)
  /\ \A x : x \in WholeSaves <=> Whole(x) /\ (x = save \/ \E d \in DOMAIN backups : x = backups[d])
BY DEF Whole, WholeSaves, Range

(* The same of the saves after a step. *)
LEMMA WholeFactsAfter ==
  \A x : x \in WholeSaves' <=> Whole(x) /\ (x = save' \/ \E d \in DOMAIN backups' : x = backups'[d])
BY DEF Whole, WholeSaves, Range

(* Which operations touch the save, the copy beside it or the backups, and  *)
(* at which of their steps. *)
LEMMA OthersLeaveSaves ==
  ASSUME TypeOK, [Next]_vars
  PROVE  \/ UNCHANGED <<save, backups, partial, kept>> /\ op'.at \notin {"import place", "backup swap"}
         \/ UNCHANGED <<save, backups, partial, kept, op>>
         \/ WriteData \/ WriteSfo \/ DeleteSave \/ MoveAside \/ Place \/ PlaceFails
         \/ BackUp \/ BackupCopies \/ BackupFails \/ RemoveEarlier \/ KeepBackup \/ Stop
<1> USE DEF saveVars, importVars, backupVars
<1>0. op \in Operations
  BY DEF TypeOK
<1>1. CASE WriteSave
  <2>1. op' = [at |-> "write data"] /\ UNCHANGED <<save, backups, partial, kept>>
    BY <1>1 DEF WriteSave, Begins
  <2>2. op'.at = "write data"
    BY <2>1
  <2> QED
    BY <2>1, <2>2
<1>2. CASE Import
  <2>1. PICK from, d : op' = [at |-> "import copy", from |-> from, dir |-> d]
    BY <1>2 DEF Import, Begins
  <2>2. op'.at = "import copy"
    BY <2>1
  <2> QED
    BY <1>2, <2>2 DEF Import
<1>3. CASE ImportCopies \/ CopyImageDocument \/ WriteSettings
  BY <1>3 DEF ImportCopies, CopyImageDocument, WriteSettings
<1>4. CASE ImportFails \/ SetupCleanup
  <2>1. op' = [at |-> "idle"]
    BY <1>4 DEF ImportFails, SetupCleanup, Ends, Idle
  <2>2. op'.at = "idle"
    BY <2>1
  <2> QED
    BY <1>4, <2>2 DEF ImportFails, SetupCleanup
<1>5. CASE Install
  <2>1. PICK from, copies : op' = [at |-> "setup image", from |-> from, copies |-> copies]
    BY <1>5 DEF Install, Begins
  <2>2. op'.at = "setup image"
    BY <2>1
  <2> QED
    BY <1>5, <2>2 DEF Install
<1>6. CASE SetupImage \/ SetupSettings \/ SetupExecutable
  <2>1. PICK at \in SetupSteps : op' = [op EXCEPT !.at = at]
    BY <1>6 DEF SetupImage, SetupSettings, SetupExecutable, Goes, SetupSteps
  <2>2. op \in [at : SetupSteps, from : Images \cup {"copied"}, copies : BOOLEAN]
    BY <1>0, <1>6, StepFacts DEF SetupImage, SetupSettings, SetupExecutable, Goes, SetupSteps
  <2>3. op'.at \in SetupSteps
    BY <2>1, <2>2
  <2>4. op'.at \notin {"import place", "backup swap"}
    BY <2>3 DEF SetupSteps
  <2> QED
    BY <1>6, <2>4 DEF SetupImage, SetupSettings, SetupExecutable
<1>7. CASE UNCHANGED vars
  BY <1>7 DEF vars
<1> QED
  BY <1>1, <1>2, <1>3, <1>4, <1>5, <1>6, <1>7 DEF Next

(* Each step of an operation on saves keeps what has been reached. *)
LEMMA StepSavesInv == SInv /\ [Next]_vars => SavesInv'
<1> SUFFICES ASSUME SInv, [Next]_vars PROVE SavesInv'
  OBVIOUS
<1> USE DEF SavesInv, saveVars, importVars, backupVars
<1>0. TypeOK /\ SavesInv /\ op \in Operations
  BY DEF SInv, TypeOK
<1>1. ASSUME op' = Idle PROVE SavesInv'
  BY <1>1 DEF Idle
<1>2. CASE UNCHANGED <<save, backups, partial, kept>> /\ op'.at \notin {"import place", "backup swap"}
  BY <1>2
<1>3. CASE UNCHANGED <<save, backups, partial, kept, op>>
  BY <1>0, <1>3
<1>4. CASE WriteSfo \/ Place \/ PlaceFails \/ BackupFails \/ KeepBackup \/ Stop
  BY <1>1, <1>4 DEF WriteSfo, Place, PlaceFails, BackupFails, KeepBackup, Stop, Ends
<1>5. CASE WriteData
  <2>1. op' = [at |-> "write sfo"]
    BY <1>0, <1>5, StepFacts DEF WriteData, Goes
  <2> QED
    BY <2>1
<1>6. CASE DeleteSave
  <2>1. op' = Idle \/ op' = [at |-> "delete"]
    BY <1>6 DEF DeleteSave
  <2>2. ASSUME op' = [at |-> "delete"] PROVE SavesInv'
    BY <2>2
  <2> QED
    BY <1>1, <2>1, <2>2, Zenon
<1>7. CASE MoveAside
  BY <1>7 DEF MoveAside
<1>8. CASE BackUp
  <2>1. op' = [at |-> "backup copy"]
    BY <1>8 DEF BackUp, Begins
  <2> QED
    BY <2>1
<1>9. CASE BackupCopies
  <2>1. CASE partial' = save
    BY <1>9, <2>1 DEF BackupCopies
  <2>2. CASE partial' # save
    BY <1>9, <2>2 DEF BackupCopies
  <2> QED
    BY <2>1, <2>2
<1>10. CASE RemoveEarlier
  BY <1>0, <1>10 DEF RemoveEarlier
<1> QED
  BY <1>0, <1>2, <1>3, <1>4, <1>5, <1>6, <1>7, <1>8, <1>9, <1>10, OthersLeaveSaves

(* No step of an import loses a whole save. *)
LEMMA ImportKeepsSaves ==
  ASSUME SInv, [Next]_vars, op.at \in {"import copy", "import place"}
  PROVE  WholeSaves \subseteq WholeSaves'
<1> USE DEF saveVars, importVars, backupVars
<1>0. TypeOK /\ SavesInv /\ op \in Operations /\ backups \in [BackupDirs -> Folders]
  BY DEF SInv, TypeOK
<1>a. op # Idle /\ op.at \in {"import copy", "import place"}
  <2>1. Idle.at = "idle"
    BY DEF Idle
  <2> QED
    BY <2>1
<1>1. op.dir \in BackupDirs
  BY <1>0, StepFacts
<1>2. ASSUME UNCHANGED <<save, backups>> PROVE WholeSaves \subseteq WholeSaves'
  BY <1>2, WholeFacts, WholeFactsAfter
<1>3. CASE MoveAside
  <2>1. CASE save = NoFolder
    <3>1. UNCHANGED <<save, backups>>
      BY <1>3, <2>1 DEF MoveAside
    <3> QED
      BY <1>2, <3>1
  <2>2. CASE save # NoFolder
    <3>1. backups[op.dir] = NoFolder /\ backups' = [backups EXCEPT ![op.dir] = save]
      BY <1>3, <2>2 DEF MoveAside, Aside
    <3>2. DOMAIN backups = BackupDirs /\ DOMAIN backups' = BackupDirs /\ backups'[op.dir] = save
      BY <1>0, <1>1, <3>1
    <3>3. \A d \in BackupDirs : d # op.dir => backups'[d] = backups[d]
      BY <1>0, <3>1
    <3>4. ASSUME NEW x \in WholeSaves PROVE x \in WholeSaves'
      <4>1. Whole(x) /\ (x = save \/ \E d \in BackupDirs : d # op.dir /\ x = backups[d])
        BY <3>1, <3>2, <3>4, WholeFacts
      <4> QED
        BY <1>1, <3>2, <3>3, <4>1, WholeFactsAfter
    <3> QED
      BY <3>4
  <2> QED
    BY <2>1, <2>2
<1>4. CASE Place
  <2>1. save = NoFolder /\ backups' = backups
    BY <1>0, <1>4 DEF Place, Ends, SavesInv
  <2> QED
    BY <2>1, WholeFacts, WholeFactsAfter
<1>5. CASE PlaceFails
  <2>1. save = NoFolder
    BY <1>0, <1>5 DEF PlaceFails, Ends, SavesInv
  <2>2. CASE save' = backups[op.dir] /\ backups' = [backups EXCEPT ![op.dir] = NoFolder]
    <3>1. DOMAIN backups = BackupDirs /\ DOMAIN backups' = BackupDirs
      BY <1>0, <1>1, <2>2
    <3>2. \A d \in BackupDirs : d # op.dir => backups'[d] = backups[d]
      BY <1>0, <2>2
    <3> QED
      BY <2>1, <2>2, <3>1, <3>2, WholeFacts, WholeFactsAfter, Zenon
  <2> QED
    BY <1>2, <1>5, <2>2 DEF PlaceFails
<1>6. CASE WriteData \/ WriteSfo \/ BackUp \/ BackupCopies \/ BackupFails \/ RemoveEarlier \/ KeepBackup
  <2>1. op.at \in {"write data", "write sfo", "backup copy", "backup swap"} \/ op = Idle
    BY <1>6, Zenon DEF WriteData, WriteSfo, BackUp, BackupCopies, BackupFails, RemoveEarlier, KeepBackup,
         Goes, Ends, Begins
  <2> QED
    BY <1>a, <2>1
<1>7. CASE DeleteSave
  <2>1. op = Idle \/ op.at = "delete"
    BY <1>7, Zenon DEF DeleteSave
  <2> QED
    BY <1>a, <2>1
<1>8. CASE Stop
  BY <1>2, <1>8 DEF Stop
<1> QED
  BY <1>0, <1>2, <1>3, <1>4, <1>5, <1>6, <1>7, <1>8, OthersLeaveSaves

(* The player's backup changes only while a copy of the save is beside it. *)
LEMMA BackupBesideCopy ==
  ASSUME SInv, [Next]_vars, kept' # kept
  PROVE  partial = save
<1> USE DEF saveVars, importVars, backupVars
<1>0. TypeOK /\ SavesInv
  BY DEF SInv
<1>1. CASE RemoveEarlier \/ KeepBackup
  BY <1>0, <1>1 DEF RemoveEarlier, KeepBackup, Ends, SavesInv
<1>2. CASE WriteData \/ WriteSfo \/ DeleteSave \/ MoveAside \/ Place \/ PlaceFails
  BY <1>2 DEF WriteData, WriteSfo, WritesFile, DeleteSave, MoveAside, Place, PlaceFails
<1>3. CASE BackUp \/ BackupCopies \/ BackupFails \/ Stop
  BY <1>3 DEF BackUp, BackupCopies, BackupFails, Stop
<1> QED
  BY <1>0, <1>1, <1>2, <1>3, OthersLeaveSaves

(* Whenever the host is killed or a step fails, an import has lost no save  *)
(* that was whole, and an earlier backup is gone only when its successor is *)
(* complete (save_transfer.cpp, import_save and back_up_saves).         *)
THEOREM OldSavesGiveWayToNew == Spec => OldGivesWayToNew
<1>1. Init => SInv
  BY InitIInv DEF IInv, SInv, SavesInv, Init, Idle
<1>2. SInv /\ [Next]_vars => SInv'
  BY StepTypeOK, StepSavesInv DEF SInv
<1>3. SInv /\ [Next]_vars =>
        [/\ op.at \in {"import copy", "import place"} => WholeSaves \subseteq WholeSaves'
         /\ kept' # kept => partial = save]_vars
  BY ImportKeepsSaves, BackupBesideCopy
<1> QED
  BY <1>1, <1>2, <1>3, PTL DEF Spec, OldGivesWayToNew
=============================================================================

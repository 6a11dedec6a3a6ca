------------------------------ MODULE Storage ------------------------------
(****************************************************************************)
(* What the host keeps on disk: the game's save folder with its transfers   *)
(* (save_data/savedata_store.cpp, save_transfer.cpp), and the installation  *)
(* with its settings (install/installer.cpp, user_data.cpp).  An operation  *)
(* goes step by step, one rename, removal or copied file at a time, and may *)
(* fail or be cut off by a crash before any of them.  A file is written     *)
(* beside its target and renamed over it, so a step leaves the old file or  *)
(* the new one; what a crash leaves beside a target, the next attempt       *)
(* truncates.                                                               *)
(****************************************************************************)
EXTENDS Integers, Functions

CONSTANTS
  MaxSaves,    \* times the game saves
  BackupDirs,  \* names a moment gives an import's backups
  Images       \* disc images outside the data directory

ASSUME StorageAssumption == MaxSaves \in Nat \ {0} /\ "copied" \notin Images

(* A save folder: which save its data file and its PARAM.SFO come from.     *)
(* PARAM.SFO carries the hash of its data file, so the folder loads when    *)
(* both are of one save and counts as broken otherwise (load_save).         *)
Files == {"data", "sfo"}
Foreign == MaxSaves + 1
Folders == [Files -> 0..Foreign]
NoFolder == [f \in Files |-> 0]
Whole(folder) == folder # NoFolder /\ folder["data"] = folder["sfo"]
ForeignSave == [f \in Files |-> Foreign]

VARIABLES
  saves,     \* saves begun by the game
  save,      \* the game's save folder
  staging,   \* .import-<name> beside it
  backups,   \* .backup/<time>, by time
  kept,      \* the player's backup folder
  partial,   \* .<name>.partial in it
  copied,    \* an image is in the data directory
  image,     \* disc_image of the settings, "copied" when they have none
  torn,      \* settings were written short since the last setup
  executable, \* the executable is in the data directory
  op         \* the operation under way: its next step and its arguments

saveVars == <<saves, save>>
importVars == <<staging, backups>>
backupVars == <<kept, partial>>
setupVars == <<copied, image, torn, executable>>
vars == <<saveVars, importVars, backupVars, setupVars, op>>

Idle == [at |-> "idle"]
SetupSteps == {"setup image", "setup settings", "setup executable", "setup cleanup"}
Operations ==
  [at : {"idle", "write data", "write sfo", "delete", "backup copy", "backup swap"}]
    \cup [at : {"import copy"}, from : Folders, dir : BackupDirs]
    \cup [at : {"import place"}, dir : BackupDirs, moved : BOOLEAN]
    \cup [at : SetupSteps, from : Images \cup {"copied"}, copies : BOOLEAN]

Init ==
  /\ saves = 0 /\ save = NoFolder
  /\ staging = NoFolder /\ backups = [d \in BackupDirs |-> NoFolder]
  /\ kept = NoFolder /\ partial = NoFolder
  /\ copied = FALSE /\ image = "copied" /\ torn = FALSE /\ executable = FALSE
  /\ op = Idle

-----------------------------------------------------------------------------
(* What the operations have in common. *)

(* One more file of `from` is in `to` (copy_folder_files). *)
CopiesFile(to, from) ==
  \E f \in Files : to[f] # from[f] /\ to' = [to EXCEPT ![f] = from[f]]

(* One file fewer is in the folder (remove_all). *)
RemovesFile(folder) ==
  \E f \in Files : folder[f] # 0 /\ folder' = [folder EXCEPT ![f] = 0]

Begins(operation) == op = Idle /\ op' = operation
Goes(from, to) == op.at = from /\ op' = [op EXCEPT !.at = to]
Ends(at) == op.at = at /\ op' = Idle

(* The host is killed, or a step fails that nothing is undone after.  Copies *)
(* left half-made are forgotten here: the next attempt removes them first.  *)
Stop ==
  /\ op # Idle /\ op' = Idle
  /\ staging' = NoFolder /\ partial' = NoFolder
  /\ UNCHANGED <<saveVars, backups, kept, setupVars>>

-----------------------------------------------------------------------------
(* write_save: the data file first, PARAM.SFO last. *)
WriteSave ==
  /\ saves < MaxSaves /\ saves' = saves + 1
  /\ Begins([at |-> "write data"])
  /\ UNCHANGED <<save, importVars, backupVars, setupVars>>
WritesFile(f) ==
  /\ save' = [save EXCEPT ![f] = saves]
  /\ UNCHANGED <<saves, importVars, backupVars, setupVars>>
WriteData == Goes("write data", "write sfo") /\ WritesFile("data")
WriteSfo == Ends("write sfo") /\ WritesFile("sfo")

(* delete_save, which the game asks for. *)
DeleteSave ==
  /\ save # NoFolder
  /\ op = Idle \/ op.at = "delete"
  /\ RemovesFile(save)
  /\ op' = IF save' = NoFolder THEN Idle ELSE [at |-> "delete"]
  /\ UNCHANGED <<saves, importVars, backupVars, setupVars>>

-----------------------------------------------------------------------------
(* import_save, of a whole save found elsewhere or among the backups: the   *)
(* copy is made beside the save, the save moved aside, the copy moved into  *)
(* its place.  Two saves of one name share the time.                        *)
Import ==
  /\ \E from \in {ForeignSave} \cup {b \in Range(backups) : Whole(b)}, d \in BackupDirs :
       Begins([at |-> "import copy", from |-> from, dir |-> d])
  /\ staging' = NoFolder
  /\ UNCHANGED <<saveVars, backups, backupVars, setupVars>>

ImportCopies ==
  /\ op.at = "import copy" /\ CopiesFile(staging, op.from)
  /\ UNCHANGED <<saveVars, backups, backupVars, setupVars, op>>

(* Mutant: the save is removed to make room. *)
AsideRemoved(d) == backups

Aside(d) == [backups EXCEPT ![d] = save]

MoveAside ==
  /\ op.at = "import copy" /\ staging = op.from
  /\ save # NoFolder => backups[op.dir] = NoFolder
  /\ op' = [at |-> "import place", dir |-> op.dir, moved |-> save # NoFolder]
  /\ save' = NoFolder
  /\ backups' = IF save = NoFolder THEN backups ELSE Aside(op.dir)
  /\ UNCHANGED <<saves, staging, backupVars, setupVars>>

Place ==
  /\ Ends("import place")
  /\ save' = staging /\ staging' = NoFolder
  /\ UNCHANGED <<saves, backups, backupVars, setupVars>>

(* A copy or a move aside that fails leaves the save as it was. *)
ImportFails ==
  /\ Ends("import copy") /\ staging' = NoFolder
  /\ UNCHANGED <<saveVars, backups, backupVars, setupVars>>

(* The save moved aside is put back, if that works. *)
PlaceFails ==
  /\ Ends("import place") /\ staging' = NoFolder
  /\ \/ UNCHANGED <<save, backups>>
     \/ op.moved /\ save' = backups[op.dir] /\ backups' = [backups EXCEPT ![op.dir] = NoFolder]
  /\ UNCHANGED <<saves, backupVars, setupVars>>

-----------------------------------------------------------------------------
(* back_up_saves into a folder of the player's, where an earlier backup is  *)
(* replaced when the player says so.  A save that does not load is copied   *)
(* like one that does.                                                      *)
BackUp ==
  /\ save["sfo"] # 0
  /\ Begins([at |-> "backup copy"])
  /\ partial' = NoFolder
  /\ UNCHANGED <<saveVars, importVars, kept, setupVars>>

BackupCopies ==
  /\ op.at = "backup copy" /\ CopiesFile(partial, save)
  /\ op' = IF partial' = save THEN [at |-> "backup swap"] ELSE op
  /\ UNCHANGED <<saveVars, importVars, kept, setupVars>>

BackupFails ==
  /\ Ends("backup copy") /\ partial' = NoFolder
  /\ UNCHANGED <<saveVars, importVars, kept, setupVars>>

RemoveEarlier ==
  /\ op.at = "backup swap"
  /\ RemovesFile(kept)
  /\ UNCHANGED <<saveVars, importVars, partial, setupVars, op>>

KeepBackup ==
  /\ kept = NoFolder /\ Ends("backup swap")
  /\ kept' = partial /\ partial' = NoFolder
  /\ UNCHANGED <<saveVars, importVars, setupVars>>

-----------------------------------------------------------------------------
(* install: from an image outside, or from the copy in the data directory   *)
(* itself, to be copied there or used where it is. *)
Install ==
  /\ \E from \in Images \cup {"copied"}, copies \in BOOLEAN :
       /\ from = "copied" => copied
       /\ Begins([at |-> "setup image", from |-> from, copies |-> copies])
  /\ UNCHANGED <<saveVars, importVars, backupVars, setupVars>>

(* The copy, checked, and the executable are prepared beside their targets. *)
SetupImage ==
  /\ Goes("setup image", "setup settings")
  /\ copied' = (copied \/ op.copies)
  /\ UNCHANGED <<saveVars, importVars, backupVars, image, torn, executable>>

(* write_settings_file.  What is still buffered when it looks for errors    *)
(* may not reach the file, which then takes the place of the good one: the  *)
(* disc image is the default again.                                         *)
SettingsWritten(disc, wasTorn) ==
  \/ image' = disc /\ torn' = wasTorn
  \/ image' = "copied" /\ torn' = TRUE

(* save_settings.  "copied" is what the settings say of either, a path      *)
(* inside the data directory or the path of the copy itself.                *)
SetupSettings ==
  /\ Goes("setup settings", "setup executable")
  /\ SettingsWritten(IF op.copies THEN "copied" ELSE op.from, FALSE)
  /\ UNCHANGED <<saveVars, importVars, backupVars, copied, executable>>

SetupExecutable ==
  /\ Goes("setup executable", "setup cleanup")
  /\ executable' = TRUE
  /\ UNCHANGED <<saveVars, importVars, backupVars, copied, image, torn>>

(* Mutant: an image used where it is always replaces the copy. *)
UnusedCopyAlways == ~op.copies

(* A copy from an earlier setup is no longer used. *)
UnusedCopy == ~op.copies /\ op.from # "copied"

SetupCleanup ==
  /\ Ends("setup cleanup")
  /\ copied' = (copied /\ ~UnusedCopy)
  /\ UNCHANGED <<saveVars, importVars, backupVars, image, torn, executable>>

(* copy_image_document: the document takes the copy's place. *)
CopyImageDocument ==
  /\ op = Idle /\ copied' = TRUE
  /\ UNCHANGED <<saveVars, importVars, backupVars, image, torn, executable, op>>

(* The menu writes the settings it has read. *)
WriteSettings ==
  /\ op = Idle /\ SettingsWritten(image, torn)
  /\ UNCHANGED <<saveVars, importVars, backupVars, copied, executable, op>>

-----------------------------------------------------------------------------
Next ==
  \/ WriteSave \/ WriteData \/ WriteSfo \/ DeleteSave
  \/ Import \/ ImportCopies \/ ImportFails \/ MoveAside \/ Place \/ PlaceFails
  \/ BackUp \/ BackupCopies \/ BackupFails \/ RemoveEarlier \/ KeepBackup
  \/ Install \/ SetupImage \/ SetupSettings \/ SetupExecutable \/ SetupCleanup
  \/ CopyImageDocument \/ WriteSettings
  \/ Stop

Spec == Init /\ [][Next]_vars

-----------------------------------------------------------------------------
TypeOK ==
  /\ saves \in 0..MaxSaves
  /\ save \in Folders /\ staging \in Folders /\ kept \in Folders /\ partial \in Folders
  /\ backups \in [BackupDirs -> Folders]
  /\ image \in Images \cup {"copied"}
  /\ copied \in BOOLEAN /\ torn \in BOOLEAN /\ executable \in BOOLEAN
  /\ op \in Operations

(* Once there is an executable to start, the settings name an image that is *)
(* there, however often a setup was started over and wherever it was cut    *)
(* off: the image is in place before the settings name it, and the copy     *)
(* goes only when nothing names it.  (Not when the settings were written    *)
(* short.)                                                                  *)
InstallationUsable ==
  /\ TypeOK
  /\ executable /\ ~torn => image \in Images \/ copied

(* An import, cut off anywhere and started again, never loses a save that   *)
(* is whole, and an earlier backup is only taken apart while a complete     *)
(* copy of the save stands beside it.                                       *)
WholeSaves == {folder \in {save} \cup Range(backups) : Whole(folder)}
OldGivesWayToNew ==
  [][/\ op.at \in {"import copy", "import place"} => WholeSaves \subseteq WholeSaves'
     /\ kept' # kept => partial = save]_vars
=============================================================================

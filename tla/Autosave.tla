------------------------------ MODULE Autosave ------------------------------
\* The snapshots of src/port/src/foxhollow_autosave.c: every thirty seconds the
\* state of the game is written to the file named by FOXHOLLOW_AUTOSAVE, for the
\* launcher to offer after a crash.  A snapshot goes to a temporary file first,
\* which then replaces the last one; each of the three steps may fail, and the
\* program may crash between any two.
EXTENDS Integers

CONSTANTS
  Image,       \* what compose_slot_image may make of the game
  Unnamed,     \* those whose new-file flag is not set: there is no game yet
  Slots,       \* FH_AUTOSAVE_SLOT_COUNT
  NoFile,      \* there is no such file
  Part         \* a file that was not written to its end

ASSUME AutosaveConstants ==
  /\ Unnamed \subseteq Image /\ Slots \in Nat \ {0} /\ NoFile # Part
  /\ {NoFile, Part} \cap [slot : 0 .. Slots - 1, image : Image] = {}

VARIABLES
  image,                 \* what compose_slot_image would make of the game now
  gSaveGameCurrentSlot,
  loading,               \* getSaveGameLoadStatus() or no work buffer
  due,                   \* sNextCheck has come
  sLastImage,
  sHaveLastImage,
  stage,                 \* "game", or what write_snapshot does next
  snapshot,              \* what it writes
  file,                  \* on the disk: the snapshot,
  temporary,             \* and the file it is written to
  written                \* history: the last snapshot that reached its place

game == <<image, gSaveGameCurrentSlot, loading>>
disk == <<file, temporary>>
memory == <<sLastImage, sHaveLastImage>>
autosaveVars == <<game, due, memory, stage, snapshot, disk, written>>

Snapshot == [slot : 0 .. Slots - 1, image : Image]

\* The game has no slot and no image worth keeping.
AutosaveInit ==
  /\ image \in Unnamed /\ gSaveGameCurrentSlot = -1 /\ loading = FALSE
  /\ due = TRUE
  /\ sLastImage \in Unnamed /\ sHaveLastImage = FALSE
  /\ stage = "game" /\ snapshot = NoFile
  /\ file = NoFile /\ temporary = NoFile /\ written = NoFile

\* The game goes on, is saved, loaded, copied or left.
Play ==
  /\ stage = "game"
  /\ image' \in Image
  /\ gSaveGameCurrentSlot' \in -1 .. Slots - 1
  /\ loading' \in BOOLEAN
  /\ UNCHANGED <<due, memory, stage, snapshot, disk, written>>

ThirtySeconds ==
  /\ stage = "game" /\ ~due
  /\ due' = TRUE
  /\ UNCHANGED <<game, memory, stage, snapshot, disk, written>>

Worthwhile ==
  /\ gSaveGameCurrentSlot \in 0 .. Slots - 1
  /\ ~loading
  /\ image \notin Unnamed
  /\ ~(sHaveLastImage /\ image = sLastImage)

fhAutosaveUpdate ==
  /\ stage = "game" /\ due
  /\ due' = FALSE
  /\ IF Worthwhile
     THEN /\ sLastImage' = image
          /\ sHaveLastImage' = TRUE
          /\ snapshot' = [slot |-> gSaveGameCurrentSlot, image |-> image]
          /\ stage' = "open"
     ELSE UNCHANGED <<memory, snapshot, stage>>
  /\ UNCHANGED <<game, disk, written>>

\* Mutant: the snapshot that failed counts as written.
Failed_Forgotten ==
  /\ stage' = "game"
  /\ UNCHANGED sHaveLastImage

Failed ==
  /\ stage' = "game"
  /\ sHaveLastImage' = FALSE

\* Mutant: the snapshot is written in its place.
Open_InPlace ==
  /\ stage = "open"
  /\ \/ temporary' = Part /\ file' = Part /\ stage' = "write" /\ UNCHANGED sHaveLastImage
     \/ Failed /\ UNCHANGED <<temporary, file>>
  /\ UNCHANGED <<game, due, sLastImage, snapshot, written>>

\* write_snapshot, call by call.  A temporary file left by a crash is truncated,
\* one whose writing failed is removed.
Open ==
  /\ stage = "open"
  /\ \/ temporary' = Part /\ stage' = "write" /\ UNCHANGED sHaveLastImage
     \/ Failed /\ UNCHANGED temporary
  /\ UNCHANGED <<game, due, sLastImage, snapshot, file, written>>

Write ==
  /\ stage = "write"
  /\ \/ temporary' = snapshot /\ stage' = "replace" /\ UNCHANGED sHaveLastImage
     \/ Failed /\ temporary' \in {NoFile, Part}
  /\ UNCHANGED <<game, due, sLastImage, snapshot, file, written>>

replace_file ==
  /\ stage = "replace"
  /\ \/ /\ file' = temporary /\ temporary' = NoFile /\ written' = snapshot
        /\ stage' = "game" /\ UNCHANGED sHaveLastImage
     \/ Failed /\ temporary' \in {NoFile, temporary} /\ UNCHANGED <<file, written>>
  /\ UNCHANGED <<game, due, sLastImage, snapshot>>

Restart ==
  /\ image' \in Unnamed /\ gSaveGameCurrentSlot' = -1 /\ loading' = FALSE
  /\ due' = TRUE
  /\ sLastImage' \in Unnamed /\ sHaveLastImage' = FALSE
  /\ stage' = "game" /\ snapshot' = NoFile

\* The program quits and removes its files, which the disk may refuse, and is
\* started again at some time.
fhAutosaveShutdown ==
  /\ stage = "game"
  /\ Restart
  /\ file' \in {NoFile, file} /\ temporary' \in {NoFile, temporary} /\ written' = file'

\* The program crashes, and is started again: the disk is as it was left.
CrashAnywhere ==
  /\ Restart
  /\ UNCHANGED <<disk, written>>

AutosaveNext ==
  \/ Play \/ ThirtySeconds \/ fhAutosaveUpdate
  \/ Open \/ Write \/ replace_file
  \/ fhAutosaveShutdown \/ CrashAnywhere

\* The frame pump calls the update in every frame and time passes.  A disk that
\* is asked again and again to take a snapshot takes it in the end.
AutosaveSpec ==
  /\ AutosaveInit /\ [][AutosaveNext]_autosaveVars
  /\ WF_autosaveVars(ThirtySeconds) /\ WF_autosaveVars(fhAutosaveUpdate)
  /\ WF_autosaveVars(Open) /\ WF_autosaveVars(Write) /\ WF_autosaveVars(replace_file)
  /\ SF_autosaveVars(Open /\ stage' = "write") /\ SF_autosaveVars(Write /\ stage' = "replace")
  /\ SF_autosaveVars(replace_file /\ file' = temporary)

------------------------------------------------------------------------------
AutosaveTypeOK ==
  /\ image \in Image /\ gSaveGameCurrentSlot \in -1 .. Slots - 1
  /\ loading \in BOOLEAN /\ due \in BOOLEAN
  /\ sLastImage \in Image /\ sHaveLastImage \in BOOLEAN
  /\ stage \in {"game", "open", "write", "replace"}
  /\ snapshot \in Snapshot \cup {NoFile}
  /\ {file, temporary, written} \subseteq Snapshot \cup {NoFile, Part}

\* Whatever failed and wherever the program crashed, the file is the last whole
\* snapshot that was written, none if there was none; and what the update takes
\* as already written, and will not write again, is in it.
SnapshotKept ==
  /\ AutosaveTypeOK
  /\ file = written
  /\ file # Part
  /\ stage = "game" /\ sHaveLastImage => file # NoFile /\ file.image = sLastImage

\* A game that stays as it is gets into the file, whatever the disk refused
\* before, as long as it takes a snapshot in the end.
StillGameSaved ==
  \A i \in Image \ Unnamed :
    <>[](image = i /\ gSaveGameCurrentSlot >= 0 /\ ~loading)
      => <>(file # NoFile /\ file.image = i)
==============================================================================

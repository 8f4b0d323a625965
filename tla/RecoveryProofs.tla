--------------------------- MODULE RecoveryProofs ---------------------------
\* What outlives a crash, in the two parts of the port that keep files for the
\* next run.  That the gallery leaves out exactly who crashed, for any set of
\* definitions and any page size; and that the autosave's file is always the last
\* whole snapshot, for any images and any number of slots; whatever the disk does
\* and wherever a run crashes.
EXTENDS GalleryRecovery, Autosave, WellFoundedInduction, TLAPS

-----------------------------------------------------------------------------
\* The gallery's inductive invariant.  Until the mark has been read it may be the only
\* place where a name is kept; afterwards the file and the list have it too.
MarkUnread == pc \in {"off", "record"}
Spawning == pc \in {"page", "mark", "setup", "clear"}

Kept == owed \subseteq skipFile \cup (IF MarkUnread THEN {inflightFile} ELSE {})
Listed == pc # "off" => owed \subseteq sSkipList
Suspected ==
  /\ skipFile \subseteq suspects
  /\ sSkipList \subseteq FromEnv \cup suspects
  /\ MarkUnread /\ inflightFile \in Def => inflightFile \in suspects
Marked == pc = "record" => inflightFile \in Def
PageSound ==
  /\ todo \cap sSkipList = {}
  /\ Spawning <=> todo # {}

IInv == TypeOK /\ Kept /\ Listed /\ Suspected /\ Marked /\ PageSound

\* What spawn_page comes to next is one of those it has yet to come to.
LEMMA EntryInTodo ==
  ASSUME todo \subseteq Def, todo # {}
  PROVE  entry \in todo
<1> DEFINE Less == {pair \in Nat \X Nat : pair[1] < pair[2]}
<1>1. todo \subseteq Nat
  BY GalleryConstants
<1>2. IsWellFoundedOn(Less, Nat)
  BY NatLessThanWellFounded DEF OpToRel
<1> HIDE DEF Less
<1>3. PICK d \in todo : \A e \in todo : <<e, d>> \notin Less
  BY <1>1, <1>2, WFMin
<1>4. ASSUME NEW e \in todo PROVE d <= e
  <2>1. d \in Nat /\ e \in Nat /\ <<e, d>> \notin Less
    BY <1>1, <1>3
  <2>2. ~(e < d)
    BY <2>1 DEF Less
  <2> QED BY <2>1, <2>2
<1> QED
  BY <1>4 DEF entry

LEMMA InitSound == Init => IInv
  BY GalleryConstants
  DEF Init, IInv, TypeOK, Kept, Listed, Suspected, Marked, PageSound, MarkUnread, Spawning

\* Every step keeps the invariant.
LEMMA StepSound == IInv /\ [Next]_vars => IInv'
<1> SUFFICES ASSUME IInv, [Next]_vars PROVE IInv'
  OBVIOUS
<1> USE GalleryConstants
    DEF IInv, TypeOK, Kept, Listed, Suspected, Marked, PageSound, MarkUnread, Spawning,
        Goto, vars, files, history
<1>1. Spawning => entry \in todo
  <2>1. Spawning => todo \subseteq Def /\ todo # {}
    OBVIOUS
  <2> QED
    BY ONLY <2>1, EntryInTodo
<1>2. CASE skip_list_load
  <2> USE DEF skip_list_load
  <2>1. /\ pc = "off" /\ UNCHANGED <<skipFile, inflightFile, todo, owed, suspects>>
        /\ sSkipList' = FromEnv \cup skipFile \cup ({inflightFile} \cap Def)
        /\ pc' \in {"record", "forget", "ready"}
        /\ pc' = "record" <=> inflightFile \in Def
    BY <1>2
  <2>2. owed \subseteq skipFile \cup ({inflightFile} \cap Def)
    BY <2>1
  <2>3. Kept' /\ Marked'
    BY <2>1, <2>2
  <2>4. Listed' /\ Suspected'
    BY <2>1, <2>2
  <2>5. TypeOK'
    BY <2>1
  <2>6. PageSound'
    <3>1. todo = {}
      BY <2>1
    <3> QED
      BY <2>1, <3>1
  <2> QED
    BY <2>3, <2>4, <2>5, <2>6
<1>3. CASE skip_list_append_file
  BY <1>3 DEF skip_list_append_file
<1>4. CASE ForgetMark
  BY <1>4 DEF ForgetMark
<1>5. ASSUME NEW p \in 0 .. Cardinality(Def), spawn_page(p) PROVE IInv'
  BY <1>5 DEF spawn_page, Page, Candidates
<1>6. CASE SkipEntry
  BY <1>1, <1>6, ZenonT(30) DEF SkipEntry
<1>7. CASE inflight_set
  BY <1>1, <1>7 DEF inflight_set
<1>8. CASE objSetupObject
  BY <1>8 DEF objSetupObject
<1>9. CASE inflight_clear
  <2> USE DEF inflight_clear
  <2>1. /\ pc = "clear" /\ UNCHANGED <<skipFile, sSkipList, owed, suspects>>
        /\ inflightFile' \in {None, inflightFile}
        /\ todo' = todo \ {entry} /\ entry \in todo
        /\ pc' = IF todo = {entry} THEN "ready" ELSE "page"
    BY <1>1, <1>9
  <2>2. PageSound'
    BY <2>1
  <2>3. TypeOK'
    BY <2>1
  <2>4. Kept' /\ Listed' /\ Suspected' /\ Marked'
    BY <2>1
  <2> QED
    BY <2>2, <2>3, <2>4
<1>10. CASE Crash
  BY <1>1, <1>10 DEF Crash
<1>11. CASE UNCHANGED vars
  BY <1>11
<1> QED
  BY <1>2, <1>3, <1>4, <1>5, <1>6, <1>7, <1>8, <1>9, <1>10, <1>11 DEF Next

\* Every variable keeps its type.
THEOREM TypeCorrect == Spec => []TypeOK
<1>1. IInv => TypeOK
  BY DEF IInv
<1> QED
  BY <1>1, InitSound, StepSound, PTL DEF Spec

\* An object that crashed a run under its mark is not set up again in any later
\* run, and nobody is left out who was never under the mark of a crashed run.
THEOREM CrashersAlwaysLeftOut == Spec => []CrashersLeftOut
<1>1. IInv => CrashersLeftOut
  <2> SUFFICES ASSUME IInv PROVE CrashersLeftOut
    OBVIOUS
  <2>1. pc = "setup" => entry \in todo
    BY EntryInTodo DEF IInv, TypeOK, PageSound, Spawning
  <2> QED
    BY <2>1 DEF IInv, Listed, Suspected, PageSound, CrashersLeftOut
<1> QED
  BY <1>1, InitSound, StepSound, PTL DEF Spec

-----------------------------------------------------------------------------
\* The autosave's inductive invariant.  sLastImage is set when a snapshot is
\* begun, before anything of it is on the disk: until it has replaced the file,
\* it is the snapshot in hand that has the image, and the temporary file once it
\* was written to its end.
FileKept == file = written /\ file # Part

LastImageKept ==
  stage = "game" /\ sHaveLastImage
    => file \in Snapshot /\ file.image = sLastImage

InHandKept ==
  /\ stage # "game" => snapshot \in Snapshot /\ snapshot.image = sLastImage
  /\ stage = "replace" => temporary = snapshot

AutosaveInv == AutosaveTypeOK /\ FileKept /\ LastImageKept /\ InHandKept

\* A snapshot is a file that was written to its end.
LEMMA SnapshotIsWhole ==
  ASSUME NEW s \in Snapshot
  PROVE  s # NoFile /\ s # Part
BY AutosaveConstants DEF Snapshot

\* What the steps need of the constants.
LEMMA ImagesAndSlots ==
  /\ Unnamed \subseteq Image /\ NoFile # Part
  /\ -1 \in -1 .. Slots - 1
BY AutosaveConstants

LEMMA AutosaveInitSound == AutosaveInit => AutosaveInv
  BY ImagesAndSlots
  DEF AutosaveInit, AutosaveInv, AutosaveTypeOK, FileKept, LastImageKept, InHandKept

\* Every step keeps the invariant, one that fails and a crash among them.
LEMMA AutosaveStepSound ==
  AutosaveInv /\ [AutosaveNext]_autosaveVars => AutosaveInv'
<1> SUFFICES ASSUME AutosaveInv, [AutosaveNext]_autosaveVars PROVE AutosaveInv'
  OBVIOUS
<1> USE ImagesAndSlots
    DEF AutosaveInv, AutosaveTypeOK, FileKept, LastImageKept, InHandKept,
        game, disk, memory, autosaveVars
<1>1. CASE Play
  BY <1>1 DEF Play
<1>2. CASE ThirtySeconds
  BY <1>2 DEF ThirtySeconds
<1>3. CASE fhAutosaveUpdate
  <2>1. CASE Worthwhile
    <3>1. /\ snapshot' = [slot |-> gSaveGameCurrentSlot, image |-> image]
          /\ sLastImage' = image /\ stage' = "open"
      BY <1>3, <2>1 DEF fhAutosaveUpdate
    <3>2. snapshot' \in Snapshot /\ snapshot'.image = sLastImage'
      BY <2>1, <3>1 DEF Worthwhile, Snapshot
    <3> QED
      BY <1>3, <2>1, <3>1, <3>2 DEF fhAutosaveUpdate
  <2>2. CASE ~Worthwhile
    BY <1>3, <2>2 DEF fhAutosaveUpdate
  <2> QED
    BY <2>1, <2>2
<1>4. CASE Open
  BY <1>4 DEF Open, Failed
<1>5. CASE Write
  BY <1>5 DEF Write, Failed
<1>6. CASE replace_file
  <2>1. snapshot # NoFile /\ snapshot # Part
    BY <1>6, SnapshotIsWhole DEF replace_file
  <2> QED
    BY <1>6, <2>1 DEF replace_file, Failed
<1>7. CASE fhAutosaveShutdown
  BY <1>7 DEF fhAutosaveShutdown, Restart
<1>8. CASE CrashAnywhere
  BY <1>8 DEF CrashAnywhere, Restart
<1>9. CASE UNCHANGED autosaveVars
  BY <1>9
<1> QED
  BY <1>1, <1>2, <1>3, <1>4, <1>5, <1>6, <1>7, <1>8, <1>9 DEF AutosaveNext

\* Every variable of the autosave keeps its type.
THEOREM AutosaveTypeCorrect == AutosaveSpec => []AutosaveTypeOK
<1>1. AutosaveInv => AutosaveTypeOK
  BY DEF AutosaveInv
<1> QED
  BY <1>1, AutosaveInitSound, AutosaveStepSound, PTL DEF AutosaveSpec

\* Whichever of the disk's operations failed and wherever the program crashed, the
\* file is the last whole snapshot that was written, and what the update takes as
\* already written is in it.
THEOREM SnapshotAlwaysKept == AutosaveSpec => []SnapshotKept
<1>1. AutosaveInv => SnapshotKept
  <2> SUFFICES ASSUME AutosaveInv PROVE SnapshotKept
    OBVIOUS
  <2>1. stage = "game" /\ sHaveLastImage => file # NoFile
    BY SnapshotIsWhole DEF AutosaveInv, LastImageKept
  <2> QED
    BY <2>1 DEF AutosaveInv, FileKept, LastImageKept, SnapshotKept
<1> QED
  BY <1>1, AutosaveInitSound, AutosaveStepSound, PTL DEF AutosaveSpec
==============================================================================

--------------------------- MODULE GalleryRecovery ---------------------------
\* The object gallery of src/port/src/foxhollow_gallery.c: it sets up the objects
\* of the game one by one, and some of them crash the program.  The object being
\* set up is named in foxhollow_gallery_inflight.txt, so that the next run puts
\* it on the list in foxhollow_gallery_skip.txt and leaves it out.  The files
\* outlive a crash, everything else is lost.
EXTENDS Integers, FiniteSets

CONSTANTS
  Def,         \* the definitions that have a model, by number
  PageSize,    \* sPageSize
  FromEnv,     \* FOXHOLLOW_GALLERY_SKIP
  None,        \* there is no such file
  Blank        \* the file is there and empty

ASSUME GalleryConstants ==
  /\ Def \subseteq Nat /\ PageSize \in Nat \ {0} /\ FromEnv \subseteq Def
  /\ None \notin Def /\ Blank \notin Def /\ None # Blank

VARIABLES
  skipFile,      \* the numbers in foxhollow_gallery_skip.txt
  inflightFile,  \* what foxhollow_gallery_inflight.txt holds
  pc,            \* where the gallery is: "off" before it is enabled in a run
  sSkipList,
  todo,          \* what spawn_page has not come to yet
  owed,          \* history: who crashed a run under its mark, unless the disk
                 \* refused to take it on the list
  suspects       \* history: who was named by the mark when a run crashed

files == <<skipFile, inflightFile>>
history == <<owed, suspects>>
vars == <<files, pc, sSkipList, todo, history>>

entry == CHOOSE d \in todo : \A e \in todo : d <= e

Init ==
  /\ skipFile = {}
  /\ inflightFile = None
  /\ pc = "off"
  /\ sSkipList = {}
  /\ todo = {}
  /\ owed = {}
  /\ suspects = {}

Goto(from, to) ==
  /\ pc = from
  /\ pc' = to

\* The first fhGalleryEnabled of a run reads the list, the mark of the last run
\* and the environment.
skip_list_load ==
  /\ Goto("off", IF inflightFile = None THEN "ready"
                 ELSE IF inflightFile = Blank THEN "forget" ELSE "record")
  /\ sSkipList' = FromEnv \cup skipFile \cup ({inflightFile} \cap Def)
  /\ UNCHANGED <<files, todo, history>>

\* Mutant: the list in the file is left as it was.
skip_list_append_file_InMemory ==
  /\ Goto("record", "forget")
  /\ UNCHANGED <<files, sSkipList, todo, history>>

\* A disk may refuse it.
skip_list_append_file ==
  /\ Goto("record", "forget")
  /\ \/ skipFile' = skipFile \cup {inflightFile} /\ UNCHANGED owed
     \/ owed' = owed \ {inflightFile} /\ UNCHANGED skipFile
  /\ UNCHANGED <<inflightFile, sSkipList, todo, suspects>>

ForgetMark ==
  /\ Goto("forget", "ready")
  /\ inflightFile' \in {None, inflightFile}
  /\ UNCHANGED <<skipFile, sSkipList, todo, history>>

\* A request is served: the candidates are found anew and those of one page, in
\* the order of their numbers, are set up.  A page past the end is the last one.
Candidates == Def \ sSkipList
Rank(d) == Cardinality({e \in Candidates : e < d})
Page(p) == {d \in Candidates : Rank(d) \div PageSize = p}

spawn_page(p) ==
  /\ Goto("ready", "page")
  /\ todo' = Page(p)
  /\ todo' # {}
  /\ UNCHANGED <<files, sSkipList, history>>

\* There is no memory for the placement.
SkipEntry ==
  /\ Goto("page", IF todo = {entry} THEN "ready" ELSE "page")
  /\ todo' = todo \ {entry}
  /\ UNCHANGED <<files, sSkipList, history>>

\* fopen truncates what was there; it may fail, and so may what follows it.
inflight_set ==
  /\ todo # {}
  /\ \/ Goto("page", "mark") /\ inflightFile' = Blank
     \/ Goto("page", "setup") /\ UNCHANGED inflightFile
     \/ Goto("mark", "setup") /\ inflightFile' \in {entry, Blank}
  /\ UNCHANGED <<skipFile, sSkipList, todo, history>>

\* objSetupObject returns, with an object or without.
objSetupObject ==
  /\ Goto("setup", "clear")
  /\ UNCHANGED <<files, sSkipList, todo, history>>

inflight_clear ==
  /\ Goto("clear", IF todo = {entry} THEN "ready" ELSE "page")
  /\ inflightFile' \in {None, inflightFile}
  /\ todo' = todo \ {entry}
  /\ UNCHANGED <<skipFile, sSkipList, history>>

\* The program crashes in the object's setup, or anywhere else.
Crash ==
  /\ pc # "off"
  /\ pc' = "off"
  /\ suspects' = suspects \cup ({inflightFile} \cap Def)
  /\ owed' = IF pc = "setup" /\ inflightFile = entry THEN owed \cup {entry} ELSE owed
  /\ sSkipList' = {}
  /\ todo' = {}
  /\ UNCHANGED files

Next ==
  \/ skip_list_load \/ skip_list_append_file \/ ForgetMark
  \/ \E p \in 0 .. Cardinality(Def) : spawn_page(p)
  \/ SkipEntry \/ inflight_set \/ objSetupObject \/ inflight_clear
  \/ Crash

Spec == Init /\ [][Next]_vars

------------------------------------------------------------------------------
TypeOK ==
  /\ skipFile \subseteq Def /\ sSkipList \subseteq Def /\ todo \subseteq Def
  /\ inflightFile \in Def \cup {None, Blank}
  /\ pc \in {"off", "record", "forget", "ready", "page", "mark", "setup", "clear"}
  /\ owed \subseteq Def /\ suspects \subseteq Def

\* An object that crashed a run under its mark is never set up again, however
\* often and wherever the runs after it crash, those included that are only
\* reading the list; and no object is left out but by the user, or because it
\* was the marked one when a run crashed.
CrashersLeftOut ==
  /\ pc = "setup" => entry \notin owed
  /\ sSkipList \subseteq FromEnv \cup suspects
==============================================================================

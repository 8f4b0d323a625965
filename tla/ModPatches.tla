------------------------------ MODULE ModPatches ------------------------------
\* Native mods and what they change in the game: class callbacks and hooks of
\* src/port/src/foxhollow_mods.cpp and foxhollow_hook.cpp, from fhModsInit to
\* fhModsShutdown.  The code of a loaded mod runs in its own callbacks, and also
\* whenever the game calls a function it has replaced; host calls may be made
\* from all of these.  One thread runs all of it.
EXTENDS Integers, Sequences, FiniteSetsExt

CONSTANTS NumMods,    \* mods discovered, numbered in the order they are loaded
          Slots,      \* slots of the game's class interfaces
          Targets,    \* functions built with room for a branch
          MaxPatches  \* bound: callbacks a mod replaces

ASSUME BoundsAreNumbers ==
  NumMods \in Nat /\ MaxPatches \in Nat

Mods == 1..NumMods
Game == 0     \* a callback is known by its library; 0 is the game's own
NoMod == 0    \* a target's room is empty

VARIABLES
  pc,       \* "init", "initialize" (inside a mod's), "run", "shutdown" or "exit"
  next,     \* fhModsInit: the mod to load
  open,     \* mods whose library is open
  slots,    \* whose callback is in each slot
  patches,  \* NativeMod::patches
  code,     \* the mod each target branches to
  hooks,    \* NativeMod::hooks, whose order and repetitions nothing depends on
  inOrder,  \* history: only mods loaded after its patchers patched the slot
  foreign   \* history: a mod removed another mod's hook from the target

slotVars == <<slots, patches, inOrder>>
hookVars == <<code, hooks, foreign>>
vars == <<pc, next, open, slotVars, hookVars>>

\* The patches of mod m to slot s, and the mods that have any.
PatchesOf(m, s) == {k \in DOMAIN patches[m] : patches[m][k].slot = s}
Patchers(s) == {m \in Mods : PatchesOf(m, s) # {}}

Init ==
  /\ pc = "init" /\ next = 1 /\ open = {}
  /\ slots = [s \in Slots |-> Game]
  /\ patches = [m \in Mods |-> <<>>]
  /\ code = [t \in Targets |-> NoMod]
  /\ hooks = [m \in Mods |-> {}]
  /\ inOrder = [s \in Slots |-> TRUE]
  /\ foreign = [t \in Targets |-> FALSE]

------------------------------------------------------------------------------
\* load_native without a library, or with one that has no fh_mod_initialize.
Skip ==
  /\ pc = "init" /\ next \in Mods
  /\ next' = next + 1
  /\ UNCHANGED <<pc, open, slotVars, hookVars>>

load_native ==
  /\ pc = "init" /\ next \in Mods
  /\ open' = open \cup {next}
  /\ pc' = "initialize"
  /\ UNCHANGED <<next, slotVars, hookVars>>

\* A mod whose fh_mod_initialize fails is not called any more, but stays loaded,
\* and so do its patches and hooks.
Initialized ==
  /\ pc = "initialize"
  /\ next' = next + 1
  /\ pc' = "init"
  /\ UNCHANGED <<open, slotVars, hookVars>>

fhModsInit_Done ==
  /\ pc = "init" /\ next \notin Mods
  /\ pc' = "run"
  /\ UNCHANGED <<next, open, slotVars, hookVars>>

\* When mod m may make a host call.
Calls(m) == m \in open /\ pc \in {"initialize", "run", "shutdown"}

\* What a mod puts in a slot: a function of its own, or what an earlier call of
\* it for that slot returned.
Replacements(m, s) ==
  {m} \cup {patches[m][k].original : k \in PatchesOf(m, s)}

classReplaceCallback(m, s) ==
  /\ Calls(m) /\ Len(patches[m]) < MaxPatches
  /\ patches' = [patches EXCEPT ![m] = Append(@, [slot |-> s, original |-> slots[s]])]
  /\ \E replacement \in Replacements(m, s) : slots' = [slots EXCEPT ![s] = replacement]
  /\ inOrder' = [inOrder EXCEPT ![s] = @ /\ \A q \in Patchers(s) : q <= m]
  /\ UNCHANGED <<pc, next, open, hookVars>>

\* Mutant: a target that is hooked already is hooked again.
hookInstall_Again(m, t) ==
  /\ Calls(m)
  /\ code' = [code EXCEPT ![t] = m]
  /\ hooks' = [hooks EXCEPT ![m] = @ \cup {t}]
  /\ UNCHANGED <<pc, next, open, slotVars, foreign>>

\* fhHookInstall refuses a target whose room is taken.
hookInstall(m, t) ==
  /\ Calls(m)
  /\ code[t] = NoMod
  /\ code' = [code EXCEPT ![t] = m]
  /\ hooks' = [hooks EXCEPT ![m] = @ \cup {t}]
  /\ UNCHANGED <<pc, next, open, slotVars, foreign>>

\* Any mod may empty any target's room; only its own list forgets the target.
hookRemove(m, t) ==
  /\ Calls(m)
  /\ code' = [code EXCEPT ![t] = NoMod]
  /\ hooks' = [hooks EXCEPT ![m] = @ \ {t}]
  /\ foreign' = [foreign EXCEPT ![t] = @ \/ code[t] \notin {NoMod, m}]
  /\ UNCHANGED <<pc, next, open, slotVars>>

\* The user quits: fhModsShutdown from within the frame pump.
fhModsShutdown ==
  /\ pc = "run"
  /\ pc' = "shutdown"
  /\ UNCHANGED <<next, open, slotVars, hookVars>>

\* Mutant: patches are undone first to last.
Restored_Forward(m) ==
  [s \in Slots |->
     IF PatchesOf(m, s) = {} THEN slots[s] ELSE patches[m][Max(PatchesOf(m, s))].original]

\* Undoing m's patches last to first leaves each slot as before m's first one.
Restored(m) ==
  [s \in Slots |->
     IF PatchesOf(m, s) = {} THEN slots[s] ELSE patches[m][Min(PatchesOf(m, s))].original]

\* Mutant: the mods are closed in the order they were loaded.
Last_First == CHOOSE m \in open : \A q \in open : m <= q

LastOpen == CHOOSE m \in open : \A q \in open : q <= m

\* Mutant: a mod's hooks stay.
Unhooked_None(m) == code
Unhooked(m) == [t \in Targets |-> IF t \in hooks[m] THEN NoMod ELSE code[t]]

\* The last mod's fh_mod_shutdown has returned: what it left is undone and its
\* library closed.
Close ==
  /\ pc = "shutdown" /\ open # {}
  /\ code' = Unhooked(LastOpen)
  /\ hooks' = [hooks EXCEPT ![LastOpen] = {}]
  /\ slots' = Restored(LastOpen)
  /\ open' = open \ {LastOpen}
  /\ UNCHANGED <<pc, next, patches, inOrder, foreign>>

Exit ==
  /\ pc = "shutdown" /\ open = {}
  /\ pc' = "exit"
  /\ UNCHANGED <<next, open, slotVars, hookVars>>

HostCall ==
  \E m \in Mods :
    \/ \E s \in Slots : classReplaceCallback(m, s)
    \/ \E t \in Targets : hookInstall(m, t) \/ hookRemove(m, t)

Next ==
  \/ Skip \/ load_native \/ Initialized \/ fhModsInit_Done
  \/ HostCall
  \/ fhModsShutdown \/ Close \/ Exit

Spec == Init /\ [][Next]_vars

------------------------------------------------------------------------------
Callback == {Game} \cup Mods
Patch == [slot : Slots, original : Callback]

\* Types, and what bounds the host's lists.
TypeOK ==
  /\ pc \in {"init", "initialize", "run", "shutdown", "exit"}
  /\ next \in 1..(NumMods + 1) /\ open \subseteq Mods
  /\ slots \in [Slots -> Callback]
  /\ patches \in [Mods -> Seq(Patch)]
  /\ code \in [Targets -> {NoMod} \cup Mods]
  /\ hooks \in [Mods -> SUBSET Targets]
  /\ inOrder \in [Slots -> BOOLEAN]
  /\ foreign \in [Targets -> BOOLEAN]

\* A callback that can be called: the game's, or one of a mod that is loaded.
Callable(c) == c \in {Game} \cup open

\* A class callback never leads into a closed library, from the slot or from a
\* mod that calls what it replaced, until shutdown begins; and not after either
\* for a slot that mods patched in the order they were loaded
\* (host_class_replace_callback, fhModsShutdown).
CallbacksLoaded ==
  \A s \in Slots :
    pc \notin {"shutdown", "exit"} \/ inOrder[s] =>
      /\ Callable(slots[s])
      /\ \A m \in open : \A k \in PatchesOf(m, s) : Callable(patches[m][k].original)

\* After fhModsShutdown the game's class callbacks are its own again, in every
\* slot that was patched in load order however often each mod patched it.
RestoredAtExit ==
  pc = "exit" => \A s \in Slots : inOrder[s] => slots[s] = Game

\* A hooked function branches into a library that is open and whose mod will
\* take the hook away, whoever removes and installs hooks at the same target.
HooksLoaded ==
  \A t \in Targets :
    code[t] # NoMod => code[t] \in open /\ t \in hooks[code[t]]

\* Whatever a mod has put into the game leads into a library that is open.
PatchesLoaded == CallbacksLoaded /\ HooksLoaded

\* A hook stays until its mod removes it or is shut down, unless some mod removed
\* another's hook from that target before.
HookKept ==
  [][\A t \in Targets, m \in Mods :
       code[t] = m /\ code'[t] # m /\ ~foreign'[t] =>
         m \notin open' \/ t \notin hooks'[m]]_vars
===============================================================================

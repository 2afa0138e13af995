---------------------------- MODULE MemoryReader ----------------------------
(***************************************************************************)
(* Reading from outside the game (core/memory_reader.py):                  *)
(* IL2CPPMemoryReader, which opens /proc/<pid>/mem, and                    *)
(* MysRollServiceDiscovery, which finds g_rollServiceInstance by a scan,   *)
(* keeps its address and follows the pointer chain to the word at          *)
(* RollModel + 0x18 at every call.  The game runs, changes its objects,    *)
(* exits and starts again between any two reads.                           *)
(*                                                                         *)
(* What the word means is left open: memory_reader.py 319 and 362 take it  *)
(* for the player's dice, README_PHASE1.md 13-16 says that it is not the   *)
(* balance and not even a number.  No property here says that it is.       *)
(*                                                                         *)
(* A process is the number of its start, which is also its pid: a pid is   *)
(* not used again.  A descriptor of /proc/<pid>/mem reads nothing once the *)
(* process is gone.  The number of the closed descriptor is the number of  *)
(* the next one, so that a discovery follows its reader to a new process.  *)
(*                                                                         *)
(* The scanned range is the sequence of slots 1..NumSlots, of which the    *)
(* last is g_rollServiceInstance and the others lead nowhere; an address   *)
(* computed for another process leads anywhere, and so does the captured   *)
(* service once the game has given it up (nobody captures the next one).   *)
(***************************************************************************)
EXTENDS Integers, FiniteSets

CONSTANTS
  NumSlots,    \* slots of the scanned range
  Models,      \* RollModel objects
  Words,       \* int32 values of the word at RollModel + 0x18
  MinDice,     \* _DICE_MIN
  MaxDice,     \* _DICE_MAX
  None,        \* Python's None
  MaxStarts,   \* bound: starts of the game
  MaxChanges,  \* bound: changes of the game's objects
  MaxCalls     \* bound: calls of initialize, the constructor, get_dice_count

ASSUME ReaderAssumption ==
  /\ NumSlots \in Nat \ {0}
  /\ Words \subseteq Int /\ Words # {}
  /\ MinDice \in Int /\ MaxDice \in Int
  /\ Models # {}
  /\ None \notin Int /\ None \notin Models
  /\ MaxStarts \in Nat /\ MaxChanges \in Nat /\ MaxCalls \in Nat

Libraries == {"libil2cpp.so", "libmys_payload.so"}
Processes == 1..MaxStarts
G == NumSlots

VARIABLES
  \* the game
  game, alive,   \* the last process, and whether it still runs
  mapped,        \* the libraries in its maps
  captured,      \* g_rollServiceInstance has been set
  replaced,      \* that service is no longer the game's
  model, word,   \* the service's RollModel; what each has at + 0x18
  changes,
  \* IL2CPPMemoryReader: 0 stands for None
  rpc, pid, base_address, mem_file,
  \* MysRollServiceDiscovery: 0 stands for None
  exists, mys_base, g_rollservice_addr,
  dpc, slot, model_ptr, result,
  calls,
  \* history of the current call of get_dice_count
  seen,          \* the words that the service's model has had
  clean,         \* nothing was read of another process or of objects given up
  quiet          \* the word was there to be found, and the game has not moved

gameVars == <<game, alive, mapped, captured, replaced, model, word, changes>>
readerVars == <<rpc, pid, base_address, mem_file>>
cacheVars == <<exists, mys_base, g_rollservice_addr>>
callVars == <<dpc, slot, model_ptr, result>>
history == <<seen, clean, quiet>>
vars == <<gameVars, readerVars, cacheVars, callVars, calls, history>>

\* As if no number were too small.
AtMostMax(value) == value <= MaxDice
\* _is_plausible_dice
IsPlausibleDice(value) == MinDice <= value /\ value <= MaxDice

TypeOK ==
  /\ game \in 0..MaxStarts /\ alive \in BOOLEAN
  /\ mapped \subseteq Libraries /\ captured \in BOOLEAN /\ replaced \in BOOLEAN
  /\ model \in Models /\ word \in [Models -> Words]
  /\ changes \in 0..MaxChanges
  /\ rpc \in {"idle", "pid", "maps", "open"}
  /\ {pid, base_address, mem_file, mys_base} \subseteq {0} \cup Processes
  /\ exists \in BOOLEAN
  /\ g_rollservice_addr \in 0..NumSlots
  /\ dpc \in {"idle", "service", "model", "dice"}
  /\ slot \in 1..NumSlots
  /\ model_ptr \in Models \cup {None}
  /\ result \in (Words \cap MinDice..MaxDice) \cup {None}
  /\ calls \in 0..MaxCalls
  /\ seen \subseteq Words /\ clean \in BOOLEAN /\ quiet \in BOOLEAN

Init ==
  /\ game = 0 /\ alive = FALSE
  /\ mapped = {} /\ captured = FALSE /\ replaced = FALSE
  /\ model \in Models
  /\ \E w \in Words : word = [m \in Models |-> w]
  /\ changes = 0
  /\ rpc = "idle" /\ pid = 0 /\ base_address = 0 /\ mem_file = 0
  /\ exists = FALSE /\ mys_base = 0 /\ g_rollservice_addr = 0
  /\ dpc = "idle" /\ slot = 1 /\ model_ptr = None /\ result = None
  /\ calls = 0
  /\ seen = {} /\ clean = TRUE /\ quiet = FALSE

-----------------------------------------------------------------------------
(* The game. *)

GameStep ==
  /\ quiet' = FALSE
  /\ seen' = seen \cup {word'[model']}
  /\ UNCHANGED <<readerVars, cacheVars, callVars, calls>>

StartGame ==
  /\ ~alive /\ game < MaxStarts
  /\ game' = game + 1 /\ alive' = TRUE
  /\ mapped' = {} /\ captured' = FALSE /\ replaced' = FALSE
  /\ UNCHANGED <<model, word, changes, clean>>
  /\ GameStep

ExitGame ==
  /\ alive
  /\ alive' = FALSE
  /\ UNCHANGED <<game, mapped, captured, replaced, model, word, changes, clean>>
  /\ GameStep

MapLibrary ==
  /\ alive
  /\ \E library \in Libraries \ mapped : mapped' = mapped \cup {library}
  /\ UNCHANGED <<game, alive, captured, replaced, model, word, changes, clean>>
  /\ GameStep

\* The user taps the multiplier button for the first time.
ToggleMultiplier ==
  /\ alive /\ "libmys_payload.so" \in mapped /\ ~captured
  /\ captured' = TRUE
  /\ UNCHANGED <<game, alive, mapped, replaced, model, word, changes, clean>>
  /\ GameStep

Change ==
  /\ alive /\ changes < MaxChanges
  /\ changes' = changes + 1
  /\ UNCHANGED <<game, alive, mapped, captured>>
  /\ GameStep

ChangeWord ==
  /\ \E w \in Words : word' = [word EXCEPT ![model] = w]
  /\ UNCHANGED <<replaced, model, clean>>
  /\ Change

\* The service gets another model; the one before stays as it was, at first.
ReplaceModel ==
  /\ \E m \in Models \ {model}, w \in Words :
       model' = m /\ word' = [word EXCEPT ![m] = w]
  /\ UNCHANGED <<replaced, clean>>
  /\ Change

\* The memory of a model that was replaced is used for something else.
ReuseModel ==
  /\ \E m \in Models \ {model}, w \in Words :
       /\ word' = [word EXCEPT ![m] = w]
       /\ clean' = IF dpc = "dice" /\ model_ptr = m THEN FALSE ELSE clean
  /\ UNCHANGED <<replaced, model>>
  /\ Change

ReplaceService ==
  /\ captured /\ ~replaced
  /\ replaced' = TRUE
  /\ UNCHANGED <<model, word, clean>>
  /\ Change

-----------------------------------------------------------------------------
(* IL2CPPMemoryReader. *)

ReaderStep == UNCHANGED <<gameVars, cacheVars, callVars, history>>
CanCall ==
  /\ rpc = "idle" /\ dpc = "idle"
  /\ calls < MaxCalls
  /\ calls' = calls + 1

\* As if initialize did not begin with close.
ResetKeepsFile == pid' = 0 /\ base_address' = 0 /\ UNCHANGED mem_file
\* initialize first forgets everything of an earlier process.
Reset == pid' = 0 /\ base_address' = 0 /\ mem_file' = 0

Initialize ==
  /\ CanCall
  /\ Reset
  /\ rpc' = "pid"
  /\ ReaderStep

FindProcessId ==
  /\ rpc = "pid"
  /\ IF alive THEN pid' = game /\ rpc' = "maps" ELSE rpc' = "idle" /\ UNCHANGED pid
  /\ UNCHANGED <<base_address, mem_file, calls>>
  /\ ReaderStep

HasMaps(process, library) == alive /\ game = process /\ library \in mapped

GetLibraryBaseAddress ==
  /\ rpc = "maps"
  /\ IF HasMaps(pid, "libil2cpp.so")
       THEN base_address' = pid /\ rpc' = "open"
       ELSE rpc' = "idle" /\ UNCHANGED base_address
  /\ UNCHANGED <<pid, mem_file, calls>>
  /\ ReaderStep

\* os.open fails for a process that is gone, or without the right to read it.
OpenMem ==
  /\ rpc = "open"
  /\ mem_file' \in (IF alive /\ game = pid THEN {0, pid} ELSE {0})
  /\ rpc' = "idle"
  /\ UNCHANGED <<pid, base_address, calls>>
  /\ ReaderStep

Close ==
  /\ rpc = "idle" /\ dpc = "idle" /\ mem_file # 0
  /\ mem_file' = 0
  /\ UNCHANGED <<rpc, pid, base_address, calls>>
  /\ ReaderStep

IsValid == pid # 0 /\ base_address # 0 /\ mem_file # 0

-----------------------------------------------------------------------------
(* MysRollServiceDiscovery. *)

\* The constructor looks for the library once, for good.
Construct ==
  /\ CanCall
  /\ IsValid
  /\ exists' = TRUE
  /\ mys_base' = IF HasMaps(pid, "libmys_payload.so") THEN pid ELSE 0
  /\ g_rollservice_addr' = 0
  /\ UNCHANGED <<gameVars, readerVars, callVars, history>>

InvalidateCache ==
  /\ dpc = "idle" /\ g_rollservice_addr # 0
  /\ g_rollservice_addr' = 0
  /\ UNCHANGED <<gameVars, readerVars, exists, mys_base, callVars, calls, history>>

Readable == mem_file # 0 /\ alive /\ game = mem_file
\* What the captured address leads to is not the game's service.
Foreign == mys_base # mem_file \/ replaced

\* As if the model's address were kept beside the service's.
ChainFromModel == IF model_ptr = None THEN "service" ELSE "dice"
\* Every call follows the chain from its first pointer.
ChainStart == "service"

GetDiceCount ==
  /\ CanCall
  /\ exists
  /\ seen' = {word[model]}
  /\ clean' = TRUE
  /\ quiet' = (/\ Readable /\ mys_base = mem_file /\ captured /\ ~replaced
               /\ IsPlausibleDice(word[model]))
  /\ IF mys_base = 0
       THEN result' = None /\ UNCHANGED <<dpc, slot>>
       ELSE /\ dpc' = IF g_rollservice_addr = 0 THEN "service" ELSE ChainStart
            /\ slot' = IF g_rollservice_addr = 0 THEN 1 ELSE g_rollservice_addr
            /\ UNCHANGED result
  /\ UNCHANGED <<gameVars, readerVars, cacheVars, model_ptr>>

\* As if the scan stopped before its last slot.
ScansExclusive(s) == s < NumSlots - 1
\* Is there another slot after s?
Scans(s) == s < NumSlots

\* _read_dice_via_chain returns None: the scan goes on, the call ends.
ChainFails ==
  /\ IF g_rollservice_addr = 0 /\ Scans(slot)
       THEN slot' = slot + 1 /\ dpc' = "service" /\ UNCHANGED result
       ELSE dpc' = "idle" /\ result' = None /\ UNCHANGED slot
  /\ UNCHANGED g_rollservice_addr

\* It returns a number: the scan keeps the address and the chain is followed once
\* more; the call ends.
ChainYields(value) ==
  IF g_rollservice_addr = 0
    THEN g_rollservice_addr' = slot /\ dpc' = "service" /\ UNCHANGED <<slot, result>>
    ELSE dpc' = "idle" /\ result' = value /\ UNCHANGED <<g_rollservice_addr, slot>>

DiscoveryStep ==
  /\ clean' = (clean /\ (Readable => ~Foreign))
  /\ UNCHANGED <<gameVars, readerVars, exists, mys_base, calls, seen, quiet>>

\* The slot's own pointer.
ReadService ==
  /\ dpc = "service"
  /\ \/ /\ Readable
        /\ \/ mys_base = mem_file /\ slot = G /\ captured
           \/ mys_base # mem_file
        /\ dpc' = "model"
        /\ UNCHANGED <<slot, result, g_rollservice_addr>>
     \/ /\ ~Readable \/ slot # G \/ ~captured \/ mys_base # mem_file
        /\ ChainFails
  /\ UNCHANGED model_ptr
  /\ DiscoveryStep

\* RollService::serverModel; None stands for a pointer that is none of a model.
ReadModel ==
  /\ dpc = "model"
  /\ \/ /\ Readable
        /\ model_ptr' = IF Foreign THEN None ELSE model
        /\ dpc' = "dice"
        /\ UNCHANGED <<slot, result, g_rollservice_addr>>
     \/ /\ ~Readable \/ Foreign
        /\ ChainFails /\ UNCHANGED model_ptr
  /\ DiscoveryStep

\* The int32 at RollModel + 0x18, in a model that may have been replaced.
ReadDice ==
  /\ dpc = "dice"
  /\ \/ /\ Readable
        /\ \E value \in IF model_ptr = None \/ Foreign THEN Words ELSE {word[model_ptr]} :
             IF IsPlausibleDice(value) THEN ChainYields(value) ELSE ChainFails
     \/ ~Readable /\ ChainFails
  /\ UNCHANGED model_ptr
  /\ DiscoveryStep

-----------------------------------------------------------------------------
Game ==
  \/ StartGame \/ ExitGame \/ MapLibrary \/ ToggleMultiplier
  \/ ChangeWord \/ ReplaceModel \/ ReuseModel \/ ReplaceService
Reader == Initialize \/ FindProcessId \/ GetLibraryBaseAddress \/ OpenMem \/ Close
Discovery ==
  Construct \/ InvalidateCache \/ GetDiceCount \/ ReadService \/ ReadModel \/ ReadDice

Next == Game \/ Reader \/ Discovery

Spec == Init /\ [][Next]_vars

-----------------------------------------------------------------------------
\* A reader whose file is open has found its pid, its base address and its file
\* in one process, also after failed and repeated calls of initialize around a
\* restart of the game: reads ask for nothing but an open file
\* (memory_reader.py 218), so a failed call must not leave the old one open.
ReaderIsConsistent ==
  rpc = "idle" /\ mem_file # 0 => pid = mem_file /\ base_address = mem_file

\* A number that get_dice_count returns stood at RollModel + 0x18 of the service's
\* model at some moment of the call, although the chain is read in three steps, the
\* address comes from an earlier call and the game changes the word and replaces the
\* model in between - as long as the discovery is not used on after its reader has
\* gone over to another process, the captured service is the game's and the memory
\* of a model is not used for something else between two reads of one call.
ResultWasThere ==
  dpc = "idle" /\ clean /\ result # None => result \in seen

\* If the service is captured and still the game's, the word of its model plausible
\* and the game at rest for the duration of a call, the call returns that word: the
\* scan reaches the last slot, and no address it has kept is in the way.
QuietCallFinds ==
  dpc = "idle" /\ quiet => result = word[model]
=============================================================================

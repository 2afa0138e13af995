------------------------- MODULE MemoryReaderProofs -------------------------
(***************************************************************************)
(* Theorems about MemoryReader, for a scan of any length, any RollModels,  *)
(* words and dice, and any number of starts, changes and calls.            *)
(***************************************************************************)
EXTENDS MemoryReader, TLAPS

-----------------------------------------------------------------------------
(* The variables keep their types. *)

\* What every step of the game does and leaves alone.
LEMMA GameFrame ==
  ASSUME Game
  PROVE  /\ UNCHANGED <<readerVars, cacheVars, callVars, calls>>
         /\ quiet' = FALSE
         /\ seen' = seen \cup {word'[model']}
BY DEF Game, StartGame, ExitGame, MapLibrary, ToggleMultiplier, Change, ChangeWord,
       ReplaceModel, ReuseModel, ReplaceService, GameStep

\* How a step of the game may change the models and their words.
LEMMA GameModels ==
  ASSUME Game
  PROVE  \/ UNCHANGED <<model, word, clean>>
         \/ /\ \E w \in Words : word' = [word EXCEPT ![model] = w]
            /\ UNCHANGED <<model, clean>>
         \/ /\ \E m \in Models \ {model}, w \in Words :
                 model' = m /\ word' = [word EXCEPT ![m] = w]
            /\ UNCHANGED clean
         \/ /\ \E m \in Models \ {model}, w \in Words :
                 /\ word' = [word EXCEPT ![m] = w]
                 /\ clean' = IF dpc = "dice" /\ model_ptr = m THEN FALSE ELSE clean
            /\ UNCHANGED model
<1>1. CASE ChangeWord BY <1>1, Zenon DEF ChangeWord
<1>2. CASE ReplaceModel BY <1>2, Zenon DEF ReplaceModel
<1>3. CASE ReuseModel BY <1>3, Zenon DEF ReuseModel
<1>4. CASE UNCHANGED <<model, word, clean>> BY <1>4
<1> QED
  BY <1>1, <1>2, <1>3, <1>4
  DEF Game, StartGame, ExitGame, MapLibrary, ToggleMultiplier, ReplaceService

\* A step of the game.
LEMMA GameTyped ==
  ASSUME TypeOK, Game
  PROVE  TypeOK'
<1> USE ReaderAssumption
<1>1. /\ game' \in 0..MaxStarts /\ alive' \in BOOLEAN
      /\ mapped' \subseteq Libraries /\ captured' \in BOOLEAN /\ replaced' \in BOOLEAN
      /\ changes' \in 0..MaxChanges
  <2>1. CASE StartGame
    <3>1. game' \in 0..MaxStarts BY <2>1 DEF TypeOK, StartGame
    <3>2. /\ alive' \in BOOLEAN /\ mapped' \subseteq Libraries /\ captured' \in BOOLEAN
          /\ replaced' \in BOOLEAN /\ changes' \in 0..MaxChanges
      BY <2>1, Zenon DEF TypeOK, StartGame
    <3> QED BY <3>1, <3>2
  <2>2. CASE ExitGame BY <2>2 DEF TypeOK, ExitGame
  <2>3. CASE MapLibrary BY <2>3 DEF TypeOK, MapLibrary
  <2>4. CASE ToggleMultiplier BY <2>4 DEF TypeOK, ToggleMultiplier
  <2>5. CASE Change /\ replaced' \in BOOLEAN
    BY <2>5 DEF TypeOK, Change
  <2>6. CASE ChangeWord \/ ReplaceModel \/ ReuseModel
    BY <2>5, <2>6 DEF TypeOK, ChangeWord, ReplaceModel, ReuseModel
  <2>7. CASE ReplaceService
    BY <2>5, <2>7 DEF TypeOK, ReplaceService
  <2> QED BY <2>1, <2>2, <2>3, <2>4, <2>6, <2>7 DEF Game
<1>2. model' \in Models /\ word' \in [Models -> Words] BY GameModels DEF TypeOK
<1>3. clean' \in BOOLEAN BY GameModels DEF TypeOK
<1>4. seen' \subseteq Words
  <2>1. word'[model'] \in Words BY <1>2
  <2>2. seen \subseteq Words BY DEF TypeOK
  <2> QED BY <2>1, <2>2, GameFrame
<1>5. quiet' \in BOOLEAN BY GameFrame
<1> QED
  BY <1>1, <1>2, <1>3, <1>4, <1>5, GameFrame
  DEF TypeOK, readerVars, cacheVars, callVars

\* A step of the reader.
LEMMA ReaderTyped ==
  ASSUME TypeOK, Reader
  PROVE  TypeOK'
<1> USE ReaderAssumption
<1>1. UNCHANGED <<gameVars, cacheVars, callVars, history>>
  BY DEF Reader, Initialize, FindProcessId, GetLibraryBaseAddress, OpenMem, Close, ReaderStep
<1>2. /\ rpc' \in {"idle", "pid", "maps", "open"}
      /\ {pid', base_address', mem_file'} \subseteq {0} \cup Processes
      /\ calls' \in 0..MaxCalls
  <2>1. CASE Initialize BY <2>1 DEF TypeOK, Initialize, CanCall, Reset
  <2>2. CASE FindProcessId
    <3>1. alive => game \in Processes \cup {0} BY DEF TypeOK, Processes
    <3> QED BY <2>2, <3>1 DEF TypeOK, FindProcessId
  <2>3. CASE GetLibraryBaseAddress BY <2>3 DEF TypeOK, GetLibraryBaseAddress
  <2>4. CASE OpenMem BY <2>4 DEF TypeOK, OpenMem
  <2>5. CASE Close BY <2>5 DEF TypeOK, Close
  <2> QED BY <2>1, <2>2, <2>3, <2>4, <2>5 DEF Reader
<1> QED BY <1>1, <1>2 DEF TypeOK, gameVars, cacheVars, callVars, history

\* The end of a chain that has led nowhere.
LEMMA ChainFailsTyped ==
  ASSUME TypeOK, ChainFails
  PROVE  /\ slot' \in 1..NumSlots /\ dpc' \in {"idle", "service"}
         /\ result' \in (Words \cap MinDice..MaxDice) \cup {None}
         /\ g_rollservice_addr' \in 0..NumSlots
BY ReaderAssumption DEF TypeOK, ChainFails, Scans

\* The end of a chain that has led to a plausible number.
LEMMA ChainYieldsTyped ==
  ASSUME TypeOK, NEW value \in Words, IsPlausibleDice(value), ChainYields(value)
  PROVE  /\ slot' \in 1..NumSlots /\ dpc' \in {"idle", "service"}
         /\ result' \in (Words \cap MinDice..MaxDice) \cup {None}
         /\ g_rollservice_addr' \in 0..NumSlots
<1>1. value \in Words \cap MinDice..MaxDice BY ReaderAssumption DEF IsPlausibleDice
<1> QED BY <1>1, ReaderAssumption DEF TypeOK, ChainYields

\* What ReadDice may read is the word of some model.
LEMMA ValueTyped ==
  ASSUME TypeOK
  PROVE  (IF model_ptr = None \/ Foreign THEN Words ELSE {word[model_ptr]}) \subseteq Words
BY DEF TypeOK

\* A step of the discovery.
LEMMA DiscoveryTyped ==
  ASSUME TypeOK, Discovery
  PROVE  TypeOK'
<1> USE ReaderAssumption
<1>1. CASE Construct
  BY <1>1
  DEF TypeOK, Construct, CanCall, gameVars, readerVars, callVars, history
<1>2. CASE InvalidateCache
  BY <1>2 DEF TypeOK, InvalidateCache, gameVars, readerVars, callVars, history
<1>3. CASE GetDiceCount
  <2>1. word[model] \in Words BY DEF TypeOK
  <2>2. /\ seen' \subseteq Words /\ clean' \in BOOLEAN /\ quiet' \in BOOLEAN
        /\ calls' \in 0..MaxCalls
    BY <1>3, <2>1 DEF TypeOK, GetDiceCount, CanCall
  <2>3. /\ slot' \in 1..NumSlots /\ dpc' \in {"idle", "service", "model", "dice"}
        /\ result' \in (Words \cap MinDice..MaxDice) \cup {None}
    BY <1>3 DEF TypeOK, GetDiceCount, CanCall, ChainStart
  <2>4. UNCHANGED <<gameVars, readerVars, cacheVars, model_ptr>>
    BY <1>3 DEF GetDiceCount
  <2> QED BY <2>2, <2>3, <2>4 DEF TypeOK, gameVars, readerVars, cacheVars
<1>4. ASSUME DiscoveryStep,
             slot' \in 1..NumSlots, dpc' \in {"idle", "service", "model", "dice"},
             result' \in (Words \cap MinDice..MaxDice) \cup {None},
             g_rollservice_addr' \in 0..NumSlots,
             model_ptr' \in Models \cup {None}
      PROVE  TypeOK'
  <2>1. clean' \in BOOLEAN BY <1>4 DEF DiscoveryStep, TypeOK
  <2> QED BY <1>4, <2>1 DEF DiscoveryStep, TypeOK, gameVars, readerVars
<1>5. CASE ReadService
  <2>1. DiscoveryStep /\ model_ptr' \in Models \cup {None}
    BY <1>5 DEF ReadService, TypeOK
  <2>2. CASE ChainFails BY <1>4, <2>1, <2>2, ChainFailsTyped
  <2>3. CASE dpc' = "model" /\ UNCHANGED <<slot, result, g_rollservice_addr>>
    <3>1. /\ slot' \in 1..NumSlots
          /\ result' \in (Words \cap MinDice..MaxDice) \cup {None}
          /\ g_rollservice_addr' \in 0..NumSlots
      BY <2>3 DEF TypeOK
    <3> QED BY <1>4, <2>1, <2>3, <3>1
  <2> QED BY <1>5, <2>2, <2>3 DEF ReadService
<1>6. CASE ReadModel
  <2>1. DiscoveryStep /\ model_ptr' \in Models \cup {None}
    BY <1>6 DEF ReadModel, TypeOK
  <2>2. CASE ChainFails BY <1>4, <2>1, <2>2, ChainFailsTyped
  <2>3. CASE dpc' = "dice" /\ UNCHANGED <<slot, result, g_rollservice_addr>>
    <3>1. /\ slot' \in 1..NumSlots
          /\ result' \in (Words \cap MinDice..MaxDice) \cup {None}
          /\ g_rollservice_addr' \in 0..NumSlots
      BY <2>3 DEF TypeOK
    <3> QED BY <1>4, <2>1, <2>3, <3>1
  <2> QED BY <1>6, <2>2, <2>3 DEF ReadModel
<1>7. CASE ReadDice
  <2>1. DiscoveryStep /\ model_ptr' \in Models \cup {None}
    BY <1>7 DEF ReadDice, TypeOK
  <2>2. CASE ChainFails BY <1>4, <2>1, <2>2, ChainFailsTyped
  <2>3. ASSUME NEW value \in Words, IsPlausibleDice(value), ChainYields(value)
        PROVE  TypeOK'
    BY <1>4, <2>1, <2>3, ChainYieldsTyped
  <2> QED BY <1>7, <2>2, <2>3, ValueTyped DEF ReadDice
<1> QED BY <1>1, <1>2, <1>3, <1>5, <1>6, <1>7 DEF Discovery

\* Every variable keeps its type; in particular what get_dice_count returns is
\* within the plausible range.
THEOREM TypeCorrect == Spec => []TypeOK
<1>1. Init => TypeOK
  <2> SUFFICES ASSUME Init PROVE TypeOK
    OBVIOUS
  <2>1. 0 \in 0..MaxStarts /\ 0 \in 0..MaxChanges /\ 0 \in 0..MaxCalls
        /\ 0 \in 0..NumSlots /\ 1 \in 1..NumSlots
    BY ReaderAssumption
  <2>2. word \in [Models -> Words] BY DEF Init
  <2> QED BY <2>1, <2>2 DEF Init, TypeOK
<1>2. TypeOK /\ [Next]_vars => TypeOK'
  <2> SUFFICES ASSUME TypeOK, [Next]_vars PROVE TypeOK'
    OBVIOUS
  <2>1. CASE UNCHANGED vars
    BY <2>1
    DEF vars, TypeOK, gameVars, readerVars, cacheVars, callVars, history
  <2> QED BY <2>1, GameTyped, ReaderTyped, DiscoveryTyped DEF Next
<1> QED BY <1>1, <1>2, PTL DEF Spec

-----------------------------------------------------------------------------
(* The reader. *)

\* What holds during a call of initialize, too: its file stays closed until the
\* process and the library have been found in it.
ReaderInv ==
  /\ ReaderIsConsistent
  /\ rpc \in {"pid", "maps", "open"} => mem_file = 0
  /\ rpc = "open" => base_address = pid

\* An open reader speaks of one process.
THEOREM ReaderConsistent == Spec => []ReaderIsConsistent
<1>1. Init => ReaderInv BY DEF Init, ReaderInv, ReaderIsConsistent
<1>2. ReaderInv /\ [Next]_vars => ReaderInv'
  <2> SUFFICES ASSUME ReaderInv, [Next]_vars PROVE ReaderInv'
    OBVIOUS
  <2> USE DEF ReaderInv, ReaderIsConsistent
  <2>1. CASE UNCHANGED readerVars BY <2>1 DEF readerVars
  <2>2. CASE Initialize BY <2>2 DEF Initialize, Reset
  <2>3. CASE FindProcessId BY <2>3 DEF FindProcessId
  <2>4. CASE GetLibraryBaseAddress BY <2>4 DEF GetLibraryBaseAddress
  <2>5. CASE OpenMem BY <2>5 DEF OpenMem
  <2>6. CASE Close BY <2>6 DEF Close
  <2>7. Game \/ Discovery \/ UNCHANGED vars => UNCHANGED readerVars
    <3>1. Game => UNCHANGED readerVars BY GameFrame
    <3>2. Discovery \/ UNCHANGED vars => UNCHANGED readerVars
      BY DEF Discovery, Construct, InvalidateCache, GetDiceCount, ReadService, ReadModel,
             ReadDice, DiscoveryStep, vars
    <3> QED BY <3>1, <3>2
  <2> QED BY <2>1, <2>2, <2>3, <2>4, <2>5, <2>6, <2>7 DEF Next, Reader
<1> QED BY <1>1, <1>2, PTL DEF Spec, ReaderInv

-----------------------------------------------------------------------------
(* The discovery. *)

\* During a call and after it, as long as nothing foreign has been read: the
\* present word has been seen, so has the word of the model whose address has
\* been read, and that is an address.
WordInv ==
  /\ dpc # "idle" => word[model] \in seen
  /\ dpc = "dice" /\ clean => model_ptr \in Models /\ word[model_ptr] \in seen
  /\ ResultWasThere

\* The game only adds to what has been seen, and a model it has left keeps its
\* word, or the call is not clean any more.
LEMMA GameWord ==
  ASSUME TypeOK, WordInv, Game
  PROVE  WordInv'
<1>1. UNCHANGED callVars /\ seen' = seen \cup {word'[model']}
  BY GameFrame
<1>2. ASSUME dpc = "dice", clean'
      PROVE  model_ptr \in Models /\ word'[model_ptr] \in seen'
  <2>1. clean BY <1>2, GameModels
  <2>2. model_ptr \in Models /\ word[model_ptr] \in seen BY <1>2, <2>1 DEF WordInv
  <2>3. CASE UNCHANGED <<model, word>> BY <1>1, <2>2, <2>3
  <2>4. ASSUME NEW m \in Models, NEW w \in Words, word' = [word EXCEPT ![m] = w],
               m = model' \/ m # model_ptr
        PROVE  word'[model_ptr] \in seen'
    <3>1. CASE model_ptr = m BY <1>1, <2>4, <3>1
    <3>2. CASE model_ptr # m BY <1>1, <2>2, <2>4, <3>2 DEF TypeOK
    <3> QED BY <3>1, <3>2
  <2>5. model \in Models BY DEF TypeOK
  <2> QED BY <1>2, <2>2, <2>3, <2>4, <2>5, GameModels
<1>3. clean' => clean BY GameModels
<1> QED BY <1>1, <1>2, <1>3 DEF WordInv, ResultWasThere, callVars

\* The discovery returns nothing but the word of the model it has just read.
LEMMA DiscoveryWord ==
  ASSUME TypeOK, WordInv, Discovery
  PROVE  WordInv'
<1>1. CASE Construct \/ InvalidateCache
  BY <1>1
  DEF Construct, InvalidateCache, WordInv, ResultWasThere, gameVars, callVars, history
<1>2. CASE GetDiceCount
  <2>1. seen' = {word[model]} /\ UNCHANGED gameVars BY <1>2 DEF GetDiceCount
  <2>2. \/ dpc' = "idle" /\ result' = None
        \/ dpc' = "service"
    BY <1>2 DEF GetDiceCount, CanCall, ChainStart
  <2> QED BY <2>1, <2>2 DEF WordInv, ResultWasThere, gameVars
<1>3. ASSUME DiscoveryStep
      PROVE  /\ UNCHANGED <<model, word, seen>>
             /\ clean' => clean /\ (Readable => ~Foreign)
  BY <1>3 DEF DiscoveryStep, gameVars
<1>4. ASSUME DiscoveryStep, ChainFails, dpc # "idle" PROVE WordInv'
  BY <1>3, <1>4 DEF ChainFails, WordInv, ResultWasThere
<1>5. CASE ReadService
  <2>1. DiscoveryStep /\ dpc = "service" BY <1>5 DEF ReadService
  <2>2. CASE dpc' = "model" BY <1>3, <2>1, <2>2 DEF WordInv, ResultWasThere
  <2> QED BY <1>4, <1>5, <2>1, <2>2 DEF ReadService
<1>6. CASE ReadModel
  <2>1. DiscoveryStep /\ dpc = "model" BY <1>6 DEF ReadModel
  <2>2. CASE /\ Readable /\ dpc' = "dice"
             /\ model_ptr' = IF Foreign THEN None ELSE model
    <3>1. word[model] \in seen BY <2>1 DEF WordInv
    <3>2. clean' => model_ptr' = model BY <1>3, <2>1, <2>2
    <3> QED BY <1>3, <2>1, <2>2, <3>1, <3>2 DEF WordInv, ResultWasThere, TypeOK
  <2> QED BY <1>4, <1>6, <2>1, <2>2 DEF ReadModel
<1>7. CASE ReadDice
  <2>1. DiscoveryStep /\ dpc = "dice" BY <1>7 DEF ReadDice
  <2>2. ASSUME Readable, NEW value,
               value \in IF model_ptr = None \/ Foreign THEN Words ELSE {word[model_ptr]},
               ChainYields(value)
        PROVE  WordInv'
    <3>1. clean' => value \in seen
      <4>1. ASSUME clean' PROVE value = word[model_ptr]
        <5>1. clean /\ model_ptr \in Models BY <1>3, <2>1, <4>1 DEF WordInv
        <5>2. model_ptr # None BY <5>1, ReaderAssumption
        <5>3. Readable BY <2>2
        <5>4. ~Foreign BY <1>3, <2>1, <4>1, <5>3
        <5> QED BY <2>2, <5>2, <5>4
      <4> QED BY <1>3, <2>1, <4>1 DEF WordInv
    <3>2. \/ dpc' = "service"
          \/ dpc' = "idle" /\ result' = value
      BY <2>2 DEF ChainYields
    <3> QED BY <1>3, <2>1, <3>1, <3>2 DEF WordInv, ResultWasThere
  <2> QED BY <1>4, <1>7, <2>1, <2>2 DEF ReadDice
<1> QED BY <1>1, <1>2, <1>5, <1>6, <1>7 DEF Discovery

\* A number that is returned stood at RollModel + 0x18 during the call.
THEOREM ResultThere == Spec => []ResultWasThere
<1>1. Init => WordInv BY DEF Init, WordInv, ResultWasThere
<1>2. TypeOK /\ WordInv /\ [Next]_vars => WordInv'
  <2> SUFFICES ASSUME TypeOK, WordInv, [Next]_vars PROVE WordInv'
    OBVIOUS
  <2>1. CASE Reader
    BY <2>1
    DEF Reader, Initialize, FindProcessId, GetLibraryBaseAddress, OpenMem, Close,
        ReaderStep, WordInv, ResultWasThere, gameVars, callVars, history
  <2>2. CASE UNCHANGED vars
    BY <2>2 DEF vars, WordInv, ResultWasThere, gameVars, callVars, history
  <2> QED BY <2>1, <2>2, GameWord, DiscoveryWord DEF Next
<1> QED BY <1>1, <1>2, TypeCorrect, PTL DEF Spec, WordInv

-----------------------------------------------------------------------------
(* A call that nothing disturbs.                                            *)

\* An address that has been kept for the present process is the service's, and
\* the chain is followed from nowhere else: a discovery that has followed its
\* reader to another process never comes back to its own.
AddressInv ==
  /\ mys_base <= game
  /\ mys_base = game => g_rollservice_addr \in {0, G} /\ (dpc \in {"model", "dice"} => slot = G)
  /\ dpc # "idle" => rpc = "idle"

\* A quiet call has everything before it that it needs, and loses nothing.
QuietInv ==
  /\ quiet /\ dpc # "idle" =>
       /\ Readable /\ mys_base = mem_file /\ captured /\ ~replaced /\ IsPlausibleDice(word[model])
       /\ g_rollservice_addr # 0 => slot = G
  /\ quiet /\ dpc = "dice" => model_ptr = model
  /\ QuietCallFinds

LEMMA GameNotQuiet ==
  ASSUME TypeOK, AddressInv, QuietInv, Game
  PROVE  AddressInv' /\ QuietInv'
<1>1. /\ UNCHANGED <<rpc, mys_base, g_rollservice_addr, dpc, slot>>
      /\ ~quiet' /\ (game' = game \/ game' = game + 1)
  <2>1. game' = game \/ game' = game + 1
    BY DEF Game, StartGame, ExitGame, MapLibrary, ToggleMultiplier, Change, ChangeWord,
           ReplaceModel, ReuseModel, ReplaceService
  <2> QED BY <2>1, GameFrame DEF readerVars, cacheVars, callVars
<1>2. mys_base \in Nat /\ game \in Nat BY DEF TypeOK, Processes
<1>3. mys_base <= game' /\ (mys_base = game' => mys_base = game)
  BY <1>1, <1>2 DEF AddressInv
<1> QED BY <1>1, <1>3 DEF AddressInv, QuietInv, QuietCallFinds

LEMMA ReaderNotQuiet ==
  ASSUME TypeOK, AddressInv, QuietInv, Reader
  PROVE  AddressInv' /\ QuietInv'
<1>1. /\ ReaderStep
      /\ dpc = "idle"
  <2>1. ReaderStep
    BY DEF Reader, Initialize, FindProcessId, GetLibraryBaseAddress, OpenMem, Close
  <2>2. dpc = "idle" \/ rpc # "idle"
    BY DEF Reader, Initialize, FindProcessId, GetLibraryBaseAddress, OpenMem, Close, CanCall
  <2> QED BY <2>1, <2>2 DEF AddressInv
<1> QED
  BY <1>1
  DEF ReaderStep, gameVars, cacheVars, callVars, history, AddressInv, QuietInv, QuietCallFinds

\* A link of the chain cannot be read: the scan goes on to the next slot, and in
\* a quiet call there is one.
LEMMA FailedLink ==
  ASSUME TypeOK, AddressInv, QuietInv, DiscoveryStep, dpc # "idle", ChainFails,
         quiet => slot # G
  PROVE  AddressInv' /\ QuietInv'
<1>1. /\ UNCHANGED <<game, alive, captured, replaced, model, word, rpc, mem_file, mys_base, quiet,
                     g_rollservice_addr>>
      /\ dpc' \in {"service", "idle"}
  BY DEF DiscoveryStep, ChainFails, gameVars, readerVars
<1>2. quiet => g_rollservice_addr = 0
  BY DEF QuietInv
<1>3. quiet => Scans(slot)
  <2>1. slot \in 1..NumSlots /\ NumSlots \in Nat BY ReaderAssumption DEF TypeOK
  <2>2. slot # G => Scans(slot) BY <2>1 DEF G, Scans
  <2> QED BY <2>2
<1>4. quiet => dpc' = "service" BY <1>2, <1>3 DEF ChainFails
<1>5. AddressInv' BY <1>1 DEF AddressInv
<1> QED BY <1>1, <1>2, <1>4, <1>5 DEF QuietInv, QuietCallFinds, Readable

LEMMA DiscoveryQuiet ==
  ASSUME TypeOK, AddressInv, QuietInv, Discovery
  PROVE  AddressInv' /\ QuietInv'
<1>1. CASE Construct
  <2>1. /\ dpc = "idle" /\ g_rollservice_addr' = 0
        /\ mys_base' = (IF HasMaps(pid, "libmys_payload.so") THEN pid ELSE 0)
        /\ UNCHANGED <<game, rpc, dpc, quiet, result, word, model>>
    BY <1>1 DEF Construct, CanCall, gameVars, readerVars, callVars, history
  <2>2. mys_base' <= game
    <3>1. game \in Nat BY DEF TypeOK
    <3>2. mys_base' = game \/ mys_base' = 0 BY <2>1 DEF HasMaps
    <3> QED BY <3>1, <3>2
  <2> QED BY <2>1, <2>2 DEF AddressInv, QuietInv, QuietCallFinds
<1>2. CASE InvalidateCache
  <2>1. /\ dpc = "idle" /\ g_rollservice_addr' = 0
        /\ UNCHANGED <<game, mys_base, rpc, dpc, quiet, result, word, model>>
    BY <1>2 DEF InvalidateCache, gameVars, readerVars, callVars, history
  <2> QED BY <2>1 DEF AddressInv, QuietInv, QuietCallFinds
<1>3. CASE GetDiceCount
  <2>1. /\ dpc = "idle" /\ rpc = "idle"
        /\ UNCHANGED <<gameVars, readerVars, cacheVars>>
        /\ quiet' <=> (/\ Readable /\ mys_base = mem_file /\ captured /\ ~replaced
                       /\ IsPlausibleDice(word[model]))
        /\ IF mys_base = 0 THEN dpc' = "idle"
           ELSE /\ dpc' = "service"
                /\ slot' = IF g_rollservice_addr = 0 THEN 1 ELSE g_rollservice_addr
    BY <1>3 DEF GetDiceCount, CanCall, ChainStart
  <2>2. quiet' => mys_base # 0 /\ mys_base = game
    BY <2>1 DEF Readable
  <2>3. quiet' => (g_rollservice_addr # 0 => slot' = G)
    BY <2>1, <2>2 DEF AddressInv
  <2>4. AddressInv' BY <2>1 DEF AddressInv, gameVars, readerVars, cacheVars
  <2>5. quiet' => dpc' = "service" BY <2>1, <2>2
  <2>6. quiet' => Readable' /\ mys_base' = mem_file' /\ captured' /\ ~replaced'
                /\ IsPlausibleDice(word[model])'
    BY <2>1 DEF Readable, IsPlausibleDice, gameVars, readerVars, cacheVars
  <2>7. g_rollservice_addr' = g_rollservice_addr BY <2>1 DEF cacheVars
  <2> QED BY <2>3, <2>4, <2>5, <2>6, <2>7 DEF QuietInv, QuietCallFinds
<1>4. ASSUME DiscoveryStep
      PROVE  UNCHANGED <<game, alive, captured, replaced, model, word, rpc, mem_file, mys_base,
                         quiet>>
  BY <1>4 DEF DiscoveryStep, gameVars, readerVars
<1>5. CASE ReadService
  <2>1. DiscoveryStep /\ dpc = "service" /\ UNCHANGED model_ptr BY <1>5 DEF ReadService
  <2>2. CASE /\ Readable /\ ((mys_base = mem_file /\ slot = G /\ captured) \/ mys_base # mem_file)
             /\ dpc' = "model" /\ UNCHANGED <<slot, result, g_rollservice_addr>>
    <3>1. mys_base = game => slot = G BY <2>2 DEF Readable
    <3> QED BY <1>4, <2>1, <2>2, <3>1
        DEF AddressInv, QuietInv, QuietCallFinds, Readable, Foreign, IsPlausibleDice
  <2>3. CASE (~Readable \/ slot # G \/ ~captured \/ mys_base # mem_file) /\ ChainFails
    <3>1. quiet => slot # G BY <2>1, <2>3 DEF QuietInv
    <3> QED BY <2>1, <2>3, <3>1, FailedLink
  <2> QED BY <1>5, <2>2, <2>3 DEF ReadService
<1>6. CASE ReadModel
  <2>1. DiscoveryStep /\ dpc = "model" BY <1>6 DEF ReadModel
  <2>2. CASE /\ Readable /\ model_ptr' = (IF Foreign THEN None ELSE model)
             /\ dpc' = "dice" /\ UNCHANGED <<slot, result, g_rollservice_addr>>
    BY <1>4, <2>1, <2>2
    DEF AddressInv, QuietInv, QuietCallFinds, Readable, Foreign, IsPlausibleDice
  <2>3. CASE (~Readable \/ Foreign) /\ ChainFails
    <3>1. ~quiet BY <2>1, <2>3 DEF QuietInv, Foreign
    <3> QED BY <2>1, <2>3, <3>1, FailedLink
  <2> QED BY <1>6, <2>2, <2>3 DEF ReadModel
<1>7. CASE ReadDice
  <2>1. DiscoveryStep /\ dpc = "dice" /\ UNCHANGED model_ptr BY <1>7 DEF ReadDice
  <2>2. quiet => /\ Readable /\ IsPlausibleDice(word[model]) /\ model_ptr = model
                 /\ model_ptr # None
    BY <2>1, ReaderAssumption DEF QuietInv, TypeOK
  <2>3. ASSUME NEW value, ChainYields(value), quiet => value = word[model]
        PROVE  AddressInv' /\ QuietInv'
    <3>1. quiet => mys_base = game BY <2>1 DEF QuietInv, Readable
    <3>2. CASE /\ g_rollservice_addr = 0 /\ g_rollservice_addr' = slot /\ dpc' = "service"
               /\ UNCHANGED <<slot, result>>
      BY <1>4, <2>1, <3>1, <3>2
      DEF AddressInv, QuietInv, QuietCallFinds, Readable, Foreign, IsPlausibleDice
    <3>3. CASE /\ dpc' = "idle" /\ result' = value /\ UNCHANGED <<g_rollservice_addr, slot>>
      BY <1>4, <2>1, <2>3, <3>3 DEF AddressInv, QuietInv, QuietCallFinds
    <3> QED BY <2>3, <3>2, <3>3 DEF ChainYields
  <2>4. ASSUME Readable,
               NEW value \in IF model_ptr = None \/ Foreign THEN Words ELSE {word[model_ptr]},
               IF IsPlausibleDice(value) THEN ChainYields(value) ELSE ChainFails
        PROVE  AddressInv' /\ QuietInv'
    <3>1. quiet => value = word[model] /\ IsPlausibleDice(value)
      <4>1. quiet => ~Foreign BY <2>1 DEF QuietInv, Foreign
      <4> QED BY <2>2, <2>4, <4>1
    <3>2. CASE IsPlausibleDice(value) BY <2>3, <2>4, <3>1, <3>2
    <3>3. CASE ~IsPlausibleDice(value)
      <4>1. ~quiet BY <3>1, <3>3
      <4> QED BY <2>1, <2>4, <3>3, <4>1, FailedLink
    <3> QED BY <3>2, <3>3
  <2>5. CASE ~Readable /\ ChainFails
    <3>1. ~quiet BY <2>2, <2>5
    <3> QED BY <2>1, <2>5, <3>1, FailedLink
  <2> QED BY <1>7, <2>4, <2>5 DEF ReadDice
<1> QED BY <1>1, <1>2, <1>3, <1>5, <1>6, <1>7 DEF Discovery

\* A call that the game leaves alone finds the word, wherever the slot lies,
\* whatever address an earlier call has kept and whichever process it was for.
THEOREM QuietCall == Spec => []QuietCallFinds
<1>1. Init => AddressInv /\ QuietInv
  BY DEF Init, AddressInv, QuietInv, QuietCallFinds
<1>2. TypeOK /\ AddressInv /\ QuietInv /\ [Next]_vars => AddressInv' /\ QuietInv'
  <2> SUFFICES ASSUME TypeOK, AddressInv, QuietInv, [Next]_vars
               PROVE  AddressInv' /\ QuietInv'
    OBVIOUS
  <2>1. CASE UNCHANGED vars
    BY <2>1
    DEF vars, gameVars, readerVars, cacheVars, callVars, history, AddressInv, QuietInv,
        QuietCallFinds, Readable, Foreign, IsPlausibleDice
  <2> QED BY <2>1, GameNotQuiet, ReaderNotQuiet, DiscoveryQuiet DEF Next
<1>3. QuietInv => QuietCallFinds BY DEF QuietInv
<1> QED BY <1>1, <1>2, <1>3, TypeCorrect, PTL DEF Spec
=============================================================================

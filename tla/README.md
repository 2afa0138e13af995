# Verification of the babixGO native payload

TLA+ models, TLC runs and TLAPS proofs about the native payload of this
repository (`jni/`), the tool that listens to it (`scripts/ipc_receiver.py`) and the
reader that watches the game from outside (`core/memory_reader.py`).
All paths below are relative to `src/`.

## 1. The system

| part | state it keeps | operations | who calls it |
|---|---|---|---|
| Zygisk module (`jni/zygisk_loader.cpp`) | `should_inject_`, its option to be closed | `preAppSpecialize`, `postAppSpecialize` | Zygisk, in every process forked from zygote |
| constructor, bootstrap (`jni/main.cpp`, `hook_manager.cpp` 289-331) | `g_bnm_bootstrap_started` | start the feed, wait for `libil2cpp.so`, arm BNM, start the fallback | the dynamic linker; a thread of its own |
| life cycle of the installation (`hook_manager.cpp` 46-75, 333-418) | `g_bnm_loaded_callback_seen`, `g_install_thread_started`, `g_hooks_installed`, `g_late_fallback_started` | `OnBNMLoaded`, `LateInjectionFallbackMain`, `StartInstallThread`, `InstallThreadMain`, `InstallHooks` | BNM's callback on a game thread, the fallback thread, the install thread |
| hook installation (`hooks/hook_utils.cpp`, the `Install()` of six groups, `SafeHook`) | one pointer to the original per hook | `WaitForImage`, `ResolveAndHook`, `SafeHook` | the install thread |
| IPC feed (`ipc_feed.cpp`) | `g_initialized`, `g_socket_mutex`, `g_socket_fd` | `Initialize`, `Publish` | every thread, detours included |
| receiver (`scripts/ipc_receiver.py`) | the listening socket, one connection, one unfinished line | accept, read a line, stop, start | a process of its own |
| speed hooks (`hooks/speed_hook.cpp`) | multiplier, switch, last value set | detours of `set_timeScale` and `get_timeScale`, control functions | Unity's main thread; any thread |
| roll hooks (`hooks/roll_hook.cpp`) | `g_roll_service_instance` under `g_roll_service_mutex` | three detours, `TriggerRoll`, instance accessors | game threads; any thread |
| jail, coin-flip, pickup and chance hooks (`hooks/*.cpp`) | call counters | detours that publish, log and forward | game threads |
| IL2CPP handle resolution (`hook_manager.cpp` 77-320) | the attempt counter; what the dynamic linker has loaded | `dlopen` by name, by path, after preloading a dependency; users finder | the bootstrap thread |
| memory reader (`core/memory_reader.py` 13-299) | pid, base address, file of `/proc/<pid>/mem` | `initialize`, `close`, reads | a script outside the game |
| RollService discovery (`core/memory_reader.py` 302-492) | base of the library, address of `g_rollServiceInstance` once found | `get_dice_count`, `invalidate_cache` | the same script |
| pattern scanner (`jni/pattern_scanner.cpp`) | the request of one call | `FindFirstInModule` | the bootstrap thread, once |

How they interact.  The Zygisk module decides from a process's name whether to
load the payload, and loads it after specialization, with the app's own rights.
The constructor initialises the feed, publishes
`payload_loaded` and creates the bootstrap thread.  That thread waits until BNM
can be armed, publishes `bnm_bootstrap_armed`, probes the pattern scanner and
creates the fallback thread.
BNM calls `OnBNMLoaded` from then on - or has done so already, or never does.
The callback and, after 50 polls without a callback, the fallback both go for
`StartInstallThread`; one install thread runs the six groups and publishes the
verdict.  From the moment a hook is live the game's threads run its detour, which
may publish, while the installation of the other hooks goes on.  The memory reader
shares nothing with all this but the game: it opens the process's memory, scans a
library's data for a pointer and follows it, while the game runs, changes its
objects, exits and comes back.

What is hard here: the race between callback and fallback with `pthread_create`
failing on either side; a feed that is shared by all threads and whose peer
comes and goes; detours that become live one after the other while the game
runs; settings read in two steps and applied in one direction with other values
than in the other; a mutex held while calling into the game; calls of the game
that meet a detour before, or without ever, there is an original behind it.

What makes each part correct:

* life cycle: the groups are installed at most once, an armed bootstrap ends in a
  verdict, the feed tells the true order of events;
* Zygisk module: the payload runs in the game's processes and in no other, and the
  module leaves where it is not needed;
* pattern scanner: it reads inside the segments and returns the first match;
* detours: no call of the game is swallowed, and a reader of the feed who has seen
  the verdict `success` sees every call announced;
* installation: every hook is tried, the verdict speaks of the required hooks,
  the waits end;
* feed: no descriptor is leaked, `Publish` returns, the receiver sees whole
  messages in order;
* speed: the game reads the time scale it has set;
* roll: `TriggerRoll` is honest about what it did, uses the multiplier it was
  given and does not block anybody;
* handle resolution: BNM is armed wherever one of its ways works, on a library that
  is there, and nothing is preloaded but what `libil2cpp.so` misses at that moment;
* memory reader: what is read belongs to one process, and a number that is returned
  stood at `RollModel + 0x18` during the call (what it means, section 5).

## 2. The modules

| module | what it is | code |
|---|---|---|
| `InstallOnce` | abstract: groups entered in order, each once, then one verdict | what `InstallHooks` promises |
| `HookManager` | threads and flags of the life cycle | `main.cpp`, `hook_manager.cpp` |
| `HookManagerProofs` | theorems about `HookManager` | |
| `ZygiskLoader` | the Zygisk module in one process | `zygisk_loader.cpp` |
| `PatternScanner` | one scan after the other, module by module and offset by offset | `pattern_scanner.cpp` |
| `PayloadStart` | composition: `ZygiskLoader`, `HookManager` and the probe | `main.cpp` 18-45, `hook_manager.cpp` 322-330 |
| `PayloadStartProofs` | theorems about the three | |
| `HookTable` | the 37 hooks, their images, which are required | the six `Install()` functions |
| `HookInstall` | what one install thread does for each hook of a table | `hook_utils.cpp`, `SafeHook`, `InstallHooks`, `Install()` |
| `Detours` | composition: calls of the game beside `HookInstall` | the detours of `hooks/*.cpp` |
| `HookInstallProofs` | theorems about `HookInstall` and `Detours` | |
| `LineFeed` | abstract: lines delivered are a subsequence of lines sent | what a reader of the feed relies on |
| `IpcFeed` | publishers, socket, kernel buffers, receiver | `ipc_feed.cpp`, `ipc_receiver.py` |
| `IpcFeedProofs` | theorems about it | |
| `SpeedHook` | the two detours and their controls | `speed_hook.cpp` |
| `SpeedHookProofs` | theorems about it | |
| `RollHook` | the capturing detours and `TriggerRoll` | `roll_hook.cpp` |
| `RollHookProofs` | theorems about it | |
| `Il2CppBootstrap` | the loop that arms BNM, inside `HookManager`'s step `ArmBNM` | `hook_manager.cpp` 77-320 |
| `Il2CppBootstrapProofs` | theorems about it | |
| `MemoryReader` | reader, discovery and the game they watch | `memory_reader.py` |
| `MemoryReaderProofs` | theorems about it | |
| `MC...` | instances of the above for TLC | |

`HookManager` and `HookInstall` both implement `InstallOnce`: the first shows that
the racing threads amount to one sequential installation and takes a group's
result as given; the second opens up one installation and shows what the result
means.  `HookManager` publishes by appending to a sequence; `IpcFeed` shows what
becomes of a message that is handed to `Publish`.  `PayloadStart` and `Detours` extend
the modules they compose and add to each action what the other part has to say
about it, so that whatever is proved of a part holds in the composition.

**`HookManager`.**  One step is one access to an atomic flag, one `Publish`, one
`pthread_create` or one group's `Install()`.  The flags keep their names.  `boot`
is the program counter of the constructor and then of the bootstrap thread, `pc`
that of every thread that can reach `StartInstallThread` (callback threads and
the fallback), `worker` that of the install threads; there is one slot for each
that a bug might create.  `exchange(true)` is a test and a set in one step;
`InstallHooks`' load and store of `g_hooks_installed` are two.  The search for
`libil2cpp.so` is one step, `ArmBNM`, that may never come.

**`ZygiskLoader`.**  A name is a sequence of characters, so that a prefix, a
suffix and the colon after the package are what they are.  `dlopen` is two steps,
because the payload's constructor runs between them.  A process has a module
object of its own; one process is therefore enough.

**`PatternScanner`.**  A step is a module, a segment or an offset, as the callback of
`dl_iterate_phdr` and its two loops make them; offsets and limits are numbers modulo
`SizeRange`.  The mask is a sequence of booleans; `null` stands for the arguments that
the function refuses.  `Occurs` and `Before` are the reference definition.

**`PayloadStart`.**  `PayloadTurn` lets a step of `HookManager` happen: the first one
only inside `dlopen`, the one past the probe only after it.  The loader's `dlopen`
returns when the constructor is over (`ConstructorInside`), and the probe, which
needs the dynamic linker's lock, begins after that.  The probe asks for anything in
`Requests` where the code asks for one pattern.

**`Detours`.**  A detour publishes before the original, calls the original if there
is one, publishes after it, returns; `Publication` is the table of what each one
does, read off the thirty-two functions.  A call is a record that walks through
these places, on its thread, from the game's code or from within the original of
another call.  `DobbyPatches` is the moment at which `DobbyHook` has patched the
method and not yet written the original's pointer; it need not occur.  Calls begin
and end beside every step of the installation, also before the game's method is
hooked (`entry` is then `"unhooked"`).  A call carries in `within` the unfinished
calls of its thread at its beginning, those it is nested in.

**`HookInstall`.**  `Return` is the common end of `ResolveAndHook`: it records the
outcome, updates `required_ok` and goes to the next hook, for success and
failure alike, because the call is the left operand of `&&`.  Images are loaded by
the game at any moment.  A lookup can fail at `Resolve`; `DobbyHook` can fail, or
succeed and leave no original (`"orphan"`), both of which `SafeHook` reports as
false.

**`IpcFeed`.**  A line is a sequence of units `<<message, k>>` ending with
`<<message, 0>>`, its newline, so that cut and glued lines can be told from whole
ones.  A connection has the payload's end, the receiver's end and the units in
between.  The socket and `connect`, the `send`, the `close` are steps of their own,
all between `Lock` and `Unlock`.  `Initialize` is the flag's exchange and its own
critical section.  `send` takes a line if the buffer has room; if not it fails
or, with `PartialSends`, takes what fits.  The receiver accepts in order, reads
unit by unit, prints a line at a newline or at the end of the stream.

**`SpeedHook`.**  1.0 is the integer `One`, and division rounds down; that a product by a
multiplier is exact, as it is for the instance's values, is the assumption
`ExactAssumption`.  `Divides` is the test against 0.0001.  The switch and the
multiplier are loaded in separate steps, as the code's relaxed loads are.  `Install`
tries the setter's hook and then the getter's, and each may fail, so that either detour
can be live without the other.  `requested` and `steady` are history: what the game set
last, and whether anything else has happened since; so are `met`, the requests that met
the live detour, and `named`, which of them the feed names.  `met` does not contain what
was set before the hook was live, which the detour cannot know: it compares its first
request with 1.0.

**`RollHook`.**  The detours lock, store and unlock in one step (nothing else is
inside); `TriggerRoll` locks, checks, calls `SetMultiplier` and `AttemptRoll` and
unlocks in separate ones.  `Install` tries the three hooks in order beside all that; one
that fails is left out, or is live without an original, and the next is tried all the
same.  `Through` is the call of an original: `TriggerRoll` calls what the pointer holds,
and without one it is at `"crashed"`, a place `TypeOK` excludes.  Of the game only what
the hooks use is modelled: a service has a multiplier, `AttemptRoll` finds it and may ask
for it.  Whether `AttemptRoll` makes a roll neither `TriggerRoll` nor the model knows;
`attempts` is the history of its calls, `touched` that of `TriggerRoll`'s calls of
`SetMultiplier`, `announced` that of the messages.

**`Il2CppBootstrap`.**  One step is one `dlopen`, one look into the maps or one call
of BNM; `pc` goes through `TryBootstrapViaUsersFinder`, `TryResolveIl2CppHandle`
and the loop of `InitializeBNM` in the order of the code.  What the device is like
(`env`: namespaces, permissions, which library needs which, which of them the linker
finds by itself, which of its messages can be parsed, which of BNM's ways work) is
chosen once; when the game maps `libil2cpp.so` is open.  `Missing` is what a library
lacks, directly or behind libraries that are found; a failing `dlopen` that was allowed
to look names one of those (`Names`), or nothing that can be parsed, and then the
message of the `dlopen` by name is used instead.  `dlerror` may keep one buffer for both
messages; the earlier one is then lost, which is a `tells` without `"name"`.

**`MemoryReader`.**  A process is the number of its start; an address or a descriptor
is the process it belongs to, so that "stale" is inequality.  Every read of the
chain is a step, and the game steps between any two: it changes the word at
`RollModel + 0x18`, gives its service another model, uses the old one's memory for
something else, or makes another service, which nobody captures (`replaced`).  The scan
visits its slots one after the other; only the last is the right one.  A discovery keeps
the number of its reader's descriptor.  An address of one process read in another, or of
a service that was replaced, leads anywhere (`Foreign`).  `seen`, `clean` and `quiet` are
history of the current call.  `word` is the int32 that is read and nothing more; that it
is the player's dice is said by no property.

## 3. The runs

| run | instance | shows |
|---|---|---|
| `payload_start` | 8 process names around the package's, 2 callback threads, fallback with 2 polls, 3 slots for install threads, up to 2 failing `pthread_create`, 36 memories to scan; 448 thousand states | `OnlyInTheGame`, `LoaderLeaves`, `ClaimInv` (the inductive invariant), `InstallsAtMostOnce`, `FeedOrder`, `ImplementsInstallOnce`, `ReadsInside`, `FindsFirst`, and `ArmedLeadsToVerdict`, which is about behaviours without a failing `pthread_create` |
| `hook_manager_create_fails` | 1 callback thread, 1 failure | violation, see section 5 |
| `hook_install` | the real table, `kImageWaitAttempts` 2, one failing call, the game's image late or absent; 88 thousand states | `TriedInOrder`, `VerdictIsRequired`, `ImageSeenStays`, `ImplementsInstallOnce`, `InstallTerminates` |
| `ipc_feed` | 2 publishers, 3 calls, message sizes 0 to 3 around `MaxPayload` 2, 3 sockets, buffers of 4 units, one stop, sends short or whole; 545 thousand states | `NoLeakedSocket`, `UnitsInOrder`, `PublishReturns`; as long as every send has been whole, `ImplementsLineFeed`; and without a stop of the receiver, `SentIsReceived` |
| `detours` | one hook of each kind in two groups, 2 game threads, 3 calls, nested or not, one failing call of the installation, an image that is late or absent; 4.7 million states | `NothingElseSwallowed`, `SuccessIsComplete`, `FeedFollowsCalls` |
| `ipc_feed_lines` | short sends | violation, see section 5 |
| `speed_hook` | 3 calls of `set_timeScale` with -1.0, 1.0, 6.0, two control calls with 0.0, 0.5, 2.0 or on/off, either hook failing or not; 143 thousand states | `FeedTracksRequests`, `RoundTripWhenSteady` |
| `speed_hook_stored` | one call, no control | violation, see section 5 |
| `roll_hook` | 2 clients with 1, 100, 101, one game thread that sets 5, 3 calls, at most one hook that fails; 1.4 million states | `TriggerIsHonest`, `ClientsDoNotMix`, `CallsReturn` |
| `roll_hook_race` | 1 client, 1 game thread | violation, see section 5 |
| `il2cpp_bootstrap` | 4320 kinds of device, two libraries that may be missing or found (none, one, side by side, one behind the other), users finder every 3rd attempt; 268 thousand states | `NeverArmsEarly`, `PreloadsWhatIsMissing`, `ArmsWhenPossible` |
| `memory_reader` | 2 starts of the game, 2 changes of its objects, 2 RollModels, words -1, 0, 9999 and 10000, a scan of 2 slots, 5 calls; 2.9 million states | `ReaderIsConsistent`, `ResultWasThere`, `QuietCallFinds` |

**Why the bounds are enough.**  In `HookManager` the flags are boolean and every
starter runs once: two callers cover callback against callback, and with the
fallback any pair; three slots are one for each starter.  The theorems of
section 4 drop these bounds.  Two polls tell "before the last poll" from "after".
The process names are the package's, its prefix, suffixes with and without a colon,
and none; the memories are every text of up to three bytes over two values for a
pattern of two bytes, which puts it before, at and past every edge, with one byte
masked or none, and a handful with several segments and modules.
In `Detours` two calls on one thread can be nested and a third, on the other or the
same, can begin anywhere between; two groups tell a verdict of the last group from
one of all, and three hooks are one for each way to announce.
In `HookInstall` two attempts tell a fresh count from one carried over.  In
`IpcFeed` three messages cover a first, a lost and a later one; sizes go from empty
to above the limit; a buffer of four units holds one line of the longest kind and
no second; three sockets are two reconnects.  In `SpeedHook` the values lie on both
sides of either clamp bound, and three calls cover change, repetition and change
back.  In `RollHook` three calls are two clients and the game in one another's way;
the multipliers are the two bounds and the value above the range (the one below, 0, makes
the run half as long again and is left to the theorems, which hold for all
multipliers); one hook that fails is each of the three in turn.
In `Il2CppBootstrap` two libraries are the least that can lie side by side or behind one
another, a missing one behind a found one among them, and a period of 3 has turns with and without the users finder.
In `MemoryReader` two starts are a stale and a fresh process, the words are the ends of
the plausible range and their neighbours outside it, two slots a wrong and the right one, five calls an `initialize`, a construction and three reads - the
first with a scan, the second with the kept address, the third after a change.
`CHECK_DEADLOCK FALSE` is everywhere because every instance stops when its bounded
number of calls is used up, and the payload's own threads end (in
`Il2CppBootstrap`, the loop).

**Fairness.**  Weak fairness for a thread that has something to do: the operating
system runs it.  In `PayloadStart` that is the loader's, the probe's and each of the payload's threads,
in the composition's own actions.  None for the game: BNM may never be armed, never call back, an
image may never appear, nobody has to publish or roll.  None for stopping or
starting the receiver, but a receiver that is up reads.  The mutexes need no
strong fairness, because every instance has boundedly many calls; a claim about
unbounded contention is not made.  `ArmedLeadsToVerdict`, `SentIsReceived` and
`CallsReturn` have their assumption inside the formula: no failing
`pthread_create`, no stop of the receiver, no roll of `TriggerRoll` that asks for
the multiplier.

## 4. What is proved

`HookManagerProofs`, for every set of callback threads and install-thread slots,
every number of polls and of failing `pthread_create` calls, under the two
assumptions of `HookManager` (`ThreadsAssumption`: the fallback is not a callback
thread; `BoundsAssumption`: the bounds are natural numbers):

* `TypeCorrect`: `Spec => []TypeOK`;
* `ClaimInvariant`: `Spec => []ClaimInv`;
* `FeedInOrder`: `Spec => []FeedOrder`;
* `InstallAtMostOnce`: `Spec => []InstallsAtMostOnce`;
* `Implementation`: `Spec => ImplementsInstallOnce`, with the initial state and
  every step of the threads mapped to `InstallOnce`;
* `NoRestWithoutVerdict`: once BNM is armed and as long as no `pthread_create` has
  failed, the threads of the payload have not all ended before there is a verdict.

`InstallsAtMostOnce` is not inductive: a state in which an install thread is about
to run group 3 although group 3 has been entered satisfies it and leads to one
that does not.  `ClaimInv` adds what rules such states out:

* `SingleClaim`: at most one starter is between winning the exchange and
  `pthread_create`, at most one install thread exists, never both, and
  `g_install_thread_started` is down only while neither does.  The step that
  needs care is the failing `pthread_create`, which lowers the flag again: it is
  safe because the starter that lowers it is the only one that holds the claim.
* `InstallProgress`: `g_hooks_installed` is up exactly when an install thread has
  passed the mark, and exactly the groups before its counter have been entered.
* `ReportProgress`: which of the three installation messages are in the feed is
  determined by the install thread's place and result.

Each has a lemma that says every step preserves it, one step of the proof for
each action, and frame lemmas for the steps that do not touch its variables.  The
implementation follows from `ReportProgress` and `InstallProgress`: the abstract
phase is read off the feed and the install thread's counter supplies the next
group.

`FeedOrder` speaks of the past only through the feed itself.  `Stages` says which
messages are in it, given the place of each thread: whoever is on the way to
`StartInstallThread` has announced itself, whoever is about to publish has not, and
no two are about to publish the same.  `Timely` is the condition under which a
message may be added, `TimelyKeepsOrder` the one lemma about the feed; the rest shows
that the six steps that publish are timely.

`NoRestWithoutVerdict` is what of `ArmedLeadsToVerdict` is a safety property.  Each flag
makes other threads give way, so each needs somebody who goes on in their place:
`LateReached` says that arming is followed by the fallback, `ClaimTaken` that behind
`g_install_thread_started` there is a starter at `pthread_create` or an install
thread, behind the callback's flag a callback on its way to the claim, and that a
fallback that has ended has seen one of the two.  With a failing `pthread_create`
it is false, which is the first finding of section 5.

`PayloadStartProofs`, for every package and every set of names, every memory, pattern
and mask, any width of `size_t` that holds the segments' sizes, and the threads of
`HookManager`, under `LoaderAssumption`, `ScannerAssumption` and `HookManager`'s two:

* `Composition`: `StartSpec` implies the specifications of its three parts, so that
  their theorems hold of it; `StartInstallsOnce` and `ProbeFindsFirst` are two;
* `ScanReadsInside` (`ReadsInside`) and `ScanFindsFirst` (`FindsFirst`), from `ScanInv`:
  the cursor is inside what is scanned (`CursorInside`), where the difference of the
  sizes does not wrap (`LimitIsDifference`), and the pattern is nowhere before it
  (`NothingBefore`);
* `StartTypes` (`StartTypeOK`);
* `InTheGameOnly` (`OnlyInTheGame`) and `ModuleLeaves` (`LoaderLeaves`), from `Decision`
  (what the module has decided, by `TargetIsGame` for names of any length),
  `Constructed` (the constructor runs inside `dlopen`) and `Stages`.

`Il2CppBootstrapProofs`, for every set of libraries and surroundings and every period
of the users finder, under `BootstrapAssumption` (the names are distinct, the
period is at least 2): `TypeCorrect`, `ArmedWithLibrary` (`NeverArmsEarly`),
`AttemptKnows` and `PreloadsAreMissing` (`PreloadsWhatIsMissing`).  `BootstrapInv` adds
to the first two that a handle is one of a loaded library (`HandleIsLoaded`).
`AttemptInv`, the invariant that `AttemptKnows` states, says what an attempt has found
out when it comes to a place, although the game may map the library between any two of
its looks.  In particular, at `"preload"` the name it has is that of a library still
missing, of `libil2cpp.so` itself where it was refused, or none: the later message
replaces the earlier one, and an earlier one that is used instead is of the same attempt,
in which nothing has been loaded since - for if the game had mapped its libraries into
the payload's namespace, the look at the path would have found `libil2cpp.so` loaded.
`PreloadsAreMissing` follows, also for a library behind another one that the linker
finds by itself.

`EachMissLoadsOne` is the argument behind `ArmsWhenPossible` for handles: when
`libil2cpp.so` is mapped and a handle can be had and used, this stays so, an attempt
fails only at its last `dlopen`, and it gets there only by loading one of the
libraries that are lacking, of which there are then fewer.

`MemoryReaderProofs`, for a scan of any length, any words and RollModels, any bounds of
the plausible range and any number of restarts and changes, under `ReaderAssumption`:
`TypeCorrect`, `ReaderConsistent` (`ReaderIsConsistent`), `ResultThere`
(`ResultWasThere`) and `QuietCall` (`QuietCallFinds`).  `ReaderInv` adds that
the file is closed while `initialize` looks for the process and the library.
`WordInv` adds that during a call the word of the service's present model has been seen
and so has that of the model whose address the call holds, even if the game has left
that model since; the step that needs care is the change of model, in which the new
model's word is seen and the old one's stays, until its memory is used for something
else, which ends the claim (`clean`).  `QuietInv` says of a call
that the game leaves alone that it has not passed the right slot, and `AddressInv`
that a kept address is the right one's.

`IpcFeedProofs`, for any number of publishers, message sizes, buffers, connections
and stops of the receiver, with whole sends or short ones, under `FeedAssumption`:
`TypeCorrect`, `NoLeak` (`NoLeakedSocket`), `ReadInOrder` (`UnitsInOrder`),
`LinesImplemented` (`ImplementsLineFeed`) and, which no run checks, `LinesAreWhole`,
`LossInvariant`, `SentArrivesOrFlies`, `MutexHeldInside` and `PublishEnds`.  `FeedInv` adds that a thread in a
critical section is the one that holds the mutex (`HoldsMutex`), that one about to
connect or to send has a socket (`HasSocket`), which the lines it puts on it need to
be typed at all, and that no connection but the current one is open (`OneSocket`).
The steps of the holder share one lemma: since nobody else is inside, whatever it
does to the descriptor disturbs nobody's claim about it.

`UnitsInOrder` says nothing of what is still in a buffer, and the next read may bring
anything that is there; `OrderInv` is what makes it inductive.

* `SentGood` and `MessagesGood`: a send is the beginning of one message, each message
  is sent once, and a thread with a message to send has one that nobody else has.
* `ConnsGood`: connections are read in the order in which they were made, and the
  payload writes only to the last of them.
* `FlightGood`: what a connection holds, with the unfinished line if it is being
  read, is a row of whole sends (`StreamGood`), and all that one connection holds was
  sent before all that a later one does (`Before`).  A `send` adds one at the end,
  a `Read` takes units off the front, a reset empties it; none leaves half a send
  anywhere but at the receiver.
* `ReceivedGood`: what has been printed was sent before all of that.
* `PartialWhole`: as long as no send was short, the unfinished line is the beginning of
  one message.  It is what the refinement and `LinesAreWhole` need: a newline then
  completes the very message that it belongs to.

`LinesImplemented` maps every step to one of `LineFeed` or a stutter until the first
short send; `LinesAreWhole` says that until then every line printed is a message, so
that the finding about short sends is the only way to break the line protocol.
`LossInvariant` (`LossInv`) is about what is lost: as long as the receiver is not
stopped, no connection is reset (`NotCut`), and every unit of text that `send` has taken
is printed or on its way (`NothingLost`), on the connection in use or on one that the
payload has given up and the receiver not yet read to its end.
`SentArrivesOrFlies` follows: the safety part of `SentIsReceived`.  `MutexHeldInside` and
`PublishEnds` are the same for `PublishReturns`: the mutex is held only inside a
critical section, and each step of a call is nearer to its end, whatever fails.

`HookInstallProofs`, for every table of groups and hooks, any number of looks for an
image and any set of failing calls, under `InstallAssumption` (no group is empty):
`TypeCorrect`, `EveryHookTried` (`TriedInOrder`), `VerdictTrue` (`VerdictIsRequired`),
`ImageNotLost` (`ImageSeenStays`) and `Implementation` (`ImplementsInstallOnce`).  What is missing from the properties
is the meaning of the two flags on the way: `required_ok` is the conjunction over
the required hooks of the current group up to the current hook (`GroupGood`) and
`allOk` that over the finished groups (`GroupsGood`).  One lemma, `ReturnStep`, does
the work for the five places at which `ResolveAndHook` returns.  `ImageInv` adds that
the image of a hook whose wait has ended well, now or earlier, is loaded, and that
while a hook still waits every earlier hook of its image was given up.  `InstallEnds` is
the ranking behind `InstallTerminates`: every step of the install thread is one
further in group, hook and look, in that order of weight, and nothing sets it back.

The same module proves, of `Detours` and for any threads, animations and number of
calls, `DetourTypes` (`DetourTypeOK`), `NothingSwallowed` (`NothingElseSwallowed`),
`SuccessComplete` (`SuccessIsComplete`) and `FeedInOrder` (`FeedFollowsCalls`).  `DetourComposition` takes over everything
about `HookInstall`.  `PatchedInv` ties the live methods to the outcomes; `CallGood`
says how often a call has run its original, given its place and what it found when
it began; `FeedGood` says how often it has been announced.  `SuccessIsComplete` then
needs `VerdictIsRequired`: a call that began after the verdict found a required hook
live.  `FeedInOrder` needs `NestingGood`: the calls of a thread are nested, so that of two
one began within the other or after its end, and a call with an unfinished one within
it is still in its original.

`RollHookProofs`, for any game threads, clients and services, any multipliers, any
failures of the installation and any number of calls, whether or not `AttemptRoll`
enters a detour, under `RollAssumption`: `TypeCorrect`, `OriginalsThere`, `Honest`
(`TriggerIsHonest`), `Unmixed` (`ClientsDoNotMix`) and `Announcements`
(`AnnouncedBeforeRolled`, which no run checks).  `OriginalsThere` says that a
`TriggerRoll` past its tests has both originals (`OriginalsHeld`), from which `TypeCorrect`
has that it calls no null pointer.  `RollInv` adds that
ids are given out once (`IdsFresh`), that a client inside `TriggerRoll` holds the mutex
(`HoldsMutex`), that between its `SetMultiplier` and its `AttemptRoll` only the game
touches the multiplier (`MultiplierKept`: the step that needs the mutex is another
client's `SetMultiplier`), and that a client's `AttemptRoll` is called in the last step
before it unlocks (`RolledAsSaid`).  `Effects` is what `Honest` needs besides: the call of
`SetMultiplier` is recorded exactly from there on (`EffectsAsSaid`), and a call that had
all it needs and lost nothing is not refused (`ReadyServed`).  `MutexHeldInside` and
`CallsEnd` are what `CallsReturn` rests on: the
mutex is held only by a client inside `TriggerRoll`, and each step of a call is
nearer to its end.  What remains that could keep a call from coming back is a holder
that waits for the mutex itself, which happens in the state `"nested"` alone.

`SpeedHookProofs`, for any requests and multipliers under `SpeedAssumption`:
`TypeCorrect` (a scaled value is between 0 and 10) and `FeedTrue` (`FeedTracksRequests`),
and under `ExactAssumption` as well `ReadsBack` (`RoundTripWhenSteady`), for multipliers
above 0.0001 in whatever unit `One` is.  `Pending` says what
the detour's locals hold between the exchange of the last value and the publication, and
`Remembered` that the last value exchanged is the last request that met the detour;
`SteadyInv` says what the game's time scale and the locals of a call under way are as long
as the settings have not changed since the last request.

**Only model-checked** is liveness: `ArmedLeadsToVerdict`, `PublishReturns`,
`SentIsReceived`, `InstallTerminates`, `CallsReturn` and `ArmsWhenPossible`.  The provers do not
reason about fairness, which speaks of what is enabled.  What of each can be said
without it is proved: that nothing comes to rest too early (`NoRestWithoutVerdict`,
`SentArrivesOrFlies`), that no lock is left behind (`MutexHeldInside`, twice), and that what
is to end comes nearer to it with each step (`PublishEnds`, `InstallEnds`, `CallsEnd`,
`EachMissLoadsOne`).  Left to TLC is that a thread which can take its step does.  Every
safety property of every passing run is a theorem.

## 5. Where the code does not do what it says

* **A failing `pthread_create` can lose the installation**
  (`ReadyLeadsToInstall`).  `StartInstallThread` lowers its flag again for another
  try, but if the callback was the caller nobody is left to try: the fallback
  returns as soon as it sees the callback's flag.
* **A short send breaks the line protocol** (`EachLineIsAMessage`).  `Publish` only
  looks for a negative result.  The receiver then prints half a message, or a half
  with the next message glued to it.
* **`get_timeScale` divides what was never multiplied** (`StoredIsScaled`).  Until
  the game first sets the scale after the hooks are live, it reads half of it.
  (Two more effects of the same pair of functions are visible in the model: a
  request over the clamp reads back smaller, which `Invertible` excludes from
  `RoundTripWhenSteady`; and with modification enabled by default the hooks are
  not "read-only", as `README.md` 142 calls them.)
* **The game's `SetMultiplier` can come between the two calls of `TriggerRoll`**
  (`RollUsesMultiplier`).

Not counted as a finding, because it depends on code that is not here: if
`RollService.AttemptRoll` itself calls `GetCurrentMultiplier`, `TriggerRoll`
deadlocks on its own thread - the detour takes the mutex that `TriggerRoll`
holds.  `CallsReturn` states the condition.

"All hooks installed successfully" (`hook_manager.cpp` 415) is logged with any
number of the 21 optional hooks missing; `VerdictIsRequired` says what the verdict
does mean.

**The repository contradicts itself about `RollModel + 0x18`.**
`memory_reader.py` 362 promises of `MysRollServiceDiscovery.get_dice_count` to "Return the
current dice count via the mys pointer chain", and 319 takes the word at
`RollModel + 0x18` for it (`DicekBackingField`); `README_PHASE1.md` 14-15 says that
"`Tophat.Client.DiceRoll.RollModel.<Dice> @ 0x18` is not the live dice balance" but "a
`System.Int32[]`, not a scalar roll counter".  If the README is right, what the call
returns is the lower half of a pointer whenever that is from 0 to 9999, and no dice
count.  Which of the two is right is a fact about the game and is decided by no code in
`src/`, so that no run could find out: a model in which word and balance differ would
only repeat the README.  What is checked and proved of the chain, `ResultWasThere` and
`QuietCallFinds`, is therefore about the word and says nothing of the player's dice.

`roll_hook.h` 8 names 1, 5, 10, 50 and 100 as the multipliers of `TriggerRoll`; the code
takes every one from 1 to 100, as its own message at `roll_hook.cpp` 183 says, and so does
`Valid`.

A request that `SpeedHook` does not announce: if the game has set the scale before the hook
was live and sets 1.0 as the first request after, the detour sees no change
(`g_last_set_bits` begins with 1.0, `speed_hook.cpp` 30); in the same way, 2.0 set before and
again after is announced as a change.  `FeedTracksRequests` is about the requests
that met the detour, and says so.

Limits that the formulas state and that no document denies.  A library that a missing
library itself misses is never loaded, so that the bootstrap loop runs for ever on
a device where the chain of missing libraries is longer than one (`PreloadsHelp`).
It also does if no message of `dlopen` can be parsed, or only that of the `dlopen` by name
and `dlerror` keeps one buffer for both: the code reads the first message after the
second call (`hook_manager.cpp` 231, 250-253).  A discovery that outlives the process its
reader was opened for, or the service that was captured, may return any plausible number,
and so may one call that overtakes the reuse of a model's memory (`clean` in
`ResultWasThere`).

## 6. What the models leave out

Log lines and their sampling (with the call counters behind it), thread names,
`pthread_detach`, memory ordering weaker than sequential
consistency (the flags that order threads are sequentially consistent in the
code; the relaxed ones are settings and counters).  A `send` that a signal
interrupts counts as failing; a receiver that stops while it is the peer of a
connection resets or closes it as a TCP stack does.  In `HookManager` a feed
message is what was handed to `Publish`, delivered or not.

## 7. Not modelled

What could still be added: `Il2CppBootstrap` in place of `HookManager`'s `ArmBNM`.  The
step is taken as one that may never come, and `Il2CppBootstrap` says when it does; a
refinement from one to the other would add only that.

Three hazards of `PROJECT.json` have no property, because what decides about them is
not in this repository: the lifetime of the game's `RollService` as `TriggerRoll` uses it,
which copy of `libil2cpp.so` BNM works on, and what the small number at the end of a chain
of pointers means.

Not to be modelled: the vendored Zygisk header, the build and packaging scripts,
the template-matching helper and the tests: they keep no state of the running
system.

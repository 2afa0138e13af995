-------------------------- MODULE Il2CppBootstrap --------------------------
(***************************************************************************)
(* The loop of InitializeBNM (hook_manager.cpp 299-320): the bootstrap     *)
(* thread tries to arm BNM until it succeeds, with the symbols of a        *)
(* libil2cpp.so that the game has mapped, or with a handle of its own.     *)
(* HookManager has the whole loop as the one step ArmBNM.                  *)
(*                                                                         *)
(* The game maps libil2cpp.so at any moment, or never.  What the dynamic   *)
(* linker answers depends on the surroundings, which differ from device to *)
(* device and stay as they are:                                            *)
(*   near       the payload's linker namespace is the game's              *)
(*   findable   dlopen finds libil2cpp.so by its name                      *)
(*   permitted  ... and by its path                                        *)
(*   needs      which libraries a library needs                            *)
(*   found      the libraries it finds on its own search path              *)
(*   siblings   the libraries that lie beside libil2cpp.so                 *)
(*   tells      of which failing dlopen, by name or by path, the message   *)
(*              for a missing library names it when it is parsed           *)
(*   visible    the symbols of a mapped libil2cpp.so can be resolved       *)
(*   finder, dlfcn   BNM can work with the symbols, with a handle          *)
(*                                                                         *)
(* A step is one dlopen, one look into /proc/self/maps or one call of BNM. *)
(* The attempt counter is taken modulo FinderPeriod.                       *)
(*                                                                         *)
(* dlerror may use one buffer for all its messages: that of the dlopen by  *)
(* name is then gone when it is parsed, which is tells without "name".     *)
(***************************************************************************)
EXTENDS Naturals

CONSTANTS
  Il2Cpp,        \* libil2cpp.so
  Deps,          \* the libraries it may need
  None,          \* an error that names no library
  Surroundings,  \* the surroundings considered
  FinderPeriod   \* the users finder's turn comes every so many attempts (25)

Libraries == Deps \cup {Il2Cpp}
Surrounding ==
  [near : BOOLEAN, findable : BOOLEAN, permitted : BOOLEAN,
   needs : [Libraries -> SUBSET Deps],
   found : SUBSET Deps, siblings : SUBSET Deps, tells : SUBSET {"name", "path"},
   visible : BOOLEAN, finder : BOOLEAN, dlfcn : BOOLEAN]

ASSUME BootstrapAssumption ==
  /\ Il2Cpp \notin Deps /\ None \notin Libraries
  /\ Surroundings \subseteq Surrounding
  /\ FinderPeriod \in Nat \ {0, 1}

VARIABLES
  env,        \* the surroundings
  mapped,     \* the game has mapped libil2cpp.so
  loaded,     \* the libraries loaded in the payload's namespace
  pc,         \* of the bootstrap thread
  attempt,    \* 1..FinderPeriod
  missing,    \* the library that a failing dlopen has named last, or None
  preloaded   \* the libraries TryLoadSiblingLibrary has loaded

vars == <<env, mapped, loaded, pc, attempt, missing, preloaded>>

TypeOK ==
  /\ env \in Surroundings
  /\ mapped \in BOOLEAN
  /\ loaded \subseteq Libraries
  /\ pc \in {"finder", "nameNoload", "nameOpen", "maps", "pathNoload", "pathOpen",
             "preload", "retry", "handle", "sleep", "armed"}
  /\ attempt \in 1..FinderPeriod
  /\ missing \in Libraries \cup {None}
  /\ preloaded \subseteq Deps

Init ==
  /\ env \in Surroundings
  /\ mapped = FALSE
  /\ loaded = {}
  /\ pc = "finder"
  /\ attempt = 1
  /\ missing = None
  /\ preloaded = {}

-----------------------------------------------------------------------------
(* The game and the dynamic linker. *)

\* The game's own loader finds everything libil2cpp.so needs.
GameMapsIl2Cpp ==
  /\ ~mapped
  /\ mapped' = TRUE
  /\ loaded' = IF env.near THEN Libraries ELSE loaded
  /\ UNCHANGED <<env, pc, attempt, missing, preloaded>>

\* The libraries that dlopen has to have for a library: what it needs, what the
\* libraries need that dlopen finds for it, and so on - the least set closed under
\* that.
Closed(set, library) ==
  /\ library \in set
  /\ \A l \in set : l = library \/ l \in env.found => env.needs[l] \subseteq set
Reaches(library) ==
  {l \in Deps \ {library} : \A set \in SUBSET Libraries : Closed(set, library) => l \in set}

\* Those of them that it does not get.
Missing(library) == Reaches(library) \ (loaded \cup env.found)

Opens(library, allowed) == library \in loaded \/ (allowed /\ Missing(library) = {})
WithNeeds(library) == {library} \cup Reaches(library)

\* What ExtractMissingLibraryName makes of the message of a failing dlopen: one of
\* the missing libraries, the library itself where it cannot be reached, or nothing.
Names(by, allowed) ==
  IF ~allowed THEN {Il2Cpp, None}
  ELSE IF by \in env.tells THEN Missing(Il2Cpp) ELSE {None}

-----------------------------------------------------------------------------
(* TryBootstrapViaUsersFinder. *)

FinderTurn == attempt % FinderPeriod = 1

\* As if the symbols were looked up before the library is in the maps.
AssumedInMaps == TRUE
\* FindIl2CppPathFromMaps.
InMaps == mapped \/ Il2Cpp \in loaded

TryBootstrapViaUsersFinder ==
  /\ pc = "finder"
  /\ pc' = IF FinderTurn /\ InMaps /\ env.visible /\ env.finder
             THEN "armed" ELSE "nameNoload"
  /\ UNCHANGED <<env, mapped, loaded, attempt, missing, preloaded>>

-----------------------------------------------------------------------------
(* TryResolveIl2CppHandle. *)

\* dlopen with RTLD_NOLOAD.
NoLoad(from, otherwise) ==
  /\ pc = from
  /\ pc' = IF Il2Cpp \in loaded THEN "handle" ELSE otherwise
  /\ UNCHANGED <<env, mapped, loaded, attempt, missing, preloaded>>

NameNoLoad == NoLoad("nameNoload", "nameOpen")
PathNoLoad == NoLoad("pathNoload", "pathOpen")

OpenSucceeds(from, allowed) ==
  /\ pc = from
  /\ Opens(Il2Cpp, allowed)
  /\ loaded' = loaded \cup WithNeeds(Il2Cpp)
  /\ pc' = "handle"
  /\ UNCHANGED <<env, mapped, attempt, missing, preloaded>>

OpenFails(from, allowed, otherwise) ==
  /\ pc = from
  /\ ~Opens(Il2Cpp, allowed)
  /\ pc' = otherwise
  /\ UNCHANGED <<env, mapped, loaded, attempt, preloaded>>

\* As if the first message were kept from one attempt to the next.
FirstMessage(name) == IF missing = None THEN name ELSE missing
\* name_open_err: the message of this attempt.
NameMessage(name) == name

NameOpen ==
  \/ OpenSucceeds("nameOpen", env.findable)
  \/ /\ OpenFails("nameOpen", env.findable, "maps")
     /\ \E name \in Names("name", env.findable) : missing' = NameMessage(name)

\* If the message names nothing, name_open_err is parsed instead.
PathOpen ==
  \/ OpenSucceeds("pathOpen", env.permitted)
  \/ /\ OpenFails("pathOpen", env.permitted, "preload")
     /\ \E name \in Names("path", env.permitted) :
          missing' = IF name = None THEN missing ELSE name

FindIl2CppPathFromMaps ==
  /\ pc = "maps"
  /\ pc' = IF InMaps THEN "pathNoload" ELSE "sleep"
  /\ UNCHANGED <<env, mapped, loaded, attempt, missing, preloaded>>

\* As if a library were only opened, not kept.
PreloadAndDrop(library) == UNCHANGED <<loaded, preloaded>>
\* As if the sibling's path were the path of libil2cpp.so itself.
PreloadItself(library) ==
  loaded' = loaded \cup {Il2Cpp} /\ preloaded' = preloaded \cup {Il2Cpp}
Preload(library) ==
  loaded' = loaded \cup WithNeeds(library) /\ preloaded' = preloaded \cup {library}

\* Only one library is tried in an attempt; what it misses itself is logged and
\* forgotten.  (libil2cpp.so, where it is what has been named, has just failed.)
TryLoadSiblingLibrary ==
  /\ pc = "preload"
  /\ IF missing \in env.siblings /\ Opens(missing, env.permitted)
       THEN Preload(missing) /\ pc' = "retry"
       ELSE pc' = "sleep" /\ UNCHANGED <<loaded, preloaded>>
  /\ UNCHANGED <<env, mapped, attempt, missing>>

RetryPathOpen ==
  \/ OpenSucceeds("retry", env.permitted)
  \/ OpenFails("retry", env.permitted, "sleep") /\ UNCHANGED missing

-----------------------------------------------------------------------------
(* The loop. *)

TryLoadByDlfcnHandle ==
  /\ pc = "handle"
  /\ pc' = IF env.dlfcn THEN "armed" ELSE "sleep"
  /\ UNCHANGED <<env, mapped, loaded, attempt, missing, preloaded>>

NextAttempt ==
  /\ pc = "sleep"
  /\ attempt' = (attempt % FinderPeriod) + 1
  /\ pc' = "finder"
  /\ UNCHANGED <<env, mapped, loaded, missing, preloaded>>

Bootstrap ==
  \/ TryBootstrapViaUsersFinder
  \/ NameNoLoad \/ NameOpen
  \/ FindIl2CppPathFromMaps \/ PathNoLoad \/ PathOpen
  \/ TryLoadSiblingLibrary \/ RetryPathOpen
  \/ TryLoadByDlfcnHandle
  \/ NextAttempt

Next == GameMapsIl2Cpp \/ Bootstrap

Spec == Init /\ [][Next]_vars /\ WF_vars(Bootstrap)

-----------------------------------------------------------------------------
\* BNM is armed only when there is a libil2cpp.so in the process, the game's or
\* one that the payload has loaded itself (hook_manager.cpp 186-189, 307-311).
NeverArmsEarly == pc = "armed" => mapped \/ Il2Cpp \in loaded

\* What the payload preloads is, when it does, a library for want of which dlopen
\* cannot load libil2cpp.so (hook_manager.cpp 250-255): no library that has come
\* since its name was heard, by the game's loading or an earlier preload, and none
\* out of the message of an earlier attempt.
PreloadsWhatIsMissing ==
  [][pc = "preload" /\ pc' = "retry" =>
       \E library \in Missing(Il2Cpp) : preloaded' = preloaded \cup {library}]_vars

\* A handle can be had: by name, or by path once the missing libraries, none of
\* which misses another, are named and loaded one by one.
PreloadsHelp ==
  /\ env.permitted
  /\ "path" \in env.tells \/ (env.findable /\ "name" \in env.tells)
  /\ \A library \in Missing(Il2Cpp) : library \in env.siblings /\ Missing(library) = {}
HandleIsPossible ==
  \/ env.near
  \/ (env.findable \/ env.permitted) /\ Missing(Il2Cpp) = {}
  \/ PreloadsHelp
ArmingIsPossible ==
  (env.visible /\ env.finder) \/ (env.dlfcn /\ HandleIsPossible)

\* Once the game has mapped libil2cpp.so, the loop arms BNM on every device on
\* which one of the two ways works, however late the library comes, whichever
\* turn the attempt counter is at and however many libraries are missing, behind
\* libraries that dlopen finds too - if none of the missing misses another (of that
\* one the loop never hears) and if a message that names them can be parsed.
ArmsWhenPossible == mapped /\ ArmingIsPossible ~> pc = "armed"
=============================================================================

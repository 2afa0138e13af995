---------------------------- MODULE ZygiskLoader ----------------------------
(***************************************************************************)
(* The Zygisk module (zygisk_loader.cpp) in one process forked from        *)
(* zygote: before the process is specialized it decides from the process's *)
(* name whether to inject, after it, with the app's own rights, it loads   *)
(* the payload.  Every process has a module object, and a state, of its    *)
(* own.                                                                    *)
(*                                                                         *)
(* A name is a sequence of characters; the terminating zero is its end.    *)
(* dlopen is two steps, because the payload's constructor runs between     *)
(* them (module PayloadStart).                                             *)
(***************************************************************************)
EXTENDS Naturals, Sequences

CONSTANTS
  Character,
  Package,  \* kTargetPackage
  Colon,    \* the character ':'
  NoName,   \* no process name (nullptr)
  Names     \* the names considered, NoName among them or not

ASSUME LoaderAssumption ==
  /\ Package \in Seq(Character) \ {<<>>} /\ Colon \in Character
  /\ NoName \notin Seq(Character) /\ Names \subseteq Seq(Character) \cup {NoName}

VARIABLES
  nice_name,      \* the name the process will have
  should_inject_,
  loader,         \* where the module is
  closing         \* DLCLOSE_MODULE_LIBRARY is set

loaderVars == <<nice_name, should_inject_, loader, closing>>

\* "failed" and "injected" are the ends of postAppSpecialize that have tried.
LoaderTypeOK ==
  /\ nice_name \in Names
  /\ should_inject_ \in BOOLEAN
  /\ loader \in {"pre", "post", "access", "dlopen", "idle", "failed", "injected"}
  /\ closing \in BOOLEAN

LoaderInit ==
  /\ nice_name \in Names
  /\ should_inject_ = FALSE
  /\ loader = "pre"
  /\ closing = FALSE

\* strncmp with the package's length: a shorter name differs at its end.
HasPrefix(name) ==
  Len(name) >= Len(Package) /\ SubSeq(name, 1, Len(Package)) = Package

\* As if the comparison with the package's length were all.
IsTargetPrefix(name) == name # NoName /\ HasPrefix(name)
IsTargetProcess(name) ==
  /\ name # NoName
  /\ HasPrefix(name)
  /\ Len(name) = Len(Package) \/ name[Len(Package) + 1] = Colon

\* As if the option were set for every process, the target included.
CloseAlways(inject) == TRUE
\* preAppSpecialize sets the option where there is nothing to come back for.
CloseBefore(inject) == ~inject

PreAppSpecialize ==
  /\ loader = "pre"
  /\ should_inject_' = IsTargetProcess(nice_name)
  /\ closing' = CloseBefore(IsTargetProcess(nice_name))
  /\ loader' = "post"
  /\ UNCHANGED nice_name

PostAppSpecialize ==
  /\ loader = "post"
  /\ loader' = IF should_inject_ THEN "access" ELSE "idle"
  /\ UNCHANGED <<nice_name, should_inject_, closing>>

\* The file cannot be read with the app's rights, or it can.
AccessPayload ==
  /\ loader = "access"
  /\ loader' \in {"failed", "dlopen"}
  /\ UNCHANGED <<nice_name, should_inject_, closing>>

\* dlopen fails before it runs the constructor: not a library, or one that needs
\* what is not there.
DlopenFails ==
  /\ loader = "dlopen"
  /\ loader' = "failed"
  /\ UNCHANGED <<nice_name, should_inject_, closing>>

DlopenReturns ==
  /\ loader = "dlopen"
  /\ loader' = "injected"
  /\ closing' = TRUE
  /\ UNCHANGED <<nice_name, should_inject_>>

LoaderNext ==
  \/ PreAppSpecialize
  \/ PostAppSpecialize \/ AccessPayload
  \/ DlopenFails \/ DlopenReturns

LoaderSpec == LoaderInit /\ [][LoaderNext]_loaderVars

-----------------------------------------------------------------------------
\* The processes the payload is for: the game's and those it declares with a
\* suffix of their own ("process-targeted payload injection", README.md 16).
IsGameName(name) ==
  \/ name = Package
  \/ /\ name # NoName
     /\ \E n \in 1..Len(name) :
          name = Package \o <<Colon>> \o SubSeq(name, n + 1, Len(name))
=============================================================================

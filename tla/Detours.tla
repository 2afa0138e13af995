------------------------------- MODULE Detours -------------------------------
(***************************************************************************)
(* What the game runs instead of its own methods: the detours of           *)
(* jail_hook.cpp, coinflip_hook.cpp, pickups_hook.cpp, chance_hook.cpp and *)
(* of TophatClientActionsFlusher.Update, while HookInstall makes them live *)
(* one by one.  All have one shape - publish, or not; call the original,   *)
(* if there is one; publish, or not; return - and differ in what           *)
(* Publication says.  The detours of RollService and of Time do more and   *)
(* have modules of their own.                                              *)
(*                                                                         *)
(* Call counters serve only the sampling of log lines and are left out, as *)
(* are the texts of the messages: the feed is the sequence of the calls    *)
(* that were announced.                                                    *)
(***************************************************************************)
EXTENDS HookInstall

CONSTANTS
  Threads,       \* the game's threads
  Animations,    \* the animation states the game changes to
  MaxCalls       \* bound: calls of hooked methods

ASSUME DetourAssumption == MaxCalls \in Nat

PublishedFirst == {
  "EscapeJailService.OnRollButtonPressed", "EscapeJailService.SetState",
  "CoinFlipService.TryFlip",
  "BoardPickupsService.TriggerOnLandHandler", "PickupHandler.AwardPickupContents",
  "CardHandler.DrawCard"}

\* Flipping, ResolveFlip, Rewarding, Unlucky, Success.
AnnouncedAnimations == {3, 4, 5, 9, 10}

\* When a detour announces a call, relative to the original.
Publication(method, arg) ==
  CASE method \in PublishedFirst -> "before"
    [] method = "CoinFlipService.ChangeAnimationState" /\ arg \in AnnouncedAnimations -> "before"
    [] method = "EscapeJailService.BeginRoll" -> "after"
    [] OTHER -> "none"

\* The argument that decides about an announcement; the others do not matter.
Arguments(method) ==
  IF method = "CoinFlipService.ChangeAnimationState" THEN Animations ELSE {0}

VARIABLES
  patched,  \* hooks whose method jumps to its detour
  calls,    \* every call of a hooked method, in the order of their beginnings
  feed      \* the calls announced, in the order of their announcements

gameVars == <<calls, feed>>
detourVars == <<vars, patched, gameVars>>

\* within: the calls it is made from, the thread's stack when it began.
\* entry: the outcome of its hook when it began, or "unhooked".
\* assured: it began after the verdict "success".  runs: of the original.
Places == {"publish", "test", "original", "announce", "done"}
CallType ==
  [thread : Threads, hook : HookIds, arg : Animations \cup {0}, within : SUBSET (1..MaxCalls), at : Places,
   entry : Outcomes \cup {"unhooked"}, assured : BOOLEAN, runs : {0, 1}]

DetourTypeOK ==
  /\ TypeOK
  /\ patched \subseteq HookIds
  /\ calls \in Seq(CallType) /\ Len(calls) <= MaxCalls
  /\ feed \in Seq(1..Len(calls))

DetourInit ==
  /\ Init
  /\ patched = {}
  /\ calls = <<>>
  /\ feed = <<>>

Told(i) == Publication(Table[calls[i].hook[1]][calls[i].hook[2]].method, calls[i].arg)

-----------------------------------------------------------------------------
(* The installation, beside the calls. *)

AtHook == phase = "running" /\ pc = "hook"

\* DobbyHook may patch the method before it has written the original, or both
\* at once; when it fails it has not patched.
DobbyPatches ==
  /\ AtHook /\ <<group, hook>> \notin patched
  /\ patched' = patched \cup {<<group, hook>>}
  /\ UNCHANGED <<vars, gameVars>>

InstallStep ==
  /\ Install
  /\ AtHook /\ <<group, hook>> \in patched => outcome'[<<group, hook>>] # "failed"
  /\ patched' = patched \cup {id \in HookIds : outcome'[id] \in {"live", "orphan"}}
  /\ UNCHANGED gameVars

GameLoadsImage ==
  /\ \E image \in Images : LoadImage(image)
  /\ UNCHANGED <<patched, gameVars>>

-----------------------------------------------------------------------------
(* A call. *)

Unfinished(t) == {i \in DOMAIN calls : calls[i].thread = t /\ calls[i].at # "done"}
\* A thread is in the last call it has begun and not finished.
Innermost(t, i) == i \in Unfinished(t) /\ \A j \in Unfinished(t) : j <= i

FirstPlace(when) == IF when = "before" THEN "publish" ELSE "test"

\* The game calls a hooked method, from its own code or from within another
\* hooked method's original.  A method that is not patched is the original.
Call(t, id, arg) ==
  /\ Len(calls) < MaxCalls
  /\ Table[id[1]][id[2]].image \in images
  /\ \A i \in Unfinished(t) : calls[i].at = "original"
  /\ calls' = Append(calls,
       [thread |-> t, hook |-> id, arg |-> arg, within |-> Unfinished(t),
        at |-> IF id \in patched
                 THEN FirstPlace(Publication(Table[id[1]][id[2]].method, arg))
                 ELSE "original",
        entry |-> IF id \in patched THEN outcome[id] ELSE "unhooked",
        assured |-> phase = "success",
        runs |-> IF id \in patched THEN 0 ELSE 1])
  /\ UNCHANGED <<vars, patched, feed>>

Goto(i, place) == calls' = [calls EXCEPT ![i].at = place]

\* As if every announcement were made once more at the end.
LastPlaceAgain(i) == IF Told(i) = "none" THEN "done" ELSE "announce"
\* After the original, or instead of it.
LastPlace(i) == IF Told(i) = "after" THEN "announce" ELSE "done"

PublishBefore(i) ==
  /\ calls[i].at = "publish"
  /\ feed' = Append(feed, i)
  /\ Goto(i, "test")
  /\ UNCHANGED <<vars, patched>>

\* As if the original's result were not enough and it were called again.
AfterOriginalAgain(i) == IF calls[i].entry = "live" THEN "test" ELSE LastPlace(i)
AfterOriginal(i) == IF calls[i].entry = "unhooked" THEN "done" ELSE LastPlace(i)

\* As if a group's Install() stored its originals when it is over.
HasOriginalLate(i) ==
  outcome[calls[i].hook] = "live" /\ installs[calls[i].hook[1]] = 1
\* `Originals::X != nullptr`.
HasOriginal(i) == outcome[calls[i].hook] = "live"

\* Without an original the caller gets nullptr, 0 or false.  The pointer is
\* written once, so that what is tested still holds when it is called.
TestOriginal(i) ==
  /\ calls[i].at = "test"
  /\ \/ /\ HasOriginal(i)
        /\ calls' = [calls EXCEPT ![i].at = "original", ![i].runs = @ + 1]
     \/ /\ ~HasOriginal(i)
        /\ Goto(i, LastPlace(i))
  /\ UNCHANGED <<vars, patched, feed>>

OriginalReturns(i) ==
  /\ calls[i].at = "original"
  /\ Goto(i, AfterOriginal(i))
  /\ UNCHANGED <<vars, patched, feed>>

PublishAfter(i) ==
  /\ calls[i].at = "announce"
  /\ feed' = Append(feed, i)
  /\ Goto(i, "done")
  /\ UNCHANGED <<vars, patched>>

Step(i) == PublishBefore(i) \/ TestOriginal(i) \/ OriginalReturns(i) \/ PublishAfter(i)

-----------------------------------------------------------------------------
DetourNext ==
  \/ DobbyPatches
  \/ InstallStep
  \/ GameLoadsImage
  \/ \E t \in Threads :
       \/ \E id \in HookIds :
            \E arg \in Arguments(Table[id[1]][id[2]].method) : Call(t, id, arg)
       \/ \E i \in DOMAIN calls : Innermost(t, i) /\ Step(i)

DetourSpec == DetourInit /\ [][DetourNext]_detourVars

-----------------------------------------------------------------------------
\* The detours change nothing (README.md 142: they call the original): every
\* call of the game runs the original, and not twice - but for the calls that
\* found a detour without an original, before DobbyHook was finished with it
\* or for ever, because DobbyHook left none ("Hook installed ... but original
\* is null", hook_manager.cpp 440).
NothingElseSwallowed ==
  \A i \in DOMAIN calls :
    calls[i].at = "done" =>
      \/ calls[i].runs = 1
      \/ calls[i].runs = 0 /\ calls[i].entry \in {"pending", "orphan"}

TimesTold(i) == Cardinality({k \in DOMAIN feed : feed[k] = i})

\* What a reader of the feed may conclude from hook_install_success, whatever
\* happens to the optional hooks: from then on every call of a required hook's
\* method runs its original and is announced, once, if its kind ever is.
SuccessIsComplete ==
  \A i \in DOMAIN calls :
    /\ calls[i].at = "done"
    /\ calls[i].assured /\ calls[i].hook \in RequiredHooks
    => /\ calls[i].runs = 1
       /\ TimesTold(i) = IF Told(i) = "none" THEN 0 ELSE 1

\* The feed of one thread follows its calls: what is announced first of two
\* calls began first, unless one is made from within the other - then a roll of
\* the jail, announced when it is over, comes after what it contains, and every
\* other call before.
FeedFollowsCalls ==
  \A m, n \in DOMAIN feed :
    m < n /\ calls[feed[m]].thread = calls[feed[n]].thread =>
      LET first == feed[m]
          second == feed[n]
      IN \/ second \in calls[first].within /\ Told(second) = "after"
         \/ first < second /\ (first \in calls[second].within => Told(first) = "before")
=============================================================================

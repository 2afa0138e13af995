------------------------------ MODULE SpeedHook ------------------------------
(***************************************************************************)
(* The detours of UnityEngine.Time.set_timeScale and get_timeScale         *)
(* (hooks/speed_hook.cpp), called on Unity's main thread, and the control  *)
(* functions that any other thread may call beside it.  Install() tries    *)
(* the first hook and then the second, and either may fail.  (A detour     *)
(* that is live without an original behind it is in Detours.)              *)
(*                                                                         *)
(* Floats are fixed-point integers with 1.0 written as One; the products   *)
(* are assumed to be exact, so that rounding plays no part.                *)
(***************************************************************************)
EXTENDS Integers, Sequences

CONSTANTS
  One,          \* 1.0f
  Values,       \* what the game passes to set_timeScale
  Multipliers,  \* what SetSpeedMultiplier is called with
  MaxCalls,     \* bound: calls of set_timeScale
  MaxControls   \* bound: calls of the control functions

ASSUME SpeedAssumption ==
  /\ One \in Nat \ {0}
  /\ Values \subseteq Int /\ Multipliers \subseteq Int
  /\ MaxCalls \in Nat /\ MaxControls \in Nat

ASSUME ExactAssumption ==
  \A v \in Values, m \in Multipliers \cup {2 * One} : (v * m) % One = 0

VARIABLES
  g_speed_multiplier,            \* g_speed_multiplier_bits
  g_speed_modification_enabled,
  g_last_set,                    \* g_last_set_bits
  installed,                     \* how many hooks Install() has tried
  setLive, getLive,              \* the detours it has made live
  timeScale,                     \* the engine's time scale
  pc, value, modified, changed,  \* the main thread: where it is, its locals
  returned,                      \* what get_timeScale returned last
  calls, controls,
  feed,                          \* the pairs published as "speed:scale=a->b"
  requested,                     \* history: the last value the game set
  steady,                        \* history: since then nothing else has changed
  met,                           \* history: the requests that met the live detour
  named                          \* history: which of them the feed names

settings == <<g_speed_multiplier, g_speed_modification_enabled>>
hooks == <<installed, setLive, getLive>>
locals == <<value, modified, changed>>
publications == <<feed, named>>
vars == <<settings, g_last_set, hooks, timeScale, pc, locals, returned, calls, controls,
          publications, requested, steady, met>>

TypeOK ==
  /\ g_speed_multiplier \in Multipliers \cup {2 * One}
  /\ g_speed_modification_enabled \in BOOLEAN
  /\ g_last_set \in Values \cup {One}
  /\ installed \in 0..2 /\ setLive \in BOOLEAN /\ getLive \in BOOLEAN
  /\ timeScale \in Values \cup {One} \cup 0..(10 * One)
  /\ modified \in Values \cup 0..(10 * One)
  /\ value \in Int /\ returned \in Int
  /\ pc \in {"idle", "scale", "publish", "set", "getEnabled", "unscale"}
  /\ changed \in BOOLEAN
  /\ calls \in 0..MaxCalls /\ controls \in 0..MaxControls
  /\ Len(met) <= calls /\ Len(feed) <= Len(met)
  /\ requested \in Values \cup {One}
  /\ steady \in BOOLEAN

Init ==
  /\ g_speed_multiplier = 2 * One
  /\ g_speed_modification_enabled = TRUE
  /\ g_last_set = One
  /\ installed = 0 /\ setLive = FALSE /\ getLive = FALSE
  /\ timeScale = One
  /\ pc = "idle"
  /\ value = 0 /\ modified = 0 /\ changed = FALSE
  /\ returned = One
  /\ calls = 0 /\ controls = 0
  /\ feed = <<>> /\ met = <<>> /\ named = <<>>
  /\ requested = One
  /\ steady = FALSE

-----------------------------------------------------------------------------
(* Install() and the control functions, on other threads. *)

Install ==
  /\ installed < 2
  /\ installed' = installed + 1
  /\ IF installed = 0
       THEN setLive' \in BOOLEAN /\ UNCHANGED getLive
       ELSE getLive' \in BOOLEAN /\ UNCHANGED setLive
  /\ steady' = FALSE
  /\ UNCHANGED <<settings, g_last_set, timeScale, pc, locals, returned, calls, controls,
                 publications, requested, met>>

SetSpeedMultiplier(multiplier) ==
  /\ controls < MaxControls
  /\ controls' = controls + 1
  /\ g_speed_multiplier' = multiplier
  /\ steady' = FALSE
  /\ UNCHANGED <<g_speed_modification_enabled, g_last_set, hooks, timeScale, pc, locals,
                 returned, calls, publications, requested, met>>

EnableSpeedModification(enabled) ==
  /\ controls < MaxControls
  /\ controls' = controls + 1
  /\ g_speed_modification_enabled' = enabled
  /\ steady' = FALSE
  /\ UNCHANGED <<g_speed_multiplier, g_last_set, hooks, timeScale, pc, locals, returned,
                 calls, publications, requested, met>>

-----------------------------------------------------------------------------
(* set_timeScale. *)

\* As if a change were a change of the engine's scale.
ChangedScale(v) == timeScale # v
\* last_value != value, with the last value exchanged in the same step.
Changed(v) == g_last_set # v

\* The game sets the time scale; before the hook is live, the engine does.
SetTimeScale(v) ==
  /\ pc = "idle"
  /\ calls < MaxCalls
  /\ calls' = calls + 1
  /\ requested' = v
  /\ steady' = (setLive /\ getLive)
  /\ IF setLive
       THEN /\ value' = v
            /\ modified' = v
            /\ changed' = Changed(v)
            /\ g_last_set' = v
            /\ met' = Append(met, v)
            /\ pc' = IF g_speed_modification_enabled THEN "scale" ELSE "publish"
            /\ UNCHANGED timeScale
       ELSE /\ timeScale' = v
            /\ UNCHANGED <<pc, locals, g_last_set, met>>
  /\ UNCHANGED <<settings, hooks, returned, controls, publications>>

\* As if the upper bound were missing.
ClampBelow(scale) == IF scale < 0 THEN 0 ELSE scale
Clamp(scale) == IF scale < 0 THEN 0 ELSE IF scale > 10 * One THEN 10 * One ELSE scale

Scale ==
  /\ pc = "scale"
  /\ modified' = Clamp((value * g_speed_multiplier) \div One)
  /\ pc' = "publish"
  /\ UNCHANGED <<settings, g_last_set, hooks, timeScale, value, changed, returned, calls,
                 controls, publications, requested, steady, met>>

PublishScale ==
  /\ pc = "publish"
  /\ IF changed
       THEN feed' = Append(feed, <<value, modified>>) /\ named' = Append(named, Len(met))
       ELSE UNCHANGED publications
  /\ pc' = "set"
  /\ UNCHANGED <<settings, g_last_set, hooks, timeScale, locals, returned, calls, controls,
                 requested, steady, met>>

OriginalSet ==
  /\ pc = "set"
  /\ timeScale' = modified
  /\ pc' = "idle"
  /\ UNCHANGED <<settings, g_last_set, hooks, locals, returned, calls, controls, publications,
                 requested, steady, met>>

-----------------------------------------------------------------------------
(* get_timeScale: the original first, then the two settings. *)

GetTimeScale ==
  /\ pc = "idle"
  /\ IF getLive
       THEN value' = timeScale /\ pc' = "getEnabled" /\ UNCHANGED returned
       ELSE returned' = timeScale /\ UNCHANGED <<value, pc>>
  /\ UNCHANGED <<settings, g_last_set, hooks, timeScale, modified, changed, calls, controls,
                 publications, requested, steady, met>>

\* As if the division did not depend on the switch.
UnscaleAlways == TRUE
Unscales == g_speed_modification_enabled

GetEnabled ==
  /\ pc = "getEnabled"
  /\ IF Unscales
       THEN pc' = "unscale" /\ UNCHANGED returned
       ELSE pc' = "idle" /\ returned' = value
  /\ UNCHANGED <<settings, g_last_set, hooks, timeScale, locals, calls, controls, publications,
                 requested, steady, met>>

\* multiplier > 0.0001f
Divides(multiplier) == multiplier * 10000 > One

Unscale ==
  /\ pc = "unscale"
  /\ returned' = IF Divides(g_speed_multiplier)
                   THEN (value * One) \div g_speed_multiplier
                   ELSE value
  /\ pc' = "idle"
  /\ UNCHANGED <<settings, g_last_set, hooks, timeScale, locals, calls, controls, publications,
                 requested, steady, met>>

Next ==
  \/ Install
  \/ \E m \in Multipliers : SetSpeedMultiplier(m)
  \/ \E enabled \in BOOLEAN : EnableSpeedModification(enabled)
  \/ \E v \in Values : SetTimeScale(v)
  \/ Scale
  \/ PublishScale
  \/ OriginalSet
  \/ GetTimeScale
  \/ GetEnabled
  \/ Unscale

Spec == Init /\ [][Next]_vars

-----------------------------------------------------------------------------
\* The step by which a get_timeScale call of the game returns.
GetReturns == \/ pc = "idle" /\ GetTimeScale /\ pc' = "idle"
              \/ GetEnabled /\ pc' = "idle"
              \/ Unscale

\* The scale that the settings make of a request stays between 0 and 10, and
\* there is a multiplier to divide by.
Invertible ==
  g_speed_modification_enabled =>
    Divides(g_speed_multiplier) /\ requested * g_speed_multiplier \in 0..(10 * One * One)

\* If both detours are live and no setting changed since the game set the time
\* scale, the game reads back what it set, with modification on or off - unless
\* the clamp or a multiplier of zero cannot be undone.
RoundTripWhenSteady ==
  [][GetReturns /\ steady /\ Invertible => returned' = requested]_vars

\* "The stored timeScale is already (original_input * multiplier) because
\* set_timeScale applied the multiplier when it was set." (speed_hook.cpp 76-77):
\* with the settings left alone, every get_timeScale detour finds it so.
StoredIsScaled ==
  [][GetReturns /\ getLive /\ controls = 0 /\ Invertible => returned' = requested]_vars

\* The k-th request that met the detour differs from the one that met it before,
\* the first from 1.0.
IsChange(k) == met[k] # (IF k = 1 THEN One ELSE met[k - 1])

\* The requests that the detour has done with as far as the feed goes.
Done == 1..(IF pc \in {"scale", "publish"} THEN Len(met) - 1 ELSE Len(met))

\* Of the requests that met the live detour the feed names, in their order and once
\* each, those that differ from the one before, and no other.  A request made
\* before the hook was live does not count: the first one after it is
\* compared with 1.0, whatever the game had set earlier (speed_hook.cpp 30), so that
\* a change may go unnamed there and a repetition be named.
FeedTracksRequests ==
  /\ Len(named) = Len(feed)
  /\ \A i \in 1..Len(feed) : feed[i][1] = met[named[i]]
  /\ \A i, j \in 1..Len(named) : i < j => named[i] < named[j]
  /\ {named[i] : i \in 1..Len(named)} = {k \in Done : IsChange(k)}
=============================================================================

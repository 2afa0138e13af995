--------------------------- MODULE SpeedHookProofs ---------------------------
(***************************************************************************)
(* Theorems about SpeedHook, for any number of calls and any time scales   *)
(* and multipliers; that the products are exact is needed for ReadsBack    *)
(* alone.                                                                  *)
(***************************************************************************)
EXTENDS SpeedHook, TLAPS

-----------------------------------------------------------------------------
(* The inductive invariant. *)

Pairs == Int \X Int

\* Between the exchange of the last value and the publication the detour's
\* locals say what the feed lacks, and there is room for it.
Pending ==
  pc \in {"scale", "publish"} =>
    /\ met # <<>> /\ value = met[Len(met)]
    /\ changed <=> IsChange(Len(met))
    /\ Len(feed) < Len(met)

\* The last value is that of the last request that met the detour.
Remembered == g_last_set = (IF met = <<>> THEN One ELSE met[Len(met)])

Sequences == feed \in Seq(Pairs) /\ met \in Seq(Values) /\ named \in Seq(Nat)

SpeedInv == TypeOK /\ Sequences /\ Pending /\ Remembered /\ FeedTracksRequests

-----------------------------------------------------------------------------
\* The scaled and clamped value is in the engine's range.
LEMMA ClampTyped ==
  ASSUME NEW v \in Int, NEW m \in Int
  PROVE  Clamp((v * m) \div One) \in 0..(10 * One)
<1>1. v * m \in Int OBVIOUS
<1> DEFINE p == v * m
<1> HIDE DEF p
<1>2. p \in Int BY <1>1 DEF p
<1>3. p \div One \in Int BY <1>2, SpeedAssumption
<1>4. Clamp(p \div One) \in 0..(10 * One) BY <1>3, SpeedAssumption DEF Clamp
<1> QED BY <1>4 DEF p

\* A step that leaves the feed, the last value and the requests alone, outside of
\* the span between exchange and publication or within it.
LEMMA QuietStep ==
  ASSUME SpeedInv, TypeOK', UNCHANGED <<g_last_set, feed, named, met>>,
         \/ pc' \notin {"scale", "publish"} /\ pc \notin {"scale", "publish"}
         \/ /\ pc \in {"scale", "publish"} /\ pc' \in {"scale", "publish"}
            /\ value' = value /\ changed' = changed
  PROVE  SpeedInv'
<1>1. Done' = Done BY DEF Done
<1>2. ASSUME NEW k PROVE IsChange(k)' <=> IsChange(k) BY DEF IsChange
<1>3. FeedTracksRequests'
  <2>1. /\ Len(named') = Len(feed')
        /\ \A i \in 1..Len(feed') : feed'[i][1] = met'[named'[i]]
        /\ \A i, j \in 1..Len(named') : i < j => named'[i] < named'[j]
    BY DEF SpeedInv, FeedTracksRequests
  <2>2. {named'[i] : i \in 1..Len(named')} = {k \in Done' : IsChange(k)'}
    BY <1>1, <1>2 DEF SpeedInv, FeedTracksRequests
  <2> QED BY <2>1, <2>2 DEF FeedTracksRequests
<1>4. IsChange(Len(met))' <=> IsChange(Len(met)) BY DEF IsChange
<1>5. Pending' BY <1>4 DEF SpeedInv, Pending
<1>6. Sequences' /\ Remembered' BY DEF SpeedInv, Sequences, Remembered
<1> QED BY <1>3, <1>5, <1>6 DEF SpeedInv

\* The detours become live, the settings change.
LEMMA ControlStep ==
  ASSUME SpeedInv,
         \/ Install
         \/ \E m \in Multipliers : SetSpeedMultiplier(m)
         \/ \E enabled \in BOOLEAN : EnableSpeedModification(enabled)
  PROVE  SpeedInv'
<1>1. /\ UNCHANGED <<g_last_set, timeScale, pc, value, modified, changed, returned, calls, feed,
                     named, met, requested>>
      /\ steady' = FALSE
  BY DEF Install, SetSpeedMultiplier, EnableSpeedModification, settings, hooks, locals,
         publications
<1>2. setLive' \in BOOLEAN /\ getLive' \in BOOLEAN
  BY DEF Install, SetSpeedMultiplier, EnableSpeedModification, hooks, SpeedInv, TypeOK
<1>3. g_speed_multiplier' \in Multipliers \cup {2 * One}
      /\ g_speed_modification_enabled' \in BOOLEAN
  BY DEF Install, SetSpeedMultiplier, EnableSpeedModification, settings, SpeedInv, TypeOK
<1>4. controls' \in 0..MaxControls
  <2>1. \/ controls' = controls
        \/ controls < MaxControls /\ controls' = controls + 1
    BY DEF Install, SetSpeedMultiplier, EnableSpeedModification
  <2> QED BY <2>1, SpeedAssumption DEF SpeedInv, TypeOK
<1>5. installed' \in 0..2
  <2>1. installed' = installed \/ (installed < 2 /\ installed' = installed + 1)
    BY DEF Install, SetSpeedMultiplier, EnableSpeedModification, hooks
  <2> QED BY <2>1 DEF SpeedInv, TypeOK
<1>6. TypeOK' BY <1>1, <1>2, <1>3, <1>4, <1>5 DEF SpeedInv, TypeOK
<1> QED BY <1>1, <1>6, QuietStep

\* The game sets the time scale: the last value is exchanged and compared.
LEMMA SetStep ==
  ASSUME SpeedInv, NEW v \in Values, SetTimeScale(v)
  PROVE  SpeedInv'
<1>1. /\ pc = "idle" /\ calls < MaxCalls /\ calls' = calls + 1
      /\ requested' = v /\ steady' = (setLive /\ getLive)
      /\ UNCHANGED <<g_speed_multiplier, g_speed_modification_enabled, installed, setLive,
                     getLive, returned, controls, feed, named>>
  BY DEF SetTimeScale, settings, hooks, publications
<1>2. /\ calls \in 0..MaxCalls /\ MaxCalls \in Nat /\ v \in Int
      /\ met \in Seq(Values) /\ feed \in Seq(Pairs) /\ named \in Seq(Nat)
      /\ Len(met) \in Nat /\ Len(feed) \in Nat /\ Len(met) <= calls /\ Len(feed) <= Len(met)
  BY SpeedAssumption DEF SpeedInv, TypeOK, Sequences
<1>3. calls' \in 0..MaxCalls /\ Len(met) < calls' BY <1>1, <1>2
<1>4. steady' \in BOOLEAN BY <1>1, Zenon
<1>5. CASE setLive
  <2>1. /\ value' = v /\ modified' = v /\ changed' = (g_last_set # v) /\ g_last_set' = v
        /\ met' = Append(met, v)
        /\ pc' \in {"scale", "publish"} /\ timeScale' = timeScale
    BY <1>5 DEF SetTimeScale, Changed
  <2>2. /\ met' \in Seq(Values) /\ Len(met') = Len(met) + 1
        /\ met'[Len(met) + 1] = v
        /\ \A k \in 1..Len(met) : met'[k] = met[k]
    BY <1>2, <2>1
  <2>3. changed' \in BOOLEAN BY <2>1, Zenon
  <2>4. TypeOK'
    <3>1. Len(met') <= calls' /\ Len(feed') <= Len(met') BY <1>1, <1>2, <1>3, <2>2
    <3> QED BY <1>1, <1>2, <1>3, <1>4, <2>1, <2>3, <3>1 DEF SpeedInv, TypeOK
  <2>5. met' # <<>> BY <1>2, <2>2
  <2>6. Pending'
    <3>1. g_last_set = IF met = <<>> THEN One ELSE met[Len(met)]
      BY DEF SpeedInv, Remembered
    <3>2. met = <<>> <=> Len(met) + 1 = 1 BY <1>2
    <3>3. met # <<>> => Len(met) \in 1..Len(met) /\ (Len(met) + 1) - 1 = Len(met)
      BY <1>2, <3>2
    <3>4. PICK n : n = Len(met) + 1 OBVIOUS
    <3>5. met'[n] # (IF n = 1 THEN One ELSE met'[n - 1]) <=> g_last_set # v
      <4>1. CASE met = <<>> BY <2>2, <3>1, <3>2, <3>4, <4>1
      <4>2. CASE met # <<>> BY <2>2, <3>1, <3>2, <3>3, <3>4, <4>2
      <4> QED BY <4>1, <4>2
    <3>6. changed' <=> met'[Len(met')] # (IF Len(met') = 1 THEN One ELSE met'[Len(met') - 1])
      BY <2>1, <2>2, <3>4, <3>5
    <3>7. changed' <=> IsChange(Len(met))' BY <3>6 DEF IsChange
    <3>8. Len(feed') < Len(met') BY <1>1, <1>2, <2>2
    <3>9. value' = met'[Len(met')] BY <2>1, <2>2
    <3> QED BY <2>5, <3>7, <3>8, <3>9 DEF Pending
  <2>7. Remembered' BY <2>1, <2>2, <2>5 DEF Remembered
  <2>8. FeedTracksRequests'
    <3>1. Done = 1..Len(met) /\ Done' = 1..Len(met) BY <1>1, <1>2, <2>1, <2>2 DEF Done
    <3>2. ASSUME NEW k \in 1..Len(met) PROVE IsChange(k)' <=> IsChange(k)
      <4>1. k # 1 => k - 1 \in 1..Len(met) BY <1>2, <3>2
      <4> QED BY <2>2, <3>2, <4>1 DEF IsChange
    <3>3. {k \in Done' : IsChange(k)'} = {k \in Done : IsChange(k)} BY <3>1, <3>2
    <3>4. ASSUME NEW i \in 1..Len(feed) PROVE met'[named[i]] = met[named[i]]
      <4>1. named[i] \in Done BY <3>4 DEF SpeedInv, FeedTracksRequests
      <4> QED BY <2>2, <3>1, <4>1
    <3>5. /\ Len(named') = Len(feed')
          /\ \A i \in 1..Len(feed') : feed'[i][1] = met'[named'[i]]
          /\ \A i, j \in 1..Len(named') : i < j => named'[i] < named'[j]
      BY <1>1, <3>4 DEF SpeedInv, FeedTracksRequests
    <3>6. {named'[i] : i \in 1..Len(named')} = {k \in Done' : IsChange(k)'}
      BY <1>1, <3>3 DEF SpeedInv, FeedTracksRequests
    <3> QED BY <3>5, <3>6 DEF FeedTracksRequests
  <2>9. Sequences' BY <1>1, <1>2, <2>2 DEF Sequences
  <2> QED BY <2>4, <2>6, <2>7, <2>8, <2>9 DEF SpeedInv
<1>6. CASE ~setLive
  <2>1. /\ timeScale' = v
        /\ UNCHANGED <<pc, value, modified, changed, g_last_set, met>>
    BY <1>6 DEF SetTimeScale, locals
  <2>2. TypeOK'
    <3>1. Len(met') <= calls' /\ Len(feed') <= Len(met') BY <1>1, <1>3, <1>2, <2>1
    <3> QED BY <1>1, <1>3, <1>4, <2>1, <3>1 DEF SpeedInv, TypeOK
  <2> QED BY <1>1, <2>1, <2>2, QuietStep
<1> QED BY <1>5, <1>6

\* The value is scaled.
LEMMA ScaleStep == SpeedInv /\ Scale => SpeedInv'
<1> SUFFICES ASSUME SpeedInv, Scale PROVE SpeedInv'
  OBVIOUS
<1>1. /\ pc = "scale" /\ pc' = "publish"
      /\ modified' = Clamp((value * g_speed_multiplier) \div One)
      /\ UNCHANGED <<g_speed_multiplier, g_speed_modification_enabled, g_last_set, installed,
                     setLive, getLive, timeScale, value, changed, returned, calls, controls,
                     feed, named, met, requested, steady>>
  BY DEF Scale, settings, hooks, publications
<1>2. value \in Int /\ g_speed_multiplier \in Int
  BY SpeedAssumption DEF SpeedInv, TypeOK
<1>3. modified' \in 0..(10 * One) BY <1>1, <1>2, ClampTyped
<1>4. TypeOK' BY <1>1, <1>3 DEF SpeedInv, TypeOK
<1> QED BY <1>1, <1>4, QuietStep

\* The pair is published if the request has changed.
LEMMA PublishStep == SpeedInv /\ PublishScale => SpeedInv'
<1> SUFFICES ASSUME SpeedInv, PublishScale PROVE SpeedInv'
  OBVIOUS
<1> DEFINE n == Len(met)
<1>1. /\ pc = "publish" /\ pc' = "set"
      /\ UNCHANGED <<g_speed_multiplier, g_speed_modification_enabled, g_last_set, installed,
                     setLive, getLive, timeScale, value, modified, changed, returned, calls,
                     controls, met, requested, steady>>
  BY DEF PublishScale, settings, hooks, locals
<1>2. /\ feed \in Seq(Pairs) /\ met \in Seq(Values) /\ named \in Seq(Nat)
      /\ Len(feed) \in Nat /\ n \in Nat /\ Len(feed) < n
      /\ value = met[n] /\ value \in Int /\ modified \in Int /\ (changed <=> IsChange(n))
  BY <1>1, SpeedAssumption DEF SpeedInv, Pending, TypeOK, Sequences
<1>3. Done = 1..(n - 1) /\ Done' = 1..n BY <1>1, <1>2 DEF Done
<1>4. ASSUME NEW k PROVE IsChange(k)' <=> IsChange(k) BY <1>1 DEF IsChange
<1>5. Pending' /\ Remembered'
  BY <1>1 DEF Pending, Remembered, SpeedInv
<1>6. Len(named) = Len(feed) BY DEF SpeedInv, FeedTracksRequests
<1>7. CASE changed
  <2> DEFINE pair == <<value, modified>>
  <2>1. pair \in Pairs /\ pair[1] = value BY <1>2 DEF Pairs
  <2>2. feed' = Append(feed, pair) /\ named' = Append(named, n)
    BY <1>7 DEF PublishScale
  <2> HIDE DEF pair
  <2> HIDE DEF n
  <2>3. PICK m : m = Len(feed) + 1 OBVIOUS
  <2>4. /\ feed' \in Seq(Pairs) /\ Len(feed') = m
        /\ \A i \in 1..Len(feed) : feed'[i] = feed[i]
        /\ feed'[m] = pair
    BY <1>2, <2>1, <2>2, <2>3
  <2>5. /\ named' \in Seq(Nat) /\ Len(named') = m
        /\ \A i \in 1..Len(feed) : named'[i] = named[i]
        /\ named'[m] = n
    BY <1>2, <1>6, <2>2, <2>3
  <2>6. m \in Nat /\ 1..m = 1..Len(feed) \cup {m} /\ m \notin 1..Len(feed) /\ m <= n
    BY <1>2, <2>3
  <2>7. TypeOK'
    <3>1. Len(feed') <= Len(met') /\ Len(met') <= calls'
      BY <1>1, <1>2, <2>4, <2>6 DEF n, SpeedInv, TypeOK
    <3> QED BY <1>1, <3>1 DEF SpeedInv, TypeOK
  <2>8. Sequences' BY <1>1, <1>2, <2>4, <2>5 DEF Sequences
  <2>9. ASSUME NEW i \in 1..Len(feed) PROVE named[i] \in 1..(n - 1) /\ feed[i][1] = met[named[i]]
    BY <1>3, <1>6 DEF SpeedInv, FeedTracksRequests
  <2>10. FeedTracksRequests'
    <3>1. ASSUME NEW i \in 1..Len(feed') PROVE feed'[i][1] = met'[named'[i]]
      <4>1. CASE i = m BY <1>1, <1>2, <2>1, <2>4, <2>5, <4>1
      <4>2. CASE i \in 1..Len(feed) BY <1>1, <2>4, <2>5, <2>9, <4>2
      <4> QED BY <2>4, <2>6, <4>1, <4>2
    <3>2. ASSUME NEW i \in 1..Len(named'), NEW j \in 1..Len(named'), i < j
          PROVE  named'[i] < named'[j]
      <4>1. i \in 1..Len(feed) BY <2>3, <2>5, <1>2, <3>2
      <4>2. CASE j = m
        <5>1. named[i] \in 1..(n - 1) BY <2>9, <4>1
        <5> QED BY <1>2, <2>5, <4>1, <4>2, <5>1
      <4>3. CASE j \in 1..Len(feed)
        <5>1. named[i] < named[j] BY <1>6, <3>2, <4>1, <4>3 DEF SpeedInv, FeedTracksRequests
        <5> QED BY <2>5, <4>1, <4>3, <5>1
      <4> QED BY <2>5, <2>6, <4>2, <4>3
    <3>3. {named'[i] : i \in 1..Len(named')} = {k \in Done' : IsChange(k)'}
      <4>1. {named'[i] : i \in 1..Len(named')} = {named[i] : i \in 1..Len(named)} \cup {n}
        BY <1>6, <2>5, <2>6
      <4>2. {named[i] : i \in 1..Len(named)} = {k \in 1..(n - 1) : IsChange(k)}
        BY <1>3 DEF SpeedInv, FeedTracksRequests
      <4>3. IsChange(n) BY <1>2, <1>7
      <4>4. 1..n = 1..(n - 1) \cup {n}
        BY <1>2
      <4>5. {k \in Done' : IsChange(k)'} = {k \in 1..n : IsChange(k)} BY <1>3, <1>4
      <4> QED BY <4>1, <4>2, <4>3, <4>4, <4>5
    <3> QED BY <2>4, <2>5, <3>1, <3>2, <3>3 DEF FeedTracksRequests
  <2> QED BY <1>5, <2>7, <2>8, <2>10 DEF SpeedInv
<1>8. CASE ~changed
  <2>1. feed' = feed /\ named' = named BY <1>8 DEF PublishScale, publications
  <2>2. TypeOK' BY <1>1, <2>1 DEF SpeedInv, TypeOK
  <2>3. Sequences' BY <1>1, <2>1 DEF Sequences, SpeedInv
  <2>4. FeedTracksRequests'
    <3>1. {k \in Done' : IsChange(k)'} = {k \in Done : IsChange(k)}
      <4>1. ~IsChange(n) BY <1>2, <1>8
      <4>2. 1..n = 1..(n - 1) \cup {n} BY <1>2
      <4> QED BY <1>3, <1>4, <4>1, <4>2
    <3>2. {named'[i] : i \in 1..Len(named')} = {k \in Done' : IsChange(k)'}
      BY <2>1, <3>1 DEF SpeedInv, FeedTracksRequests
    <3> QED BY <1>1, <2>1, <3>2 DEF SpeedInv, FeedTracksRequests
  <2> QED BY <1>5, <2>2, <2>3, <2>4 DEF SpeedInv
<1> QED BY <1>7, <1>8

\* The original gets the modified value.
LEMMA OriginalStep == SpeedInv /\ OriginalSet => SpeedInv'
<1> SUFFICES ASSUME SpeedInv, OriginalSet PROVE SpeedInv'
  OBVIOUS
<1>1. /\ pc = "set" /\ pc' = "idle" /\ timeScale' = modified
      /\ UNCHANGED <<g_speed_multiplier, g_speed_modification_enabled, g_last_set, installed,
                     setLive, getLive, value, modified, changed, returned, calls, controls,
                     feed, named, met, requested, steady>>
  BY DEF OriginalSet, settings, hooks, locals, publications
<1>2. TypeOK' BY <1>1 DEF SpeedInv, TypeOK
<1> QED BY <1>1, <1>2, QuietStep

\* What is above 0.0001 is above 0.
LEMMA DividesPositive == ASSUME NEW m \in Int, Divides(m) PROVE m > 0
BY SpeedAssumption DEF Divides

\* get_timeScale, with a multiplier to divide by or without.
LEMMA GetStep ==
  ASSUME SpeedInv, GetTimeScale \/ GetEnabled \/ Unscale
  PROVE  SpeedInv'
<1>1. /\ UNCHANGED <<g_speed_multiplier, g_speed_modification_enabled, g_last_set, installed,
                     setLive, getLive, timeScale, modified, changed, calls, controls, feed,
                     named, met, requested, steady>>
      /\ pc \in {"idle", "getEnabled", "unscale"} /\ pc' \in {"idle", "getEnabled", "unscale"}
  BY DEF GetTimeScale, GetEnabled, Unscale, settings, hooks, locals, publications
<1>2. /\ timeScale \in Int /\ value \in Int /\ returned \in Int /\ g_speed_multiplier \in Int
      /\ One \in Int /\ One > 0
  BY SpeedAssumption DEF SpeedInv, TypeOK
<1>3. value' \in Int BY <1>2 DEF GetTimeScale, GetEnabled, Unscale, locals
<1>4. returned' \in Int
  <2>1. CASE Unscale
    <3>1. value * One \in Int BY <1>2
    <3> DEFINE p == value * One
    <3> HIDE DEF p
    <3>2. Divides(g_speed_multiplier) => p \div g_speed_multiplier \in Int
      BY <1>2, <3>1, DividesPositive DEF p
    <3>3. returned' = IF Divides(g_speed_multiplier) THEN p \div g_speed_multiplier ELSE value
      BY <2>1 DEF Unscale, p
    <3> QED BY <1>2, <3>2, <3>3
  <2>2. CASE GetTimeScale \/ GetEnabled BY <1>2, <2>2 DEF GetTimeScale, GetEnabled
  <2> QED BY <2>1, <2>2
<1>5. TypeOK' BY <1>1, <1>3, <1>4 DEF SpeedInv, TypeOK
<1> QED BY <1>1, <1>5, QuietStep

-----------------------------------------------------------------------------
\* The invariant holds in every reachable state.
THEOREM Invariant == Spec => []SpeedInv
<1>1. Init => SpeedInv
  <2> SUFFICES ASSUME Init PROVE SpeedInv
    OBVIOUS
  <2>1. /\ feed = <<>> /\ met = <<>> /\ named = <<>> /\ Len(feed) = 0 /\ Len(met) = 0
        /\ Len(named) = 0 /\ pc = "idle" /\ g_last_set = One
    BY DEF Init
  <2>2. calls = 0 /\ controls = 0 /\ calls \in 0..MaxCalls /\ controls \in 0..MaxControls
    BY SpeedAssumption DEF Init
  <2>3. 0 \in 0..(10 * One) BY SpeedAssumption
  <2>4. One \in Int BY SpeedAssumption
  <2>5. TypeOK
    <3>1. /\ g_speed_modification_enabled \in BOOLEAN /\ setLive \in BOOLEAN /\ getLive \in BOOLEAN
          /\ changed \in BOOLEAN /\ steady \in BOOLEAN
      BY DEF Init
    <3>2. value \in Int /\ returned \in Int /\ modified \in 0..(10 * One) /\ installed \in 0..2
      BY <2>3, <2>4 DEF Init
    <3>3. g_speed_multiplier = 2 * One /\ timeScale = One /\ requested = One BY DEF Init
    <3>4. Len(met) <= calls /\ Len(feed) <= Len(met) BY <2>1, <2>2
    <3> QED BY <2>1, <2>2, <3>1, <3>2, <3>3, <3>4, Zenon DEF TypeOK
  <2>6. Pending /\ Remembered /\ Sequences BY <2>1 DEF Pending, Remembered, Sequences
  <2>7. FeedTracksRequests BY <2>1 DEF FeedTracksRequests, Done
  <2> QED BY <2>5, <2>6, <2>7 DEF SpeedInv
<1>2. SpeedInv /\ [Next]_vars => SpeedInv'
  <2> SUFFICES ASSUME SpeedInv, [Next]_vars PROVE SpeedInv'
    OBVIOUS
  <2>1. CASE UNCHANGED vars
    <3>1. UNCHANGED <<g_speed_multiplier, g_speed_modification_enabled, g_last_set, installed,
                      setLive, getLive, timeScale, pc, value, modified, changed, returned,
                      calls, controls, feed, named, met, requested, steady>>
      BY <2>1 DEF vars, settings, hooks, locals, publications
    <3>2. TypeOK' BY <3>1 DEF SpeedInv, TypeOK
    <3> QED BY <3>1, <3>2, QuietStep
  <2> QED
    BY <2>1, ControlStep, SetStep, ScaleStep, PublishStep, OriginalStep, GetStep DEF Next
<1> QED BY <1>1, <1>2, PTL DEF Spec

\* Every variable keeps its type: what the engine is given through the detour is
\* between 0 and 10, or what the game set.
THEOREM TypeCorrect == Spec => []TypeOK
BY Invariant, PTL DEF SpeedInv

\* Of the requests that met the live detour the feed names, in order and once each,
\* those that differ from the one before - the first of them from 1.0 - and no other.
THEOREM FeedTrue == Spec => []FeedTracksRequests
BY Invariant, PTL DEF SpeedInv

-----------------------------------------------------------------------------
(* The round trip.  While the settings stay, what is on its way into the    *)
(* engine and out of it is the request as the settings scale it.            *)

Scaled ==
  IF g_speed_modification_enabled
    THEN Clamp((requested * g_speed_multiplier) \div One)
    ELSE requested

SteadyInv ==
  steady =>
    /\ setLive /\ getLive
    /\ requested \in Values
    /\ pc = "scale" => value = requested /\ g_speed_modification_enabled
    /\ pc \in {"publish", "set"} => modified = Scaled
    /\ pc \in {"idle", "getEnabled", "unscale"} => timeScale = Scaled
    /\ pc \in {"getEnabled", "unscale"} => value = timeScale
    /\ pc = "unscale" => g_speed_modification_enabled

\* A multiplication is undone by the division.
LEMMA DivideBack == ASSUME NEW r \in Int, NEW m \in Int, m > 0 PROVE (r * m) \div m = r
OBVIOUS

LEMMA ExactQuotient ==
  ASSUME NEW p \in Int, NEW n \in Int, n > 0, p % n = 0
  PROVE  (p \div n) * n = p
OBVIOUS

\* An exact product between 0 and 10 is not clamped.
LEMMA Unclamped ==
  ASSUME NEW p \in Int, p % One = 0, p \in 0..(10 * One * One)
  PROVE  Clamp(p \div One) * One = p
<1>1. One \in Int /\ One > 0 BY SpeedAssumption
<1>2. PICK k : k = p \div One OBVIOUS
<1>3. k \in Int /\ k * One = p BY <1>1, <1>2, ExactQuotient
<1>4. k * One >= 0 /\ k * One <= 10 * One * One BY <1>1, <1>3
<1>5. k >= 0 BY <1>1, <1>3, <1>4
<1>6. k <= 10 * One BY <1>1, <1>3, <1>4
<1>7. Clamp(k) = k BY <1>1, <1>3, <1>5, <1>6 DEF Clamp
<1> QED BY <1>2, <1>3, <1>7

\* A step that leaves the settings and the request alone.
LEMMA SteadyStep ==
  ASSUME SpeedInv, SteadyInv, Scale \/ PublishScale \/ OriginalSet \/ GetTimeScale
                              \/ GetEnabled \/ Unscale
  PROVE  SteadyInv'
<1>1. /\ UNCHANGED <<g_speed_multiplier, g_speed_modification_enabled, setLive, getLive,
                     requested, steady>>
  BY DEF Scale, PublishScale, OriginalSet, GetTimeScale, GetEnabled, Unscale, settings, hooks
<1>2. Scaled' = Scaled BY <1>1 DEF Scaled, Clamp
<1>3. CASE Scale
  <2>1. /\ pc = "scale" /\ pc' = "publish"
        /\ modified' = Clamp((value * g_speed_multiplier) \div One)
    BY <1>3 DEF Scale
  <2>2. steady => modified' = Scaled BY <2>1 DEF SteadyInv, Scaled
  <2> QED BY <1>1, <1>2, <2>1, <2>2 DEF SteadyInv
<1>4. CASE PublishScale
  <2>1. pc = "publish" /\ pc' = "set" /\ modified' = modified
    BY <1>4 DEF PublishScale, locals
  <2> QED BY <1>1, <1>2, <2>1 DEF SteadyInv
<1>5. CASE OriginalSet
  <2>1. pc = "set" /\ pc' = "idle" /\ timeScale' = modified BY <1>5 DEF OriginalSet
  <2> QED BY <1>1, <1>2, <2>1 DEF SteadyInv
<1>6. CASE GetTimeScale
  <2>1. /\ pc = "idle" /\ timeScale' = timeScale
        /\ pc' \in {"idle", "getEnabled"}
        /\ pc' = "getEnabled" => value' = timeScale
    BY <1>6 DEF GetTimeScale
  <2> QED BY <1>1, <1>2, <2>1 DEF SteadyInv
<1>7. CASE GetEnabled
  <2>1. /\ pc = "getEnabled" /\ timeScale' = timeScale /\ value' = value
        /\ pc' = "idle" \/ (pc' = "unscale" /\ g_speed_modification_enabled)
    BY <1>7 DEF GetEnabled, Unscales, locals
  <2> QED BY <1>1, <1>2, <2>1 DEF SteadyInv
<1>8. CASE Unscale
  <2>1. pc = "unscale" /\ pc' = "idle" /\ timeScale' = timeScale BY <1>8 DEF Unscale
  <2> QED BY <1>1, <1>2, <2>1 DEF SteadyInv
<1> QED BY <1>3, <1>4, <1>5, <1>6, <1>7, <1>8

THEOREM SteadyInvariant == Spec => []SteadyInv
<1>1. Init => SteadyInv BY DEF Init, SteadyInv
<1>2. SpeedInv /\ SteadyInv /\ [Next]_vars => SteadyInv'
  <2> SUFFICES ASSUME SpeedInv, SteadyInv, [Next]_vars PROVE SteadyInv'
    OBVIOUS
  <2>1. CASE \/ Install
             \/ \E m \in Multipliers : SetSpeedMultiplier(m)
             \/ \E enabled \in BOOLEAN : EnableSpeedModification(enabled)
    <3>1. steady' = FALSE
      BY <2>1 DEF Install, SetSpeedMultiplier, EnableSpeedModification
    <3> QED BY <3>1 DEF SteadyInv
  <2>2. ASSUME NEW v \in Values, SetTimeScale(v) PROVE SteadyInv'
    <3> SUFFICES ASSUME steady' PROVE SteadyInv'
      BY DEF SteadyInv
    <3>1. /\ setLive /\ getLive /\ requested' = v
          /\ UNCHANGED <<g_speed_multiplier, g_speed_modification_enabled, setLive, getLive>>
      BY <2>2 DEF SetTimeScale, settings, hooks
    <3>2. /\ value' = v /\ modified' = v
          /\ pc' = IF g_speed_modification_enabled THEN "scale" ELSE "publish"
      BY <2>2, <3>1 DEF SetTimeScale
    <3>3. ~g_speed_modification_enabled => modified' = Scaled' BY <3>1, <3>2 DEF Scaled
    <3> QED BY <3>1, <3>2, <3>3 DEF SteadyInv
  <2>3. CASE UNCHANGED vars
    BY <2>3 DEF vars, settings, hooks, locals, SteadyInv, Scaled, Clamp
  <2> QED BY <2>1, <2>2, <2>3, SteadyStep DEF Next
<1> QED BY <1>1, <1>2, Invariant, PTL DEF Spec

\* The game reads back the time scale it set, with modification on or off, when
\* both detours are live, no setting has changed since, the multiplier is one that
\* get_timeScale divides by (above 0.0001) and the clamp has not cut the scale.
THEOREM ReadsBack == Spec => RoundTripWhenSteady
<1>1. ASSUME SpeedInv, SteadyInv, GetReturns, steady, Invertible
      PROVE  returned' = requested
  <2>1. /\ requested \in Values /\ requested \in Int /\ g_speed_multiplier \in Int
        /\ g_speed_multiplier \in Multipliers \cup {2 * One}
    BY <1>1, SpeedAssumption DEF SpeedInv, TypeOK, SteadyInv
  <2>2. CASE pc = "idle" /\ GetTimeScale /\ pc' = "idle"
    <3>1. getLive BY <1>1 DEF SteadyInv
    <3> QED BY <2>2, <3>1 DEF GetTimeScale
  <2>3. CASE GetEnabled /\ pc' = "idle"
    <3>1. pc = "getEnabled" /\ ~g_speed_modification_enabled /\ returned' = value
      BY <2>3 DEF GetEnabled, Unscales
    <3> QED BY <1>1, <3>1 DEF SteadyInv, Scaled
  <2>4. CASE Unscale
    <3>1. PICK p : p = requested * g_speed_multiplier OBVIOUS
    <3>2. /\ pc = "unscale" /\ g_speed_modification_enabled
          /\ value = Clamp(p \div One)
      BY <1>1, <2>4, <3>1 DEF Unscale, SteadyInv, Scaled
    <3>3. /\ Divides(g_speed_multiplier) /\ g_speed_multiplier > 0
          /\ p \in 0..(10 * One * One)
      BY <1>1, <2>1, <3>1, <3>2, DividesPositive DEF Invertible
    <3>4. p \in Int /\ p % One = 0 BY <2>1, <3>1, ExactAssumption
    <3>5. value * One = p BY <3>2, <3>3, <3>4, Unclamped
    <3>6. returned' = p \div g_speed_multiplier BY <2>4, <3>3, <3>5 DEF Unscale
    <3> QED BY <2>1, <3>1, <3>3, <3>6, DivideBack
  <2> QED BY <1>1, <2>2, <2>3, <2>4 DEF GetReturns
<1>2. SpeedInv /\ SteadyInv /\ [Next]_vars
        => [GetReturns /\ steady /\ Invertible => returned' = requested]_vars
  BY <1>1
<1> QED BY <1>2, Invariant, SteadyInvariant, PTL DEF Spec, RoundTripWhenSteady
=============================================================================

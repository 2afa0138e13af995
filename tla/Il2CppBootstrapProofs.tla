------------------------ MODULE Il2CppBootstrapProofs ------------------------
(***************************************************************************)
(* Theorems about Il2CppBootstrap, for every set of libraries, all         *)
(* surroundings and every period of the users finder.                      *)
(***************************************************************************)
EXTENDS Il2CppBootstrap, TLAPS

\* A handle is one of a loaded library.
HandleIsLoaded == pc = "handle" => Il2Cpp \in loaded

\* The inductive invariant of the safety properties.
BootstrapInv ==
  /\ TypeOK
  /\ HandleIsLoaded
  /\ NeverArmsEarly

\* The surroundings have their type.
LEMMA EnvTyped ==
  ASSUME TypeOK
  PROVE  /\ env.siblings \subseteq Deps
         /\ env.near \in BOOLEAN /\ env.permitted \in BOOLEAN /\ env.findable \in BOOLEAN
         /\ Il2Cpp \in Libraries /\ Il2Cpp \notin Deps
         /\ None \notin Libraries
         /\ Deps \subseteq Libraries
<1>1. env \in Surrounding BY BootstrapAssumption DEF TypeOK
<1>2. Il2Cpp \in Libraries BY DEF Libraries
<1> QED BY <1>1, <1>2, BootstrapAssumption DEF Surrounding, Libraries

\* What is loaded with a library, and what it may miss.
LEMMA NeedsTyped ==
  ASSUME NEW library \in Libraries
  PROVE  /\ WithNeeds(library) \subseteq Libraries /\ library \in WithNeeds(library)
         /\ Missing(library) \subseteq Deps /\ Missing(library) \cap loaded = {}
<1>1. Reaches(library) \subseteq Deps BY DEF Reaches
<1> QED BY <1>1 DEF WithNeeds, Missing, Libraries

\* What the message of a failing dlopen may name.
LEMMA NamesTyped ==
  ASSUME NEW by, NEW allowed, NEW name \in Names(by, allowed)
  PROVE  /\ name \in Missing(Il2Cpp) \cup {Il2Cpp, None}
         /\ name \in Libraries \cup {None}
         /\ allowed /\ by \in env.tells => name \in Missing(Il2Cpp)
         /\ allowed /\ name # None => name \in Missing(Il2Cpp)
<1>1. Il2Cpp \in Libraries BY DEF Libraries
<1> QED BY <1>1, NeedsTyped DEF Names, Libraries

\* dlopen with RTLD_NOLOAD keeps the invariant.
LEMMA NoLoadStep ==
  ASSUME BootstrapInv, NEW from, NEW otherwise \in {"nameOpen", "pathOpen"},
         NoLoad(from, otherwise)
  PROVE  BootstrapInv'
BY DEF NoLoad, BootstrapInv, TypeOK, HandleIsLoaded, NeverArmsEarly

\* A dlopen that succeeds keeps the invariant.
LEMMA OpenSucceedsStep ==
  ASSUME BootstrapInv, NEW from, NEW allowed, OpenSucceeds(from, allowed)
  PROVE  BootstrapInv'
<1>1. Il2Cpp \in Libraries BY DEF Libraries
<1>2. WithNeeds(Il2Cpp) \subseteq Libraries /\ Il2Cpp \in WithNeeds(Il2Cpp)
  BY <1>1, NeedsTyped
<1> QED
  BY <1>2 DEF OpenSucceeds, BootstrapInv, TypeOK, HandleIsLoaded, NeverArmsEarly

\* A dlopen that fails keeps the invariant.
LEMMA OpenFailsStep ==
  ASSUME BootstrapInv, NEW from, NEW allowed, NEW otherwise \in {"maps", "preload", "sleep"},
         OpenFails(from, allowed, otherwise), missing' \in Libraries \cup {None}
  PROVE  BootstrapInv'
BY DEF OpenFails, BootstrapInv, TypeOK, HandleIsLoaded, NeverArmsEarly

\* The three dlopens proper keep the invariant.
LEMMA OpenStep ==
  ASSUME BootstrapInv, NameOpen \/ PathOpen \/ RetryPathOpen
  PROVE  BootstrapInv'
<1>0. missing \in Libraries \cup {None} BY DEF BootstrapInv, TypeOK
<1>1. CASE NameOpen
  <2>1. CASE /\ OpenFails("nameOpen", env.findable, "maps")
             /\ \E name \in Names("name", env.findable) : missing' = NameMessage(name)
    <3>1. missing' \in Libraries \cup {None} BY <2>1, NamesTyped DEF NameMessage
    <3> QED BY <2>1, <3>1, OpenFailsStep
  <2> QED BY <1>1, <2>1, OpenSucceedsStep DEF NameOpen
<1>2. CASE PathOpen
  <2>1. CASE /\ OpenFails("pathOpen", env.permitted, "preload")
             /\ \E name \in Names("path", env.permitted) :
                  missing' = IF name = None THEN missing ELSE name
    <3>1. missing' \in Libraries \cup {None} BY <1>0, <2>1, NamesTyped
    <3> QED BY <2>1, <3>1, OpenFailsStep
  <2> QED BY <1>2, <2>1, OpenSucceedsStep DEF PathOpen
<1>3. CASE RetryPathOpen
  <2>1. CASE OpenFails("retry", env.permitted, "sleep") /\ UNCHANGED missing
    BY <1>0, <2>1, OpenFailsStep
  <2> QED BY <1>3, <2>1, OpenSucceedsStep DEF RetryPathOpen
<1> QED BY <1>1, <1>2, <1>3

\* Preloading keeps the invariant: what is loaded lies beside libil2cpp.so, so
\* it is not libil2cpp.so itself.
LEMMA PreloadStep ==
  ASSUME BootstrapInv, TryLoadSiblingLibrary
  PROVE  BootstrapInv'
<1> USE DEF BootstrapInv, TryLoadSiblingLibrary
<1>1. UNCHANGED <<env, mapped, attempt, missing>> /\ pc' \in {"retry", "sleep"}
  OBVIOUS
<1>2. CASE missing \in env.siblings /\ Opens(missing, env.permitted)
  <2>1. /\ loaded' = loaded \cup WithNeeds(missing)
        /\ preloaded' = preloaded \cup {missing}
    BY <1>2 DEF Preload
  <2>2. missing \in Deps /\ missing \in Libraries BY <1>2, EnvTyped
  <2>3. WithNeeds(missing) \subseteq Libraries BY <2>2, NeedsTyped
  <2> QED BY <1>1, <2>1, <2>2, <2>3 DEF TypeOK, HandleIsLoaded, NeverArmsEarly
<1>3. CASE ~(missing \in env.siblings /\ Opens(missing, env.permitted))
  BY <1>1, <1>3 DEF TypeOK, HandleIsLoaded, NeverArmsEarly
<1> QED BY <1>2, <1>3

\* The attempt counter stays within its period.
LEMMA NextAttemptTyped ==
  ASSUME attempt \in 1..FinderPeriod
  PROVE  (attempt % FinderPeriod) + 1 \in 1..FinderPeriod
<1>1. FinderPeriod \in Nat /\ FinderPeriod > 0 BY BootstrapAssumption
<1>2. attempt % FinderPeriod \in 0..(FinderPeriod - 1) BY <1>1
<1> QED BY <1>1, <1>2

\* Every step of the bootstrap thread and of the game keeps the invariant.
LEMMA InductiveStep == BootstrapInv /\ [Next]_vars => BootstrapInv'
<1> SUFFICES ASSUME BootstrapInv, [Next]_vars PROVE BootstrapInv'
  OBVIOUS
<1>0. TypeOK BY DEF BootstrapInv
<1>1. CASE GameMapsIl2Cpp
  BY <1>1, <1>0, EnvTyped
  DEF GameMapsIl2Cpp, BootstrapInv, TypeOK, HandleIsLoaded, NeverArmsEarly
<1>2. CASE TryBootstrapViaUsersFinder
  BY <1>2
  DEF TryBootstrapViaUsersFinder, InMaps, BootstrapInv, TypeOK, HandleIsLoaded,
      NeverArmsEarly
<1>3. CASE NameNoLoad BY <1>3, NoLoadStep DEF NameNoLoad
<1>4. CASE NameOpen \/ PathOpen \/ RetryPathOpen BY <1>4, OpenStep
<1>5. CASE FindIl2CppPathFromMaps
  BY <1>5
  DEF FindIl2CppPathFromMaps, BootstrapInv, TypeOK, HandleIsLoaded, NeverArmsEarly
<1>6. CASE PathNoLoad BY <1>6, NoLoadStep DEF PathNoLoad
<1>7. CASE TryLoadSiblingLibrary BY <1>7, PreloadStep
<1>8. CASE TryLoadByDlfcnHandle
  BY <1>8
  DEF TryLoadByDlfcnHandle, BootstrapInv, TypeOK, HandleIsLoaded, NeverArmsEarly
<1>9. CASE NextAttempt
  <2>1. attempt' \in 1..FinderPeriod BY <1>0, <1>9, NextAttemptTyped DEF NextAttempt, TypeOK
  <2> QED
    BY <1>9, <2>1 DEF NextAttempt, BootstrapInv, TypeOK, HandleIsLoaded, NeverArmsEarly
<1>10. CASE UNCHANGED vars
  BY <1>10 DEF vars, BootstrapInv, TypeOK, HandleIsLoaded, NeverArmsEarly
<1> QED
  BY <1>1, <1>2, <1>3, <1>4, <1>5, <1>6, <1>7, <1>8, <1>9, <1>10 DEF Next, Bootstrap

\* The invariant holds in every reachable state.
THEOREM Invariant == Spec => []BootstrapInv
<1>1. Init => BootstrapInv
  <2> SUFFICES ASSUME Init PROVE BootstrapInv
    OBVIOUS
  <2>1. 1 \in 1..FinderPeriod BY BootstrapAssumption
  <2>2. TypeOK BY <2>1 DEF Init, TypeOK
  <2> QED BY <2>2 DEF Init, BootstrapInv, HandleIsLoaded, NeverArmsEarly
<1> QED BY <1>1, InductiveStep, PTL DEF Spec

\* Every variable keeps its type; in particular what is preloaded is never
\* libil2cpp.so itself.
THEOREM TypeCorrect == Spec => []TypeOK
BY Invariant, PTL DEF BootstrapInv

\* BNM is never armed before there is a libil2cpp.so in the process.
THEOREM ArmedWithLibrary == Spec => []NeverArmsEarly
BY Invariant, PTL DEF BootstrapInv

-----------------------------------------------------------------------------
(* What an attempt knows on its way.                                         *)

\* By path it goes only for a library that the game has mapped and that it has not
\* got; by name it was not to be had; and what it has heard is missing is missing
\* still, as long as it has not got the library after all.
AttemptInv ==
  /\ mapped /\ env.near => Il2Cpp \in loaded
  /\ pc = "pathNoload" => mapped \/ Il2Cpp \in loaded
  /\ pc \in {"pathOpen", "preload"} => mapped /\ Il2Cpp \notin loaded
  /\ pc \in {"maps", "pathNoload", "pathOpen", "preload"} /\ Il2Cpp \notin loaded =>
       /\ missing \in Missing(Il2Cpp) \cup {Il2Cpp, None}
       /\ env.findable => Missing(Il2Cpp) # {}
  /\ pc \in {"maps", "pathNoload", "pathOpen"} /\ Il2Cpp \notin loaded =>
       (env.findable /\ "name" \in env.tells => missing \in Missing(Il2Cpp))
  /\ pc = "preload" /\ env.permitted =>
       /\ Missing(Il2Cpp) # {}
       /\ "path" \in env.tells \/ (env.findable /\ "name" \in env.tells) =>
            missing \in Missing(Il2Cpp)

\* What dlopen needs of the linker stays, and the more is loaded the less is missing.
LEMMA MissingShrinks ==
  ASSUME env' = env, loaded \subseteq loaded'
  PROVE  \A library : Missing(library)' = Missing(library) \ loaded'
<1> SUFFICES ASSUME NEW library PROVE Missing(library)' = Missing(library) \ loaded'
  OBVIOUS
<1>1. Reaches(library)' = Reaches(library) BY DEF Reaches, Closed
<1> QED BY <1>1 DEF Missing

\* A dlopen by path that fails names something that is missing, if its message
\* names anything.
LEMMA PathOpenFails ==
  ASSUME BootstrapInv, AttemptInv, OpenFails("pathOpen", env.permitted, "preload"),
         NEW name \in Names("path", env.permitted),
         missing' = IF name = None THEN missing ELSE name
  PROVE  AttemptInv'
<1>1. /\ pc = "pathOpen" /\ pc' = "preload" /\ Il2Cpp \notin loaded
      /\ env.permitted => Missing(Il2Cpp) # {}
      /\ UNCHANGED <<env, mapped, loaded>>
  BY DEF OpenFails, Opens
<1>2. Missing(Il2Cpp)' = Missing(Il2Cpp)
  BY <1>1, MissingShrinks, NeedsTyped DEF Libraries
<1>3. /\ name \in Missing(Il2Cpp) \cup {Il2Cpp, None}
      /\ env.permitted /\ "path" \in env.tells => name \in Missing(Il2Cpp)
      /\ env.permitted /\ name # None => name \in Missing(Il2Cpp)
  BY NamesTyped
<1>4. /\ mapped /\ missing \in Missing(Il2Cpp) \cup {Il2Cpp, None}
      /\ env.findable => Missing(Il2Cpp) # {}
      /\ env.findable /\ "name" \in env.tells => missing \in Missing(Il2Cpp)
      /\ mapped /\ env.near => Il2Cpp \in loaded
  BY <1>1 DEF AttemptInv
<1>5. None \notin Missing(Il2Cpp)
  <2>1. Missing(Il2Cpp) \subseteq Deps BY NeedsTyped DEF Libraries
  <2> QED BY <2>1, BootstrapAssumption DEF Libraries
<1>6. missing' \in Missing(Il2Cpp) \cup {Il2Cpp, None} BY <1>3, <1>4
<1>7. env.permitted /\ ("path" \in env.tells \/ (env.findable /\ "name" \in env.tells)) =>
        missing' \in Missing(Il2Cpp)
  BY <1>3, <1>4, <1>5
<1> QED BY <1>1, <1>2, <1>4, <1>6, <1>7 DEF AttemptInv

\* Every step keeps what an attempt knows.
LEMMA AttemptStep == BootstrapInv /\ AttemptInv /\ [Next]_vars => AttemptInv'
<1> SUFFICES ASSUME BootstrapInv, AttemptInv, [Next]_vars PROVE AttemptInv'
  OBVIOUS
<1>0. Il2Cpp \in Libraries /\ Missing(Il2Cpp) \cap loaded = {}
  BY NeedsTyped DEF Libraries
<1>1. ASSUME UNCHANGED <<env, loaded>> PROVE Missing(Il2Cpp)' = Missing(Il2Cpp)
  BY <1>0, <1>1, MissingShrinks
<1>2. CASE GameMapsIl2Cpp
  <2>1. ~mapped /\ mapped' /\ UNCHANGED <<env, pc, missing>>
        /\ loaded' = (IF env.near THEN Libraries ELSE loaded)
    BY <1>2 DEF GameMapsIl2Cpp
  <2>2. CASE env.near
    <3>1. Il2Cpp \in loaded' BY <1>0, <2>1, <2>2
    <3>2. pc' \notin {"pathOpen", "preload"} BY <2>1 DEF AttemptInv
    <3> QED BY <2>1, <3>1, <3>2 DEF AttemptInv
  <2>3. CASE ~env.near
    <3>1. Missing(Il2Cpp)' = Missing(Il2Cpp) BY <1>1, <2>1, <2>3
    <3> QED BY <2>1, <2>3, <3>1 DEF AttemptInv
  <2> QED BY <2>2, <2>3
<1>3. ASSUME UNCHANGED <<env, mapped>>, loaded \subseteq loaded',
             pc' \notin {"maps", "pathNoload", "pathOpen", "preload"}
      PROVE  AttemptInv'
  BY <1>3 DEF AttemptInv
<1>4. CASE TryBootstrapViaUsersFinder \/ NextAttempt \/ TryLoadByDlfcnHandle \/ NameNoLoad
  BY <1>3, <1>4
  DEF TryBootstrapViaUsersFinder, NextAttempt, TryLoadByDlfcnHandle, NameNoLoad, NoLoad
<1>5. ASSUME NEW from, NEW allowed, OpenSucceeds(from, allowed) PROVE AttemptInv'
  BY <1>3, <1>5 DEF OpenSucceeds
<1>6. CASE NameOpen
  <2>1. ASSUME OpenFails("nameOpen", env.findable, "maps"),
               NEW name \in Names("name", env.findable), missing' = NameMessage(name)
        PROVE  AttemptInv'
    <3>1. /\ pc' = "maps" /\ UNCHANGED <<env, mapped, loaded>>
          /\ env.findable => Missing(Il2Cpp) # {}
      BY <2>1 DEF OpenFails, Opens
    <3>2. /\ missing' \in Missing(Il2Cpp) \cup {Il2Cpp, None}
          /\ env.findable /\ "name" \in env.tells => missing' \in Missing(Il2Cpp)
      BY <2>1, NamesTyped DEF NameMessage
    <3> QED BY <1>1, <3>1, <3>2 DEF AttemptInv
  <2> QED BY <1>5, <1>6, <2>1 DEF NameOpen
<1>7. CASE FindIl2CppPathFromMaps
  <2>1. /\ pc = "maps" /\ UNCHANGED <<env, mapped, loaded, missing>>
        /\ pc' = IF InMaps THEN "pathNoload" ELSE "sleep"
    BY <1>7 DEF FindIl2CppPathFromMaps
  <2> QED BY <1>1, <2>1 DEF InMaps, AttemptInv
<1>8. CASE PathNoLoad
  <2>1. /\ pc = "pathNoload" /\ UNCHANGED <<env, mapped, loaded, missing>>
        /\ pc' = IF Il2Cpp \in loaded THEN "handle" ELSE "pathOpen"
    BY <1>8 DEF PathNoLoad, NoLoad
  <2> QED BY <1>1, <2>1 DEF AttemptInv
<1>9. CASE PathOpen BY <1>5, <1>9, PathOpenFails DEF PathOpen
<1>10. CASE TryLoadSiblingLibrary
  <2>1. loaded \subseteq loaded' /\ UNCHANGED <<env, mapped>> /\ pc' \in {"retry", "sleep"}
    BY <1>10 DEF TryLoadSiblingLibrary, Preload
  <2> QED BY <1>3, <2>1
<1>11. CASE RetryPathOpen
  <2>1. CASE OpenFails("retry", env.permitted, "sleep") BY <1>3, <2>1 DEF OpenFails
  <2> QED BY <1>5, <1>11, <2>1 DEF RetryPathOpen
<1>12. CASE UNCHANGED vars
  <2>1. Missing(Il2Cpp)' = Missing(Il2Cpp) BY <1>1, <1>12 DEF vars
  <2> QED BY <1>12, <2>1 DEF vars, AttemptInv
<1> QED
  BY <1>2, <1>4, <1>6, <1>7, <1>8, <1>9, <1>10, <1>11, <1>12 DEF Next, Bootstrap

\* Every attempt knows so much at every step.
THEOREM AttemptKnows == Spec => []AttemptInv
<1>1. Init => AttemptInv BY DEF Init, AttemptInv
<1> QED BY <1>1, AttemptStep, Invariant, PTL DEF Spec

\* What the payload preloads is missing when it does.
THEOREM PreloadsAreMissing == Spec => PreloadsWhatIsMissing
<1> DEFINE lacking == \E library \in Missing(Il2Cpp) : preloaded' = preloaded \cup {library}
<1>1. BootstrapInv /\ AttemptInv /\ [Next]_vars =>
        [pc = "preload" /\ pc' = "retry" => lacking]_vars
  <2> SUFFICES ASSUME BootstrapInv, AttemptInv, [Next]_vars, pc = "preload", pc' = "retry"
               PROVE  lacking
    OBVIOUS
  <2>1. TryLoadSiblingLibrary
    BY DEF Next, Bootstrap, GameMapsIl2Cpp, TryBootstrapViaUsersFinder, NameNoLoad, NoLoad,
           NameOpen, OpenSucceeds, OpenFails, FindIl2CppPathFromMaps, PathNoLoad, PathOpen,
           RetryPathOpen, TryLoadByDlfcnHandle, NextAttempt, vars
  <2>2. missing \in env.siblings /\ preloaded' = preloaded \cup {missing}
    BY <2>1 DEF TryLoadSiblingLibrary, Preload
  <2>3. missing # Il2Cpp /\ missing # None
    BY <2>2, EnvTyped DEF BootstrapInv
  <2>4. missing \in Missing(Il2Cpp) BY <2>3 DEF AttemptInv
  <2> QED BY <2>2, <2>4
<1> QED BY <1>1, Invariant, AttemptKnows, PTL DEF Spec, PreloadsWhatIsMissing

-----------------------------------------------------------------------------
(* Why ArmsWhenPossible holds: an attempt that could have armed BNM leaves   *)
(* less to be missed by the next.                                            *)

\* Something that was missing is there, and nothing is missing that was not.
MissesLess == Missing(Il2Cpp)' \subseteq Missing(Il2Cpp) /\ Missing(Il2Cpp)' # Missing(Il2Cpp)

\* With libil2cpp.so mapped, a handle possible and BNM able to work with one:
\* both stay so; an attempt fails only at its last dlopen; and it comes to that
\* only by loading one more of the libraries that are missing.
AttemptsProgress ==
  [][mapped /\ env.dlfcn /\ HandleIsPossible =>
       /\ (mapped /\ env.dlfcn /\ HandleIsPossible)'
       /\ pc' = "sleep" => pc \in {"sleep", "retry"}
       /\ pc = "preload" /\ pc' # "preload" => pc' = "retry" /\ MissesLess
       /\ pc' = "retry" => pc \in {"preload", "retry"}]_vars

\* The libraries in the process stay, and so do the surroundings.
LEMMA NothingUnloaded ==
  ASSUME BootstrapInv, [Next]_vars
  PROVE  loaded \subseteq loaded' /\ env' = env /\ (mapped => mapped')
<1>1. loaded \subseteq Libraries BY DEF BootstrapInv, TypeOK
<1>2. CASE GameMapsIl2Cpp BY <1>1, <1>2 DEF GameMapsIl2Cpp
<1>3. CASE NameOpen \/ PathOpen \/ RetryPathOpen
  BY <1>3 DEF NameOpen, PathOpen, RetryPathOpen, OpenSucceeds, OpenFails
<1>4. CASE TryLoadSiblingLibrary BY <1>4 DEF TryLoadSiblingLibrary, Preload
<1>5. CASE \/ TryBootstrapViaUsersFinder \/ NameNoLoad \/ FindIl2CppPathFromMaps \/ PathNoLoad
           \/ TryLoadByDlfcnHandle \/ NextAttempt \/ UNCHANGED vars
  BY <1>5
  DEF TryBootstrapViaUsersFinder, NameNoLoad, PathNoLoad, NoLoad, FindIl2CppPathFromMaps,
      TryLoadByDlfcnHandle, NextAttempt, vars
<1> QED BY <1>2, <1>3, <1>4, <1>5 DEF Next, Bootstrap

\* When libil2cpp.so can be armed, every attempt that fails has loaded one more
\* of the libraries it misses: with finitely many, one attempt succeeds (the
\* ranking behind ArmsWhenPossible).
THEOREM EachMissLoadsOne == Spec => AttemptsProgress
<1> DEFINE possible == mapped /\ env.dlfcn /\ HandleIsPossible
           progress == /\ possible'
                       /\ pc' = "sleep" => pc \in {"sleep", "retry"}
                       /\ pc = "preload" /\ pc' # "preload" => pc' = "retry" /\ MissesLess
                       /\ pc' = "retry" => pc \in {"preload", "retry"}
<1>1. BootstrapInv /\ AttemptInv /\ [Next]_vars => [possible => progress]_vars
  <2> SUFFICES ASSUME BootstrapInv, AttemptInv, [Next]_vars, possible PROVE progress
    OBVIOUS
  <2>0. loaded \subseteq loaded' /\ env' = env /\ mapped' BY NothingUnloaded
  <2>1. possible'
    <3>1. \A library : Missing(library)' \subseteq Missing(library)
      BY <2>0, MissingShrinks
    <3>2. CASE env.near BY <2>0, <3>2 DEF HandleIsPossible
    <3>3. CASE (env.findable \/ env.permitted) /\ Missing(Il2Cpp) = {}
      <4>1. Missing(Il2Cpp)' = {} BY <3>1, <3>3
      <4> QED BY <2>0, <3>3, <4>1 DEF HandleIsPossible
    <3>4. CASE PreloadsHelp
      <4>1. ASSUME NEW library \in Missing(Il2Cpp)'
            PROVE  library \in env.siblings /\ Missing(library)' = {}
        <5>1. library \in Missing(Il2Cpp) BY <3>1, <4>1
        <5>2. library \in env.siblings /\ Missing(library) = {} BY <3>4, <5>1 DEF PreloadsHelp
        <5> QED BY <3>1, <5>2
      <4>2. PreloadsHelp' BY <2>0, <3>4, <4>1 DEF PreloadsHelp
      <4> QED BY <2>0, <4>2 DEF HandleIsPossible
    <3> QED BY <3>2, <3>3, <3>4 DEF HandleIsPossible
  <2>2. pc = "preload" =>
          missing \in env.siblings /\ missing \in Missing(Il2Cpp) /\ Opens(missing, env.permitted)
    <3> SUFFICES ASSUME pc = "preload"
                 PROVE  /\ missing \in env.siblings /\ missing \in Missing(Il2Cpp)
                        /\ Opens(missing, env.permitted)
      OBVIOUS
    <3>1. PreloadsHelp BY DEF AttemptInv, HandleIsPossible
    <3>2. missing \in Missing(Il2Cpp) BY <3>1 DEF AttemptInv, PreloadsHelp
    <3> QED BY <3>1, <3>2 DEF PreloadsHelp, Opens
  <2>3. CASE GameMapsIl2Cpp \/ UNCHANGED vars
    BY <2>1, <2>3 DEF GameMapsIl2Cpp, vars
  <2>4. CASE TryBootstrapViaUsersFinder \/ NextAttempt \/ TryLoadByDlfcnHandle
    BY <2>1, <2>4 DEF TryBootstrapViaUsersFinder, NextAttempt, TryLoadByDlfcnHandle
  <2>5. CASE NameNoLoad \/ PathNoLoad
    BY <2>1, <2>5 DEF NameNoLoad, PathNoLoad, NoLoad
  <2>6. CASE NameOpen BY <2>1, <2>6 DEF NameOpen, OpenSucceeds, OpenFails
  <2>7. CASE FindIl2CppPathFromMaps
    BY <2>1, <2>7 DEF FindIl2CppPathFromMaps, InMaps
  <2>8. CASE PathOpen BY <2>1, <2>8 DEF PathOpen, OpenSucceeds, OpenFails
  <2>9. CASE TryLoadSiblingLibrary
    <3>1. pc = "preload" BY <2>9 DEF TryLoadSiblingLibrary
    <3>2. pc' = "retry" /\ loaded' = loaded \cup WithNeeds(missing)
      BY <2>2, <2>9, <3>1 DEF TryLoadSiblingLibrary, Preload
    <3>3. missing \in loaded' BY <3>2 DEF WithNeeds
    <3>4. Missing(Il2Cpp)' = Missing(Il2Cpp) \ loaded' BY <2>0, MissingShrinks
    <3>5. MissesLess BY <2>2, <3>1, <3>3, <3>4 DEF MissesLess
    <3> QED BY <2>1, <3>1, <3>2, <3>5
  <2>10. CASE RetryPathOpen BY <2>1, <2>10 DEF RetryPathOpen, OpenSucceeds, OpenFails
  <2> QED
    BY <2>3, <2>4, <2>5, <2>6, <2>7, <2>8, <2>9, <2>10 DEF Next, Bootstrap
<1> QED BY <1>1, Invariant, AttemptKnows, PTL DEF Spec, AttemptsProgress
=============================================================================

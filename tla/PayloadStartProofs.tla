------------------------- MODULE PayloadStartProofs -------------------------
(***************************************************************************)
(* Theorems about PayloadStart and its parts: for every package and every  *)
(* process name, for every memory, pattern and mask, and for any threads.  *)
(***************************************************************************)
EXTENDS PayloadStart, HookManagerProofs, SequenceTheorems

-----------------------------------------------------------------------------
(* The pattern scanner. *)

\* The scan is at a module, at a segment of a module of the name, or at an
\* offset of a segment that it scans, at most one past the last.
CursorInside ==
  /\ place = "idle" => mod = 1 /\ found = Null
  /\ place \in {"module", "segment", "offset"} =>
       request # Null /\ ~request.null
  /\ place \in {"segment", "offset"} =>
       mod \in DOMAIN request.modules /\ request.modules[mod].named
  /\ place = "offset" => seg \in DOMAIN Segments /\ Scanned /\ offset <= PMemsz - Size + 1

\* The pattern is nowhere before the cursor.
NothingBefore ==
  \A p \in Positions(request) : Occurs(request, p) =>
    /\ place = "module" => p[1] >= mod
    /\ place = "segment" => p[1] > mod \/ (p[1] = mod /\ p[2] >= seg)
    /\ place = "offset" =>
         \/ p[1] > mod
         \/ p[1] = mod /\ (p[2] > seg \/ (p[2] = seg /\ p[3] >= offset))

ScanInv ==
  /\ ScanTypeOK
  /\ CursorInside
  /\ place \in {"module", "segment", "offset"} => NothingBefore
  /\ FindsFirst

\* A request, taken apart.
LEMMA RequestParts ==
  ASSUME NEW r \in Requests
  PROVE  /\ r.modules \in Seq(Module) /\ r.pattern \in Seq(Byte) /\ r.mask \in Seq(BOOLEAN)
         /\ r.null \in BOOLEAN /\ (r.null \/ r.pattern # <<>>)
         /\ Len(r.pattern) \in Nat /\ (~r.null => Len(r.pattern) # 0)
BY ScannerAssumption DEF Request

\* A segment of a request has fewer than SizeRange bytes.
LEMMA SegmentParts ==
  ASSUME NEW r \in Requests, NEW m \in DOMAIN r.modules,
         NEW s \in DOMAIN r.modules[m].segments
  PROVE  /\ m \in Nat \ {0} /\ s \in Nat \ {0}
         /\ Len(r.modules[m].segments[s].bytes) \in 0..(SizeRange - 1)
<1>1. r.modules \in Seq(Module) BY RequestParts
<1>2. m \in Nat \ {0} /\ r.modules[m] \in Module BY <1>1
<1>3. r.modules[m].segments \in Seq(Segment) BY <1>2 DEF Module
<1>4. s \in Nat \ {0} /\ r.modules[m].segments[s] \in Segment BY <1>3
<1>5. r.modules[m].segments[s].bytes \in Seq(Byte) BY <1>4 DEF Segment
<1>6. Len(r.modules[m].segments[s].bytes) < SizeRange BY ScannerAssumption
<1> QED BY <1>2, <1>4, <1>5, <1>6, ScannerAssumption

\* A position, taken apart.
LEMMA PositionParts ==
  ASSUME NEW r \in Requests, NEW p
  PROVE  p \in Positions(r) <=>
           \E m \in DOMAIN r.modules : \E s \in DOMAIN r.modules[m].segments :
             \E o \in 0..Len(r.modules[m].segments[s].bytes) : p = <<m, s, o>>
BY DEF Positions

\* What is below the range is not changed by the wrap.
LEMMA NoWrap ==
  ASSUME NEW a \in 0..(SizeRange - 1)
  PROVE  a % SizeRange = a
BY ScannerAssumption

\* size_t arithmetic does not wrap where the pattern fits.
LEMMA LimitIsDifference ==
  ASSUME NEW memsz \in 0..(SizeRange - 1), NEW size \in Nat, size # 0, memsz >= size
  PROVE  /\ (memsz + SizeRange - size) % SizeRange = memsz - size
         /\ memsz - size \in 0..(SizeRange - 2)
<1>1. memsz - size \in 0..(SizeRange - 2) BY ScannerAssumption
<1>2. memsz + SizeRange - size = (memsz - size) + SizeRange BY ScannerAssumption
<1>3. SizeRange \in Nat \ {0} /\ memsz - size < SizeRange BY <1>1, ScannerAssumption
<1>4. \A a \in Nat : a < SizeRange => (a + SizeRange) % SizeRange = a BY <1>3
<1> QED BY <1>1, <1>2, <1>3, <1>4

\* The last offset at which the pattern fits, where it fits at all.
LEMMA LimitHere ==
  ASSUME ScanInv, place = "segment" \/ place = "offset", seg \in DOMAIN Segments, Scanned
  PROVE  /\ Limit = PMemsz - Size /\ Limit \in 0..(SizeRange - 2)
         /\ Size \in Nat \ {0} /\ PMemsz \in 0..(SizeRange - 1)
         /\ mod \in Nat \ {0} /\ seg \in Nat \ {0}
<1>1. request \in Requests /\ ~request.null /\ mod \in DOMAIN request.modules
  BY DEF ScanInv, CursorInside, ScanTypeOK
<1>2. PMemsz \in 0..(SizeRange - 1) /\ mod \in Nat \ {0} /\ seg \in Nat \ {0}
  BY <1>1, SegmentParts DEF PMemsz, Here, Segments
<1>3. Size \in Nat /\ Size # 0 BY <1>1, RequestParts DEF Size
<1>4. PMemsz >= Size BY DEF Scanned
<1> QED BY <1>2, <1>3, <1>4, LimitIsDifference DEF Limit

\* Where the cursor stands, the code's comparison is the definition's.
LEMMA MatchIsOccurrence ==
  ASSUME ScanInv, place = "offset", offset <= Limit
  PROVE  /\ <<mod, seg, offset>> \in Positions(request)
         /\ MatchPattern <=> Occurs(request, <<mod, seg, offset>>)
<1>1. /\ request \in Requests /\ mod \in DOMAIN request.modules /\ request.modules[mod].named
      /\ seg \in DOMAIN Segments /\ Scanned /\ offset \in Nat
  BY DEF ScanInv, CursorInside, ScanTypeOK
<1>2. Limit = PMemsz - Size /\ Size \in Nat /\ PMemsz \in Nat BY <1>1, LimitHere
<1>3. offset + Size <= PMemsz BY <1>1, <1>2
<1>4. offset \in 0..PMemsz BY <1>1, <1>2, <1>3
<1>5. <<mod, seg, offset>> \in Positions(request)
  BY <1>1, <1>4, PositionParts DEF PMemsz, Here, Segments
<1>6. MatchPattern <=> Occurs(request, <<mod, seg, offset>>)
  BY <1>1, <1>3 DEF MatchPattern, Occurs, Scanned, PMemsz, Here, Segments, Size
<1> QED BY <1>5, <1>6

\* A segment that is not scanned has no occurrence.
LEMMA SkippedHasNone ==
  ASSUME ScanInv, place = "segment", seg \in DOMAIN Segments, ~Scanned,
         NEW p \in Positions(request), p[1] = mod, p[2] = seg
  PROVE  ~Occurs(request, p)
<1>1. request \in Requests BY DEF ScanInv, CursorInside, ScanTypeOK
<1>2. p[3] \in Nat BY <1>1, PositionParts
<1>3. Size \in Nat BY <1>1, RequestParts DEF Size
<1>4. PMemsz \in Nat
  BY <1>1, SegmentParts DEF ScanInv, CursorInside, PMemsz, Here, Segments
<1> QED BY <1>2, <1>3, <1>4 DEF Occurs, Scanned, PMemsz, Here, Segments, Size

-----------------------------------------------------------------------------
(* The steps of the scanner. *)

\* While the scan runs nothing has been found; a step that keeps it running
\* has to keep the cursor inside and leave nothing behind it.
LEMMA RunningStep ==
  ASSUME ScanInv, UNCHANGED request, request # Null, found = Null, UNCHANGED found,
         place' \in {"module", "segment", "offset"},
         mod' \in Nat \ {0}, seg' \in Nat \ {0}, offset' \in 0..(SizeRange - 1),
         CursorInside', NothingBefore'
  PROVE  ScanInv'
<1>1. Null \notin Requests => ScanTypeOK' BY DEF ScanInv, ScanTypeOK, Places
<1>2. ScanTypeOK' BY <1>1 DEF ScanInv, ScanTypeOK, Places
<1>3. FindsFirst' BY DEF FindsFirst
<1> QED BY <1>2, <1>3 DEF ScanInv

\* The first call, and every later one, begins at the first module.
LEMMA FindFirstInModuleStep ==
  ASSUME ScanInv, FindFirstInModule
  PROVE  ScanInv'
<1>1. /\ place = "idle" /\ request' \in Requests /\ mod = 1 /\ found = Null
      /\ place' = (IF request'.null THEN "done" ELSE "module")
      /\ UNCHANGED <<mod, seg, offset, found>> /\ Null \notin Requests
      /\ seg \in Nat \ {0} /\ offset \in 0..(SizeRange - 1)
  BY ScannerAssumption DEF FindFirstInModule, ScanInv, ScanTypeOK, CursorInside
<1>2. ScanTypeOK' BY <1>1 DEF ScanTypeOK, Places
<1>3. CursorInside' BY <1>1 DEF CursorInside
<1>4. FindsFirst' BY <1>1 DEF FindsFirst
<1>5. place' = "module" => NothingBefore'
  <2>1. \A p \in Positions(request') : p[1] >= 1 BY <1>1, PositionParts, SegmentParts
  <2> QED BY <1>1, <2>1 DEF NothingBefore
<1> QED BY <1>1, <1>2, <1>3, <1>4, <1>5 DEF ScanInv

\* The end of the modules: there is no occurrence left.
LEMMA ModulesEnd ==
  ASSUME ScanInv, place = "module", mod > Len(request.modules), place' = "done",
         UNCHANGED <<request, mod, seg, offset, found>>
  PROVE  ScanInv'
<1>1. request \in Requests /\ request # Null /\ found = Null /\ ~request.null /\ mod \in Nat
  BY DEF ScanInv, ScanTypeOK, CursorInside
<1>2. request.modules \in Seq(Module) BY <1>1, RequestParts
<1>3. \A p \in Positions(request) : p[1] \in 1..Len(request.modules)
  BY <1>1, <1>2, PositionParts
<1>4. \A p \in Positions(request) : ~Occurs(request, p)
  BY <1>1, <1>2, <1>3 DEF ScanInv, NothingBefore
<1>5. FindsFirst' BY <1>1, <1>4 DEF FindsFirst
<1>6. ScanTypeOK' BY <1>1 DEF ScanInv, ScanTypeOK, Places
<1> QED BY <1>5, <1>6 DEF ScanInv, CursorInside

LEMMA NextModuleStep ==
  ASSUME ScanInv, NextModule
  PROVE  ScanInv'
<1>1. /\ place = "module" /\ UNCHANGED <<request, offset, found>>
      /\ request \in Requests /\ request # Null /\ ~request.null /\ found = Null
      /\ mod \in Nat \ {0} /\ seg \in Nat \ {0} /\ offset \in 0..(SizeRange - 1)
      /\ NothingBefore
  BY DEF NextModule, ScanInv, ScanTypeOK, CursorInside
<1>2. \A p \in Positions(request) : p[1] \in Nat /\ p[2] \in Nat \ {0}
  BY <1>1, PositionParts, SegmentParts
<1>3. CASE mod > Len(request.modules) /\ place' = "done" /\ UNCHANGED <<mod, seg>>
  BY <1>1, <1>3, ModulesEnd
<1>4. CASE /\ mod \in DOMAIN request.modules /\ ~request.modules[mod].named
           /\ mod' = mod + 1 /\ UNCHANGED <<place, seg>>
  <2>1. \A p \in Positions(request) : Occurs(request, p) => p[1] # mod
    BY <1>4 DEF Occurs
  <2>2. NothingBefore' BY <1>1, <1>2, <1>4, <2>1 DEF NothingBefore
  <2>3. CursorInside' BY <1>1, <1>4 DEF CursorInside
  <2> QED BY <1>1, <1>4, <2>2, <2>3, RunningStep
<1>5. CASE /\ mod \in DOMAIN request.modules /\ request.modules[mod].named
           /\ place' = "segment" /\ seg' = 1 /\ UNCHANGED mod
  <2>1. NothingBefore' BY <1>1, <1>2, <1>5 DEF NothingBefore
  <2>2. CursorInside' BY <1>1, <1>5 DEF CursorInside
  <2> QED BY <1>1, <1>5, <2>1, <2>2, RunningStep
<1> QED BY <1>3, <1>4, <1>5 DEF NextModule

LEMMA NextSegmentStep ==
  ASSUME ScanInv, NextSegment
  PROVE  ScanInv'
<1>1. /\ place = "segment" /\ UNCHANGED <<request, found>>
      /\ request \in Requests /\ request # Null /\ ~request.null /\ found = Null
      /\ mod \in DOMAIN request.modules /\ request.modules[mod].named
      /\ mod \in Nat \ {0} /\ seg \in Nat \ {0} /\ offset \in 0..(SizeRange - 1)
      /\ NothingBefore
  BY DEF NextSegment, ScanInv, ScanTypeOK, CursorInside
<1>2. \A p \in Positions(request) :
        p[1] \in Nat /\ p[2] \in Nat /\ p[3] \in Nat
        /\ (p[1] = mod => p[2] \in DOMAIN Segments)
  BY <1>1, PositionParts, SegmentParts DEF Segments
<1>3. CASE seg > Len(Segments) /\ place' = "module" /\ mod' = mod + 1
           /\ UNCHANGED <<seg, offset>>
  <2>1. Segments \in Seq(Segment)
    <3>1. request.modules \in Seq(Module) BY <1>1, RequestParts
    <3>2. request.modules[mod] \in Module BY <1>1, <3>1
    <3> QED BY <3>2 DEF Segments, Module
  <2>2. \A p \in Positions(request) : p[1] = mod => p[2] < seg
    BY <1>1, <1>2, <1>3, <2>1
  <2>3. NothingBefore' BY <1>1, <1>2, <1>3, <2>2 DEF NothingBefore
  <2>4. CursorInside' BY <1>1, <1>3 DEF CursorInside
  <2> QED BY <1>1, <1>3, <2>3, <2>4, RunningStep
<1>4. CASE seg \in DOMAIN Segments /\ ~Scanned /\ seg' = seg + 1
           /\ UNCHANGED <<place, mod, offset>>
  <2>1. \A p \in Positions(request) : Occurs(request, p) => ~(p[1] = mod /\ p[2] = seg)
    BY <1>1, <1>4, SkippedHasNone
  <2>2. NothingBefore' BY <1>1, <1>2, <1>4, <2>1 DEF NothingBefore
  <2>3. CursorInside' BY <1>1, <1>4 DEF CursorInside
  <2> QED BY <1>1, <1>4, <2>2, <2>3, RunningStep
<1>5. CASE seg \in DOMAIN Segments /\ Scanned /\ place' = "offset" /\ offset' = 0
           /\ UNCHANGED <<mod, seg>>
  <2>1. /\ Limit = PMemsz - Size /\ Limit \in 0..(SizeRange - 2)
        /\ PMemsz \in Nat /\ Size \in Nat
    BY <1>1, <1>5, LimitHere
  <2>2. offset' \in 0..(SizeRange - 1) /\ offset' <= PMemsz - Size + 1
    BY <1>5, <2>1, ScannerAssumption
  <2>3. NothingBefore' BY <1>1, <1>2, <1>5 DEF NothingBefore
  <2>4. UNCHANGED <<Segments, Scanned, PMemsz, Size>>
    BY <1>1, <1>5 DEF Segments, Scanned, PMemsz, Size, Here
  <2>5. CursorInside' BY <1>1, <1>5, <2>2, <2>4 DEF CursorInside
  <2> QED BY <1>1, <1>5, <2>2, <2>3, <2>5, RunningStep
<1> QED BY <1>3, <1>4, <1>5 DEF NextSegment

\* An offset at which the pattern is: it is the first, because there is nothing
\* before the cursor.  One at which it is not is left behind.
LEMMA TryOffsetStep ==
  ASSUME ScanInv, TryOffset
  PROVE  ScanInv'
<1>1. /\ place = "offset" /\ offset <= Limit /\ UNCHANGED <<request, mod, seg>>
      /\ request \in Requests /\ request # Null /\ ~request.null /\ found = Null
      /\ mod \in DOMAIN request.modules /\ request.modules[mod].named
      /\ seg \in DOMAIN Segments /\ Scanned
      /\ mod \in Nat \ {0} /\ seg \in Nat \ {0} /\ offset \in 0..(SizeRange - 1)
      /\ NothingBefore
  BY DEF TryOffset, ScanInv, ScanTypeOK, CursorInside
<1>2. \A p \in Positions(request) :
        p = <<p[1], p[2], p[3]>> /\ p[1] \in Nat /\ p[2] \in Nat /\ p[3] \in Nat
  BY <1>1, PositionParts, SegmentParts
<1>3. /\ <<mod, seg, offset>> \in Positions(request)
      /\ MatchPattern <=> Occurs(request, <<mod, seg, offset>>)
  BY <1>1, MatchIsOccurrence
<1>4. CASE MatchPattern /\ found' = <<mod, seg, offset>> /\ place' = "done" /\ UNCHANGED offset
  <2>1. \A p \in Positions(request) : Occurs(request, p) => ~Before(p, <<mod, seg, offset>>)
    BY <1>1, <1>2 DEF NothingBefore, Before
  <2>2. <<mod, seg, offset>> # Null BY <1>1, ScannerAssumption
  <2>3. FindsFirst' BY <1>1, <1>3, <1>4, <2>1, <2>2 DEF FindsFirst
  <2>4. ScanTypeOK' BY <1>1, <1>4 DEF ScanInv, ScanTypeOK, Places
  <2>5. CursorInside' BY <1>4 DEF CursorInside
  <2> QED BY <1>4, <2>3, <2>4, <2>5 DEF ScanInv
<1>5. CASE ~MatchPattern /\ offset' = (offset + 1) % SizeRange /\ UNCHANGED <<found, place>>
  <2>1. /\ Limit = PMemsz - Size /\ Limit \in 0..(SizeRange - 2)
        /\ PMemsz \in Nat /\ Size \in Nat
    BY <1>1, LimitHere
  <2>2. offset' = offset + 1 /\ offset' \in 0..(SizeRange - 1) /\ offset' <= PMemsz - Size + 1
    <3>1. /\ offset + 1 \in 0..(SizeRange - 1)
          /\ offset + 1 <= PMemsz - Size + 1
      BY <1>1, <2>1, ScannerAssumption
    <3>2. offset' = offset + 1 BY <1>5, <3>1, NoWrap
    <3> QED BY <3>1, <3>2
  <2>3. \A p \in Positions(request) : Occurs(request, p) =>
          ~(p[1] = mod /\ p[2] = seg /\ p[3] = offset)
    BY <1>2, <1>3, <1>5
  <2>4. NothingBefore' BY <1>1, <1>2, <1>5, <2>2, <2>3 DEF NothingBefore
  <2>5. UNCHANGED <<Segments, Scanned, PMemsz, Size>>
    BY <1>1, <1>5 DEF Segments, Scanned, PMemsz, Size, Here
  <2>6. CursorInside' BY <1>1, <1>5, <2>2, <2>5 DEF CursorInside
  <2> QED BY <1>1, <1>5, <2>2, <2>4, <2>6, RunningStep
<1> QED BY <1>4, <1>5 DEF TryOffset

LEMMA SegmentEndsStep ==
  ASSUME ScanInv, SegmentEnds
  PROVE  ScanInv'
<1>1. /\ place = "offset" /\ offset > Limit /\ UNCHANGED <<request, mod, offset, found>>
      /\ place' = "segment" /\ seg' = seg + 1
      /\ request \in Requests /\ request # Null /\ ~request.null /\ found = Null
      /\ mod \in DOMAIN request.modules /\ request.modules[mod].named
      /\ seg \in DOMAIN Segments /\ Scanned
      /\ mod \in Nat \ {0} /\ seg \in Nat \ {0} /\ offset \in 0..(SizeRange - 1)
      /\ NothingBefore
  BY DEF SegmentEnds, ScanInv, ScanTypeOK, CursorInside
<1>2. \A p \in Positions(request) : p[1] \in Nat /\ p[2] \in Nat /\ p[3] \in Nat
  BY <1>1, PositionParts, SegmentParts
<1>3. Limit = PMemsz - Size /\ Limit \in Nat /\ PMemsz \in Nat /\ Size \in Nat
  BY <1>1, LimitHere
<1>4. \A p \in Positions(request) : Occurs(request, p) =>
        ~(p[1] = mod /\ p[2] = seg /\ p[3] >= offset)
  <2> SUFFICES ASSUME NEW p \in Positions(request), p[1] = mod, p[2] = seg, p[3] >= offset
               PROVE  ~Occurs(request, p)
    OBVIOUS
  <2>1. ~(p[3] + Size <= PMemsz) BY <1>1, <1>2, <1>3
  <2> QED BY <2>1 DEF Occurs, PMemsz, Here, Segments, Size
<1>5. NothingBefore' BY <1>1, <1>2, <1>4 DEF NothingBefore
<1>6. CursorInside' BY <1>1 DEF CursorInside
<1> QED BY <1>1, <1>5, <1>6, RunningStep

-----------------------------------------------------------------------------
(* What the scanner promises. *)

LEMMA ScanInvStep == ScanInv /\ [ScanNext]_scanVars => ScanInv'
<1> SUFFICES ASSUME ScanInv, [ScanNext]_scanVars PROVE ScanInv'
  OBVIOUS
<1>1. CASE ScanReturns
  BY <1>1, ScannerAssumption
  DEF ScanReturns, ScanInv, ScanTypeOK, Places, CursorInside, FindsFirst
<1>2. CASE UNCHANGED scanVars
  <2>1. UNCHANGED <<request, place, mod, seg, offset, found>> BY <1>2 DEF scanVars
  <2>2. UNCHANGED <<Segments, Scanned, PMemsz, Size>>
    BY <2>1 DEF Segments, Scanned, PMemsz, Size, Here
  <2> QED BY <2>1, <2>2 DEF ScanInv, ScanTypeOK, CursorInside, NothingBefore, FindsFirst
<1> QED
  BY <1>1, <1>2, FindFirstInModuleStep, NextModuleStep, NextSegmentStep, TryOffsetStep,
     SegmentEndsStep
  DEF ScanNext

LEMMA ScanInvInit == ScanInit => ScanInv
BY ScannerAssumption DEF ScanInit, ScanInv, ScanTypeOK, Places, CursorInside, FindsFirst

THEOREM ScanInvariant == ScanSpec => []ScanInv
BY ScanInvInit, ScanInvStep, PTL DEF ScanSpec

\* No comparison reads beyond its segment, whatever the sizes.
THEOREM ScanReadsInside == ScanSpec => []ReadsInside
<1>1. ScanInv => ReadsInside
  <2> SUFFICES ASSUME ScanInv, place = "offset", offset <= Limit PROVE ReadsInside
    BY DEF ReadsInside
  <2>1. /\ mod \in DOMAIN request.modules /\ seg \in DOMAIN Segments /\ Scanned
        /\ offset \in Nat
    BY DEF ScanInv, CursorInside, ScanTypeOK
  <2>2. Limit = PMemsz - Size /\ Size \in Nat /\ PMemsz \in Nat BY <2>1, LimitHere
  <2>3. offset + Size <= PMemsz BY <2>1, <2>2
  <2> QED BY <2>1, <2>3 DEF ReadsInside
<1> QED BY <1>1, ScanInvariant, PTL

\* The scanner's result is the first occurrence of the pattern, and there is
\* none where it has no result, for every memory, pattern and mask.
THEOREM ScanFindsFirst == ScanSpec => []FindsFirst
BY ScanInvariant, PTL DEF ScanInv

-----------------------------------------------------------------------------
(* The Zygisk module's choice. *)

\* strncmp with the package's length, and the next character, are the test for
\* the game's own name and for its names with a suffix.
LEMMA TargetIsGame ==
  ASSUME NEW name \in Names
  PROVE  IsTargetProcess(name) <=> IsGameName(name)
<1> DEFINE n == Len(Package)
           rest(k) == SubSeq(name, k + 1, Len(name))
<1>1. /\ Package \in Seq(Character) /\ n \in Nat \ {0} /\ Colon \in Character
      /\ NoName # Package
      /\ name # NoName => name \in Seq(Character) /\ Len(name) \in Nat
  BY LoaderAssumption
<1>2. SubSeq(Package, 1, n) = Package BY <1>1, SubSeqFull
<1>3. ASSUME name # NoName, NEW k \in 1..Len(name)
      PROVE  rest(k) \in Seq(Character)
  BY <1>1, <1>3
<1>4. ASSUME IsTargetProcess(name) PROVE IsGameName(name)
  <2>1. /\ name # NoName /\ name \in Seq(Character) /\ Len(name) \in Nat
        /\ Len(name) >= n /\ SubSeq(name, 1, n) = Package
        /\ Len(name) = n \/ name[n + 1] = Colon
    BY <1>1, <1>4 DEF IsTargetProcess, HasPrefix
  <2>2. SubSeq(name, 1, Len(name)) = name BY <2>1, SubSeqFull
  <2>3. CASE Len(name) = n BY <2>1, <2>2, <2>3 DEF IsGameName
  <2>4. CASE Len(name) > n /\ name[n + 1] = Colon
    <3>1. n + 1 \in 1..Len(name) /\ Len(name) \in (n + 1)..Len(name)
      BY <1>1, <2>1, <2>4
    <3>2. SubSeq(name, n + 1, Len(name)) = <<Colon>> \o rest(n + 1)
      BY <2>1, <2>4, <3>1, SubSeqRecursiveFirst
    <3>3. SubSeq(name, 1, n) \o SubSeq(name, n + 1, Len(name)) = SubSeq(name, 1, Len(name))
      <4>1. 1 \in 1..(Len(name) + 1) /\ n \in (1 - 1)..Len(name) /\ Len(name) \in n..Len(name)
        BY <1>1, <2>1, <2>4
      <4> QED BY <2>1, <4>1, ConcatAdjacentSubSeq
    <3>4. rest(n + 1) \in Seq(Character) /\ <<Colon>> \in Seq(Character)
      BY <1>1, <1>3, <2>1, <3>1
    <3> HIDE DEF rest
    <3>5. name = (Package \o <<Colon>>) \o rest(n + 1)
      <4>1. name = Package \o (<<Colon>> \o rest(n + 1)) BY <2>1, <2>2, <3>2, <3>3
      <4>2. (Package \o <<Colon>>) \o rest(n + 1) = Package \o (<<Colon>> \o rest(n + 1))
        BY <1>1, <3>4, ConcatAssociative
      <4> QED BY <4>1, <4>2
    <3> QED BY <2>1, <3>1, <3>5 DEF IsGameName, rest
  <2> QED BY <1>1, <2>1, <2>3, <2>4
<1>5. ASSUME IsGameName(name) PROVE IsTargetProcess(name)
  <2>1. CASE name = Package BY <1>1, <1>2, <2>1 DEF IsTargetProcess, HasPrefix
  <2>2. CASE name # Package
    <3>1. name # NoName /\ name \in Seq(Character) /\ Len(name) \in Nat
      BY <1>1, <1>5, <2>2 DEF IsGameName
    <3>2. PICK k \in 1..Len(name) : name = (Package \o <<Colon>>) \o rest(k)
      BY <1>5, <2>2 DEF IsGameName
    <3>3. rest(k) \in Seq(Character) /\ <<Colon>> \in Seq(Character) BY <1>1, <1>3, <3>1
    <3> HIDE DEF rest
    <3> DEFINE tail == <<Colon>> \o rest(k)
    <3>4. /\ tail \in Seq(Character) /\ Len(tail) = 1 + Len(rest(k)) /\ tail[1] = Colon
          /\ Len(rest(k)) \in Nat
      BY <1>1, <3>3
    <3>5. name = Package \o tail
      <4>1. (Package \o <<Colon>>) \o rest(k) = Package \o (<<Colon>> \o rest(k))
        BY <1>1, <3>3, ConcatAssociative
      <4> QED BY <3>2, <4>1
    <3> HIDE DEF tail
    <3>6. Len(name) = n + Len(tail) /\ n + 1 \in 1..(n + Len(tail)) /\ Len(name) > n
      <4>1. Len(Package \o tail) = n + Len(tail) BY <1>1, <3>4, ConcatProperties
      <4>2. Len(name) = n + Len(tail) BY <3>5, <4>1
      <4> QED BY <1>1, <3>4, <4>2
    <3>7. name[n + 1] = Colon
      <4>1. (Package \o tail)[n + 1] = tail[(n + 1) - n]
        BY <1>1, <3>4, <3>6, ConcatProperties
      <4>2. (n + 1) - n = 1 BY <1>1
      <4> QED BY <3>4, <3>5, <4>1, <4>2
    <3>8. SubSeq(name, 1, n) = Package
      <4>1. 1 \in 1..n /\ n \in 1..n BY <1>1
      <4>2. SubSeq(Package \o tail, 1, n) = SubSeq(Package, 1, n)
        BY <1>1, <3>4, <4>1, SubSeqOfConcat1
      <4> QED BY <1>2, <3>5, <4>2
    <3> QED BY <1>1, <3>1, <3>6, <3>7, <3>8 DEF IsTargetProcess, HasPrefix
  <2> QED BY <2>1, <2>2
<1> QED BY <1>4, <1>5

-----------------------------------------------------------------------------
(* The composition. *)

\* In the composition each part behaves as it does alone: what is proved of
\* HookManager, of ZygiskLoader and of PatternScanner holds of PayloadStart.
THEOREM Composition == StartSpec => Spec /\ LoaderSpec /\ ScanSpec
<1>1. StartInit => Init /\ LoaderInit /\ ScanInit BY DEF StartInit
<1>2. [StartNext]_startVars => [Next]_vars /\ [LoaderNext]_loaderVars /\ [ScanNext]_scanVars
  BY DEF StartNext, startVars, probeVars, LoaderTurn, PayloadTurn, Probe
<1> QED BY <1>1, <1>2, PTL DEF StartSpec, Spec, LoaderSpec, ScanSpec

\* No hook group is entered twice, in whatever process the module is loaded.
THEOREM StartInstallsOnce == StartSpec => []InstallsAtMostOnce
BY Composition, InstallAtMostOnce, PTL

\* The probe finds the first occurrence, whatever the installation does.
THEOREM ProbeFindsFirst == StartSpec => [](FindsFirst /\ ReadsInside)
BY Composition, ScanFindsFirst, ScanReadsInside, PTL

\* What the module has decided, and where it is.
Decision ==
  /\ LoaderTypeOK
  /\ loader = "pre" => ~closing
  /\ loader # "pre" => (should_inject_ <=> IsGameName(nice_name))
  /\ loader \in {"access", "dlopen", "failed", "injected"} => should_inject_
  /\ loader = "idle" => ~should_inject_
  /\ loader # "pre" => (closing <=> ~should_inject_ \/ loader = "injected")

LEMMA DecisionInvariant == LoaderSpec => []Decision
<1>1. LoaderInit => Decision BY DEF LoaderInit, Decision, LoaderTypeOK
<1>2. Decision /\ [LoaderNext]_loaderVars => Decision'
  <2> SUFFICES ASSUME Decision, [LoaderNext]_loaderVars PROVE Decision' OBVIOUS
  <2> USE DEF Decision, LoaderTypeOK
  <2>1. CASE PreAppSpecialize
    <3>1. IsTargetProcess(nice_name) <=> IsGameName(nice_name) BY TargetIsGame, LoaderAssumption
    <3>2. IsTargetProcess(nice_name) \in BOOLEAN BY DEF IsTargetProcess
    <3> QED BY <2>1, <3>1, <3>2 DEF PreAppSpecialize, CloseBefore
  <2>2. UNCHANGED nice_name => (IsGameName(nice_name)' <=> IsGameName(nice_name))
    BY DEF IsGameName
  <2>3. CASE PostAppSpecialize BY <2>2, <2>3 DEF PostAppSpecialize
  <2>4. CASE AccessPayload BY <2>2, <2>4 DEF AccessPayload
  <2>5. CASE DlopenFails BY <2>2, <2>5 DEF DlopenFails
  <2>6. CASE DlopenReturns BY <2>2, <2>6 DEF DlopenReturns
  <2>7. CASE UNCHANGED loaderVars BY <2>2, <2>7 DEF loaderVars
  <2> QED BY <2>1, <2>3, <2>4, <2>5, <2>6, <2>7 DEF LoaderNext
<1> QED BY <1>1, <1>2, PTL DEF LoaderSpec

ProbedTyped == probed \in BOOLEAN

\* Every variable keeps its type, for every set of threads, names and memories.
THEOREM StartTypes == StartSpec => []StartTypeOK
<1>1. StartInit => ProbedTyped BY DEF StartInit, ProbedTyped
<1>2. ProbedTyped /\ [StartNext]_startVars => ProbedTyped'
  BY DEF ProbedTyped, StartNext, startVars, probeVars, LoaderTurn, PayloadTurn, Probe
<1>3. Decision /\ ScanInv /\ TypeOK /\ ProbedTyped => StartTypeOK
  BY DEF Decision, ScanInv, ProbedTyped, StartTypeOK
<1> QED
  BY <1>1, <1>2, <1>3, Composition, DecisionInvariant, ScanInvariant, TypeCorrect, PTL
  DEF StartSpec

\* The constructor runs inside dlopen, and is over when dlopen has returned.
Constructed ==
  /\ boot # "load" => loader \in {"dlopen", "injected"}
  /\ loader = "injected" => boot \notin {"load", "spawn"}

\* The constructor is run once, and never goes back.
LEMMA BootAdvances ==
  ASSUME Next, boot' # boot
  PROVE  boot' # "load" /\ (boot' = "spawn" => boot = "load")
BY DEF Next, Bootstrap, OnLibraryLoad, CreateBootstrapThread, InitializeBNM, PublishArmed,
       StartLateInjectionFallbackThread, CreateLateFallbackThread, ArmBNM, CallbackThread,
       OnBNMLoaded, PublishReady, StartInstallThread, CreateInstallThread, FallbackThread,
       PollCallback, PublishLate, InstallThreadMain, AttachIl2Cpp, CheckInstalled, MarkInstalled,
       PublishStart, InstallGroup, PublishSummary, DetachIl2Cpp

LEMMA ConstructedInvariant == StartSpec => []Constructed
<1>1. StartInit => Constructed BY DEF StartInit, Init, LoaderInit, Constructed
<1>2. Constructed /\ [StartNext]_startVars => Constructed'
  <2> SUFFICES ASSUME Constructed, [StartNext]_startVars PROVE Constructed' OBVIOUS
  <2> USE DEF Constructed
  <2>1. CASE LoaderTurn
    <3>1. UNCHANGED boot BY <2>1 DEF LoaderTurn, vars
    <3>2. \/ loader' = loader
          \/ loader = "dlopen" /\ loader' \in {"failed", "injected"}
          \/ loader \notin {"dlopen", "injected"} /\ loader' # "injected"
      BY <2>1 DEF LoaderTurn, LoaderNext, PreAppSpecialize, PostAppSpecialize, AccessPayload,
                  DlopenFails, DlopenReturns
    <3>3. loader = "dlopen" => IF loader' = "failed" THEN boot = "load" ELSE boot \notin {"load", "spawn"}
      BY <2>1 DEF LoaderTurn, ConstructorInside
    <3> QED BY <3>1, <3>2, <3>3
  <2>2. CASE PayloadTurn(Next)
    <3>1. /\ Next /\ (boot = "load" /\ boot' # boot => loader = "dlopen") /\ UNCHANGED loader
      BY <2>2 DEF PayloadTurn, loaderVars
    <3> QED BY <3>1, BootAdvances
  <2>3. CASE Probe BY <2>3 DEF Probe, vars, loaderVars
  <2>4. CASE UNCHANGED startVars BY <2>4 DEF startVars, vars, loaderVars
  <2> QED BY <2>1, <2>2, <2>3, <2>4 DEF StartNext
<1> QED BY <1>1, <1>2, PTL DEF StartSpec

\* Nothing of the payload happens outside the processes it is meant for, for
\* every set of names and whatever the payload's threads do.
THEOREM InTheGameOnly == StartSpec => []OnlyInTheGame
<1>1. Decision /\ Constructed /\ Stages => OnlyInTheGame
  BY DEF Decision, Constructed, Stages, OnlyInTheGame
<1> QED BY <1>1, Composition, DecisionInvariant, ConstructedInvariant, StagesInvariant, PTL

\* The module stays loaded exactly as long as it has something to do.
THEOREM ModuleLeaves == StartSpec => []LoaderLeaves
<1>1. Decision /\ Constructed /\ Stages => LoaderLeaves
  BY DEF Decision, LoaderTypeOK, Constructed, Stages, LoaderLeaves
<1> QED BY <1>1, Composition, DecisionInvariant, ConstructedInvariant, StagesInvariant, PTL
=============================================================================

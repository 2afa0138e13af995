--------------------------- MODULE PatternScanner ---------------------------
(***************************************************************************)
(* PatternScanner::FindFirstInModule: the loaded modules that bear a name  *)
(* are visited one after the other, their executable segments in the order *)
(* of the program headers, and every offset at which the pattern fits is   *)
(* tried.  Sizes are size_t: arithmetic is modulo SizeRange.               *)
(*                                                                         *)
(* A module is its name, reduced to whether strstr finds the requested one *)
(* in it, and its segments; a segment is what decides whether it is        *)
(* scanned, and its bytes.  A step is a module, a segment or an offset.    *)
(***************************************************************************)
EXTENDS Naturals, Sequences

CONSTANTS
  Byte,       \* the values of a byte
  SizeRange,  \* 2^64
  Null,       \* no result, or an argument that is nullptr
  Requests    \* the calls considered, each with the memory it finds

Segment == [load : BOOLEAN, exec : BOOLEAN, bytes : Seq(Byte)]
Module == [named : BOOLEAN, segments : Seq(Segment)]
\* mask: where the pattern counts ('x').  null: an argument is nullptr or the
\* size is 0.
Request ==
  {r \in [modules : Seq(Module), pattern : Seq(Byte), mask : Seq(BOOLEAN), null : BOOLEAN] :
     Len(r.mask) = Len(r.pattern) /\ (r.null \/ r.pattern # <<>>)}

ASSUME ScannerAssumption ==
  /\ Requests \subseteq Request
  /\ SizeRange \in Nat \ {0}
  /\ \A r \in Requests : \A m \in DOMAIN r.modules :
       \A s \in DOMAIN r.modules[m].segments :
         Len(r.modules[m].segments[s].bytes) < SizeRange
  /\ Null \notin Requests /\ Null \notin Nat \X Nat \X Nat

VARIABLES
  request,  \* the call's arguments; Null before it
  place,    \* where the scan is
  mod,      \* the module IteratePhdr is called for
  seg,      \* its segment (i)
  offset,
  found     \* req.result: module, segment and offset

scanVars == <<request, place, mod, seg, offset, found>>

ScanInit ==
  /\ request = Null
  /\ place = "idle"
  /\ mod = 1 /\ seg = 1 /\ offset = 0
  /\ found = Null

Size == Len(request.pattern)
Segments == request.modules[mod].segments
Here == Segments[seg]
PMemsz == Len(Here.bytes)

FindFirstInModule ==
  /\ place = "idle"
  /\ request' \in Requests
  /\ place' = IF request'.null THEN "done" ELSE "module"
  /\ UNCHANGED <<mod, seg, offset, found>>

\* dl_iterate_phdr comes to the next module, or to its end.
NextModule ==
  /\ place = "module"
  /\ \/ /\ mod > Len(request.modules)
        /\ place' = "done"
        /\ UNCHANGED <<mod, seg>>
     \/ /\ mod \in DOMAIN request.modules
        /\ ~request.modules[mod].named
        /\ mod' = mod + 1
        /\ UNCHANGED <<place, seg>>
     \/ /\ mod \in DOMAIN request.modules
        /\ request.modules[mod].named
        /\ place' = "segment" /\ seg' = 1
        /\ UNCHANGED mod
  /\ UNCHANGED <<request, offset, found>>

\* As if a segment shorter than the pattern were scanned too.
ScannedUnfit == Here.load /\ Here.exec
\* As if a segment of exactly the pattern's size were passed by.
ScannedLonger == Here.load /\ Here.exec /\ PMemsz > Size
\* What `continue` lets through.
Scanned == Here.load /\ Here.exec /\ PMemsz >= Size

NextSegment ==
  /\ place = "segment"
  /\ \/ /\ seg > Len(Segments)
        /\ place' = "module" /\ mod' = mod + 1
        /\ UNCHANGED <<seg, offset>>
     \/ /\ seg \in DOMAIN Segments /\ ~Scanned
        /\ seg' = seg + 1
        /\ UNCHANGED <<place, mod, offset>>
     \/ /\ seg \in DOMAIN Segments /\ Scanned
        /\ place' = "offset" /\ offset' = 0
        /\ UNCHANGED <<mod, seg>>
  /\ UNCHANGED <<request, found>>

\* The last offset.
Limit == (PMemsz + SizeRange - Size) % SizeRange

MatchPattern ==
  \A i \in 1..Size : request.mask[i] => Here.bytes[offset + i] = request.pattern[i]

TryOffset ==
  /\ place = "offset" /\ offset <= Limit
  /\ \/ /\ MatchPattern
        /\ found' = <<mod, seg, offset>>
        /\ place' = "done"
        /\ UNCHANGED offset
     \/ /\ ~MatchPattern
        /\ offset' = (offset + 1) % SizeRange
        /\ UNCHANGED <<found, place>>
  /\ UNCHANGED <<request, mod, seg>>

SegmentEnds ==
  /\ place = "offset" /\ offset > Limit
  /\ place' = "segment" /\ seg' = seg + 1
  /\ UNCHANGED <<request, mod, offset, found>>

\* The call returns found; the next one begins like the first.
ScanReturns ==
  /\ place = "done"
  /\ request' = Null
  /\ place' = "idle"
  /\ mod' = 1 /\ seg' = 1 /\ offset' = 0
  /\ found' = Null

ScanNext ==
  \/ FindFirstInModule
  \/ NextModule
  \/ NextSegment
  \/ TryOffset
  \/ SegmentEnds
  \/ ScanReturns

ScanSpec == ScanInit /\ [][ScanNext]_scanVars

-----------------------------------------------------------------------------
Places == {"idle", "module", "segment", "offset", "done"}

ScanTypeOK ==
  /\ request \in Requests \cup {Null} /\ (request = Null <=> place = "idle")
  /\ place \in Places
  /\ mod \in Nat \ {0} /\ seg \in Nat \ {0} /\ offset \in 0..(SizeRange - 1)
  /\ found # Null => place = "done" /\ found = <<mod, seg, offset>>

\* No byte is read outside the segment it is looked for in: size_t arithmetic
\* never wraps and the last offset is the last at which the pattern fits
\* (pattern_scanner.cpp 37-43).
ReadsInside ==
  place = "offset" /\ offset <= Limit =>
    /\ mod \in DOMAIN request.modules /\ seg \in DOMAIN Segments
    /\ offset + Size <= PMemsz

\* Every offset of every segment: modules, segments and offsets in the order of
\* their numbers.
Positions(r) ==
  UNION {UNION {{<<m, s, o>> : o \in 0..Len(r.modules[m].segments[s].bytes)} :
                  s \in DOMAIN r.modules[m].segments} : m \in DOMAIN r.modules}
Before(p, q) ==
  p[1] < q[1] \/ (p[1] = q[1] /\ (p[2] < q[2] \/ (p[2] = q[2] /\ p[3] < q[3])))

\* The pattern is at position p, by definition.
Occurs(r, p) ==
  LET segment == r.modules[p[1]].segments[p[2]] IN
    /\ r.modules[p[1]].named /\ segment.load /\ segment.exec
    /\ p[3] + Len(r.pattern) <= Len(segment.bytes)
    /\ \A i \in 1..Len(r.pattern) : r.mask[i] => segment.bytes[p[3] + i] = r.pattern[i]

\* The result is the first occurrence in an executable segment of a module of
\* that name, and nullptr only where there is none (FindFirstInModule's name).
FindsFirst ==
  place = "done" /\ ~request.null =>
    IF found = Null
      THEN \A p \in Positions(request) : ~Occurs(request, p)
      ELSE /\ found \in Positions(request) /\ Occurs(request, found)
           /\ \A p \in Positions(request) : Occurs(request, p) => ~Before(p, found)
=============================================================================

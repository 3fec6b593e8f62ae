--------------------------- MODULE HttpScanProofs ---------------------------
(***************************************************************************)
(* The scanner of module HttpScan stays inside the chunk and finds what it *)
(* should, for every vector width, limit N and chunk.                      *)
(***************************************************************************)
EXTENDS HttpScan, TLAPS

Slice == [start : Int, method : Int, path : Int, end : Int]

ScanTypeOK ==
  /\ len \in Nat
  /\ hits \subseteq Nat
  /\ i \in Nat
  /\ pc \in {"wide", "narrow", "emit", "parse", "done"}
  /\ resume \in {"wide", "narrow"}
  /\ bits \subseteq hits
  /\ found \in Seq(Nat)
  /\ loads \subseteq Int
  /\ k \in Nat
  /\ out \in Seq(Slice)

Recorded(p) == \E n \in DOMAIN found : found[n] = p

(* Everything before i was recorded or is still in bits, unless the limit  *)
(* N stopped the scan.                                                     *)
ScanProgress ==
  /\ Len(found) <= N
  /\ \A p \in bits : p < i
  /\ \A n \in DOMAIN found : found[n] < i /\ \A p \in bits : found[n] < p
  /\ Len(found) < N => \A p \in hits : p < i => p \in bits \/ Recorded(p)
  /\ pc # "emit" => bits = {}
  /\ pc \in {"parse", "done"} /\ Len(found) < N => ~Room(Width)

(* What was cut out so far came from the first k starts.                   *)
ParseProgress ==
  /\ k <= Len(found)
  /\ pc \notin {"parse", "done"} => k = 0
  /\ \A n \in DOMAIN out : \E m \in 1 .. k : out[n].start = found[m]

ScanInv ==
  /\ ScanTypeOK
  /\ ScanProgress
  /\ ParseProgress
  /\ LoadsInBounds
  /\ StartsInOrder
  /\ SlicesInBounds

LEMMA ScanInvInit == Init => ScanInv
<1> SUFFICES ASSUME Init PROVE ScanInv
  OBVIOUS
<1> USE ScanAssumption DEF Init, ChunkInit, ScanInit
<1>1. ScanTypeOK
  BY DEF ScanTypeOK, Mark
<1>2. ScanProgress
  BY DEF ScanProgress
<1>3. ParseProgress
  BY DEF ParseProgress
<1>4. LoadsInBounds
  BY DEF LoadsInBounds
<1>5. StartsInOrder
  BY DEF StartsInOrder
<1>6. SlicesInBounds
  BY DEF SlicesInBounds
<1>7. QED
  BY <1>1, <1>2, <1>3, <1>4, <1>5, <1>6 DEF ScanInv

(* A turn of either loop: the loads stay inside the chunk, and the marks   *)
(* of the turn become bits.                                                *)
LEMMA TurnPreserves ==
  ASSUME ScanInv, NEW w \in {Width, 2 * Width},
         Room(w), Len(found) < N, pc \in {"wide", "narrow"},
         loads' \subseteq {i, i + 1, i + 2, i + Width, i + Width + 1, i + Width + 2},
         w = Width => loads' \subseteq {i, i + 1, i + 2},
         bits' = Window(w), i' = i + w, pc' = "emit", resume' \in {"wide", "narrow"},
         UNCHANGED <<chunk, found, k, out>>
  PROVE  ScanInv'
<1> USE ScanAssumption DEF ScanInv, ScanTypeOK, chunk
<1>1. ScanTypeOK'
  BY DEF Window
<1>2. ScanProgress'
  <2>1. /\ bits = {} /\ i \in Nat /\ i' \in Nat /\ i' > i
        /\ \A q \in bits' : q \in Nat /\ i <= q /\ q < i'
    BY DEF ScanProgress, Window
  <2>2. \A n \in DOMAIN found : found[n] \in Nat /\ found[n] < i
    BY DEF ScanProgress
  <2>3. \A q \in hits : q < i' => q \in bits' \/ Recorded(q)
    BY DEF ScanProgress, Window
  <2>4. \A q \in hits : Recorded(q) <=> Recorded(q)'
    BY DEF Recorded
  <2>5. ASSUME NEW n \in DOMAIN found
        PROVE  found[n] < i' /\ \A q \in bits' : found[n] < q
    <3> HIDE DEF ScanInv, ScanTypeOK
    <3>1. found[n] \in Nat /\ found[n] < i
      BY <2>2
    <3>2. QED
      BY <2>1, <3>1
  <2>6. QED
    BY <2>1, <2>3, <2>4, <2>5 DEF ScanProgress
<1>3. ParseProgress'
  BY DEF ParseProgress
<1>4. LoadsInBounds'
  BY DEF LoadsInBounds, Room
<1>5. StartsInOrder'
  BY DEF StartsInOrder
<1>6. SlicesInBounds'
  BY DEF SlicesInBounds
<1>7. QED
  BY <1>1, <1>2, <1>3, <1>4, <1>5, <1>6

(* Recording the lowest bit keeps the starts complete and in order.        *)
LEMMA EmitPreserves == ScanInv /\ Emit => ScanInv'
<1> SUFFICES ASSUME ScanInv, Emit PROVE ScanInv'
  OBVIOUS
<1> USE ScanAssumption DEF ScanInv, ScanTypeOK, Emit, chunk
<1>1. PICK p \in bits : Lowest(p) /\ found' = Append(found, p) /\ bits' = bits \ {p}
  OBVIOUS
<1>2. /\ Len(found') = Len(found) + 1
      /\ found'[Len(found) + 1] = p
      /\ \A n \in DOMAIN found : n \in DOMAIN found' /\ found'[n] = found[n]
      /\ \A n \in DOMAIN found' : n = Len(found) + 1 \/ n \in DOMAIN found
      /\ Len(found) + 1 \in DOMAIN found'
  BY <1>1
<1>3. ScanTypeOK'
  BY <1>1
<1>4. ScanProgress'
  <2>1. \A q \in bits' : p < q
    BY <1>1 DEF Lowest
  <2>2. \A q \in hits : Recorded(q) => Recorded(q)'
    BY <1>2 DEF Recorded
  <2>3. Recorded(p)'
    BY <1>2 DEF Recorded
  <2>4. QED
    BY <1>1, <1>2, <2>1, <2>2, <2>3 DEF ScanProgress
<1>5. ParseProgress'
  BY <1>1, <1>2 DEF ParseProgress
<1>6. LoadsInBounds'
  BY DEF LoadsInBounds
<1>7. StartsInOrder'
  <2>1. \A q \in hits : q < p => \E m \in DOMAIN found : found[m] = q
    BY <1>1 DEF ScanProgress, Lowest, Recorded
  <2>2. \A m \in DOMAIN found : found[m] < p
    BY <1>1 DEF ScanProgress
  <2>3. QED
    BY <1>1, <1>2, <2>1, <2>2 DEF StartsInOrder
<1>8. SlicesInBounds'
  BY DEF SlicesInBounds
<1>9. QED
  BY <1>3, <1>4, <1>5, <1>6, <1>7, <1>8

(* What parse_one_manual cuts out of the vector at p.                      *)
LEMMA ParsedSlice ==
  ASSUME NEW p \in Nat, NEW r \in Parsed(p)
  PROVE  /\ r \in Slice
         /\ r.start = p
         /\ r.path > r.method
         /\ (r.path <= r.end /\ r.end < Width) \/ r.method = Width - 1
<1> USE ScanAssumption
<1>0. PICK m \in Least(SpacesAt(p)) :
         r \in {[start |-> p, method |-> m, path |-> m + 1, end |-> e] : e \in PathEnds(p, m)}
  BY DEF Parsed
<1>1. PICK e \in PathEnds(p, m) :
         r = [start |-> p, method |-> m, path |-> m + 1, end |-> e]
  BY <1>0
<1>2. m \in 0 .. Width - 1
  BY <1>0 DEF Least, SpacesAt
<1>3. CASE m = Width - 1
  BY <1>1, <1>2, <1>3 DEF PathEnds, Slice
<1>4. CASE m # Width - 1
  <2>1. e \in 0 .. Width - 1 /\ e > m
    BY <1>1, <1>4 DEF PathEnds, Least, SpacesAt
  <2>2. QED
    BY <1>1, <1>2, <2>1 DEF Slice
<1>5. QED
  BY <1>3, <1>4

LEMMA ParsePreserves == ScanInv /\ Parse => ScanInv'
<1> SUFFICES ASSUME ScanInv, Parse PROVE ScanInv'
  OBVIOUS
<1> DEFINE p == found[k + 1]
<1>1. /\ len \in Nat /\ hits \subseteq Nat /\ k \in Nat
      /\ found \in Seq(Nat) /\ out \in Seq(Slice)
      /\ DOMAIN found = 1 .. Len(found) /\ DOMAIN out = 1 .. Len(out)
      /\ Width \in Nat
  BY ScanAssumption DEF ScanInv, ScanTypeOK
<1>2. /\ pc = "parse" /\ k < Len(found) /\ Fits(p)
      /\ loads' = {p} /\ k' = k + 1
      /\ UNCHANGED <<len, hits, i, pc, resume, bits, found>>
      /\ out' = out \/ \E r \in Parsed(p) : out' = Append(out, r)
  BY DEF Parse, chunk
<1>3. p \in hits /\ p \in Nat /\ k + 1 \in DOMAIN found
  BY <1>1, <1>2 DEF ScanInv, StartsInOrder
<1>4. p + Width <= len
  BY <1>2 DEF Fits
<1> HIDE DEF p
<1>5. LoadsInBounds'
  BY <1>1, <1>2, <1>3, <1>4 DEF LoadsInBounds
<1>6. StartsInOrder' /\ ScanProgress'
  BY <1>1, <1>2 DEF ScanInv, StartsInOrder, ScanProgress, Recorded, Room
<1>7. out' \in Seq(Slice) => ScanTypeOK'
  BY <1>1, <1>2, <1>3 DEF ScanInv, ScanTypeOK
<1>8. CASE out' = out
  <2>1. ParseProgress'
    BY <1>1, <1>2, <1>8 DEF ScanInv, ParseProgress
  <2>2. SlicesInBounds'
    BY <1>2, <1>8 DEF ScanInv, SlicesInBounds
  <2>3. QED
    BY <1>1, <1>5, <1>6, <1>7, <1>8, <2>1, <2>2 DEF ScanInv
<1>9. ASSUME NEW r \in Parsed(p), out' = Append(out, r)
      PROVE  ScanInv'
  <2>1. /\ r \in Slice /\ r.start = p /\ r.path > r.method
        /\ (r.path <= r.end /\ r.end < Width) \/ r.method = Width - 1
    BY <1>3, <1>9, ParsedSlice
  <2>2. /\ DOMAIN out' = 1 .. Len(out) + 1
        /\ out'[Len(out) + 1] = r
        /\ \A n \in DOMAIN out : out'[n] = out[n]
        /\ out' \in Seq(Slice)
    BY <1>1, <1>9, <2>1
  <2>3. ParseProgress'
    <3>1. \A n \in DOMAIN out : \E m \in 1 .. k : out[n].start = found[m]
      BY DEF ScanInv, ParseProgress
    <3>2. \A n \in DOMAIN out' : \E m \in 1 .. k + 1 : out'[n].start = found[m]
      <4> SUFFICES ASSUME NEW n \in DOMAIN out'
                   PROVE  \E m \in 1 .. k + 1 : out'[n].start = found[m]
        OBVIOUS
      <4>1. CASE n \in DOMAIN out
        <5>1. PICK m \in 1 .. k : out[n].start = found[m]
          BY <3>1, <4>1
        <5>2. m \in 1 .. k + 1 /\ out'[n] = out[n]
          BY <1>1, <2>2, <4>1
        <5>3. QED
          BY <5>1, <5>2
      <4>2. CASE n = Len(out) + 1
        <5>1. out'[n] = r /\ r.start = found[k + 1]
          BY <2>1, <2>2, <4>2 DEF p
        <5>2. k + 1 \in 1 .. k + 1
          BY <1>1
        <5>3. QED
          BY <5>1, <5>2
      <4>3. n \in DOMAIN out \/ n = Len(out) + 1
        BY <1>1, <2>2
      <4>4. QED
        BY <4>1, <4>2, <4>3
    <3>3. k' = k + 1 /\ found' = found /\ pc' = "parse"
      BY <1>2
    <3>4. k' <= Len(found')
      BY <1>1, <1>2, <3>3
    <3>5. \A n \in DOMAIN out' : \E m \in 1 .. k' : out'[n].start = found'[m]
      <4> SUFFICES ASSUME NEW n \in DOMAIN out'
                   PROVE  \E m \in 1 .. k' : out'[n].start = found'[m]
        OBVIOUS
      <4>1. PICK m \in 1 .. k + 1 : out'[n].start = found[m]
        BY <3>2
      <4>2. m \in 1 .. k' /\ out'[n].start = found'[m]
        BY <3>3, <4>1
      <4>3. QED
        BY <4>2
    <3>6. QED
      BY <3>3, <3>4, <3>5 DEF ParseProgress
  <2>4. \A n \in DOMAIN out : out[n].start < p
    <3> SUFFICES ASSUME NEW n \in DOMAIN out PROVE out[n].start < p
      OBVIOUS
    <3>1. PICK m \in 1 .. k : out[n].start = found[m]
      BY DEF ScanInv, ParseProgress
    <3>2. m \in DOMAIN found /\ m < k + 1
      BY <1>1, <1>2
    <3>3. found[m] < found[k + 1]
      BY <1>1, <1>3, <3>2 DEF ScanInv, StartsInOrder
    <3>4. QED
      BY <3>1, <3>3 DEF p
  <2>5. r.method # Width - 1 => r.start + r.end < len
    BY <1>1, <1>3, <1>4, <2>1 DEF Slice
  <2>6. SlicesInBounds'
    <3> SUFFICES ASSUME NEW n \in DOMAIN out'
                 PROVE  /\ out'[n].path > out'[n].method
                        /\ \/ out'[n].path <= out'[n].end /\ out'[n].start + out'[n].end < len'
                           \/ out'[n].method = Width - 1
                        /\ \A m \in 1 .. n - 1 : out'[m].start < out'[n].start
      BY DEF SlicesInBounds
    <3>1. CASE n \in DOMAIN out
      <4>1. \A m \in 1 .. n - 1 : m \in DOMAIN out
        BY <1>1, <3>1
      <4>2. QED
        BY <1>2, <2>2, <3>1, <4>1 DEF ScanInv, SlicesInBounds
    <3>2. CASE n = Len(out) + 1
      <4>1. \A m \in 1 .. n - 1 : m \in DOMAIN out
        BY <1>1, <3>2
      <4>2. QED
        BY <1>2, <2>1, <2>2, <2>4, <2>5, <3>2, <4>1
    <3>3. QED
      BY <1>1, <2>2, <3>1, <3>2
  <2>7. QED
    BY <1>5, <1>6, <1>7, <2>2, <2>3, <2>6 DEF ScanInv
<1>10. QED
  BY <1>2, <1>8, <1>9

LEMMA ScanInvNext == ScanInv /\ [Next]_vars => ScanInv'
<1> SUFFICES ASSUME ScanInv, [Next]_vars PROVE ScanInv'
  OBVIOUS
<1>1. CASE WideTurn
  BY <1>1, TurnPreserves, ScanAssumption DEF WideTurn, Shifts
<1>2. CASE NarrowTurn
  BY <1>2, TurnPreserves, ScanAssumption DEF NarrowTurn, Shifts
<1>3. CASE Emit
  BY <1>3, EmitPreserves
<1>4. CASE Parse
  BY <1>4, ParsePreserves
<1> USE ScanAssumption DEF ScanInv, ScanTypeOK, ScanProgress, ParseProgress, LoadsInBounds,
        StartsInOrder, SlicesInBounds, Recorded, Room, chunk
<1>5. CASE WideEnd
  BY <1>5 DEF WideEnd
<1>6. CASE NarrowEnd
  BY <1>6 DEF NarrowEnd
<1>7. CASE EmitEnd
  BY <1>7 DEF EmitEnd
<1>8. CASE ParseEnd
  BY <1>8 DEF ParseEnd
<1>9. CASE UNCHANGED vars
  BY <1>9 DEF vars
<1>10. QED
  BY <1>1, <1>2, <1>3, <1>4, <1>5, <1>6, <1>7, <1>8, <1>9 DEF Next, Done

THEOREM ScanInvariant == Spec => []ScanInv
<1>1. QED
  BY ScanInvInit, ScanInvNext, PTL DEF Spec

(* Every vector load of find_request_starts_avx2 and parse_one_manual      *)
(* reads inside the chunk, for chunks of every length.                     *)
THEOREM LoadsStayInBounds == Spec => []LoadsInBounds
<1>1. ScanInv => LoadsInBounds
  BY DEF ScanInv
<1>2. QED
  BY <1>1, ScanInvariant, PTL

(* The starts are the first marks of the chunk, in order.                  *)
THEOREM StartsAreInOrder == Spec => []StartsInOrder
<1>1. ScanInv => StartsInOrder
  BY DEF ScanInv
<1>2. QED
  BY <1>1, ScanInvariant, PTL

(* Below the limit N, no mark with a vector and two bytes after it is      *)
(* missed.                                                                 *)
THEOREM NoStartIsMissed == Spec => []NoStartMissed
<1>1. ScanInv => NoStartMissed
  BY ScanAssumption
     DEF ScanInv, ScanTypeOK, ScanProgress, NoStartMissed, Recorded, Room
<1>2. QED
  BY <1>1, ScanInvariant, PTL

(* Methods and paths are cut inside the chunk, in the order of the starts, *)
(* except where the first space is the last byte of the vector.            *)
THEOREM SlicesStayInBounds == Spec => []SlicesInBounds
<1>1. ScanInv => SlicesInBounds
  BY DEF ScanInv
<1>2. QED
  BY <1>1, ScanInvariant, PTL
=============================================================================

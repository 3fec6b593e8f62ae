------------------------------ MODULE HttpScan ------------------------------
(***************************************************************************)
(* The request scanner of utils/http.rs over one received chunk:           *)
(* find_request_starts_avx2 looks for "GET" and "POS" a vector at a time,  *)
(* parse_http_methods_paths then cuts a method and a path at every start.  *)
(*                                                                         *)
(* The bytes matter only through the positions of the three-letter marks   *)
(* (hits) and of the spaces. A vector has Width bytes (32 in the code);    *)
(* the first loop takes two vectors per turn, the second one.              *)
(***************************************************************************)
EXTENDS Integers, Sequences

CONSTANTS
  Width,      \* bytes of a vector (32)
  N,          \* requests taken from a chunk (50)
  MaxLen      \* bound: length of a chunk (BUFFER_SIZE)

ASSUME ScanAssumption ==
  /\ Width \in Nat /\ Width > 3
  /\ N \in Nat
  /\ MaxLen \in Nat

Mark == 3     \* length of "GET", "POS"

VARIABLES
  len, hits, spaces,    \* the chunk
  i,                    \* offset of the next turn
  pc,                   \* "wide", "narrow", "emit", "parse" or "done"
  resume,               \* the loop that "emit" returns to
  bits,                 \* marks of the current turn that are still to be recorded
  found,                \* starts recorded so far
  loads,                \* offsets of the vectors loaded in the last step
  k,                    \* starts parsed so far
  out                   \* slices of the requests cut out
vars == <<len, hits, spaces, i, pc, resume, bits, found, loads, k, out>>
chunk == <<len, hits, spaces>>

(* Marks do not overlap, and their letters are not spaces.                 *)
Letters == UNION {p .. p + Mark - 1 : p \in hits}

ChunkInit ==
  /\ len \in 0 .. MaxLen
  /\ hits \in {S \in SUBSET (0 .. len - Mark) : \A p, q \in S : p < q => p + Mark <= q}
  /\ spaces \in SUBSET ((0 .. len - 1) \ Letters)

ScanInit ==
  /\ i = 0 /\ pc = "wide" /\ resume = "wide" /\ bits = {} /\ found = <<>>
  /\ loads = {} /\ k = 0 /\ out = <<>>

Init == ChunkInit /\ ScanInit

-----------------------------------------------------------------------------
(* find_request_starts_avx2                                                *)

Window(n) == {p \in hits : i <= p /\ p < i + n}

(* A slip in a loop's condition: the two bytes after the vector that the   *)
(* shifted loads read are forgotten, or two bytes too many are asked for.  *)
RoomBarely(n) == i + n <= len
RoomGenerous(n) == i + n + 4 <= len
Room(n) == i + n + 2 <= len

(* The three loads per vector, shifted by 0, 1 and 2.                      *)
Shifts(o) == {o, o + 1, o + 2}

WideTurn ==
  /\ pc = "wide" /\ Room(2 * Width) /\ Len(found) < N
  /\ loads' = Shifts(i) \cup Shifts(i + Width)
  /\ bits' = Window(2 * Width)
  /\ i' = i + 2 * Width
  /\ pc' = "emit" /\ resume' = "wide"
  /\ UNCHANGED <<chunk, found, k, out>>

WideEnd ==
  /\ pc = "wide" /\ ~(Room(2 * Width) /\ Len(found) < N)
  /\ pc' = "narrow"
  /\ UNCHANGED <<chunk, i, resume, bits, found, loads, k, out>>

NarrowTurn ==
  /\ pc = "narrow" /\ Room(Width) /\ Len(found) < N
  /\ loads' = Shifts(i)
  /\ bits' = Window(Width)
  /\ i' = i + Width
  /\ pc' = "emit" /\ resume' = "narrow"
  /\ UNCHANGED <<chunk, found, k, out>>

NarrowEnd ==
  /\ pc = "narrow" /\ ~(Room(Width) /\ Len(found) < N)
  /\ pc' = "parse"
  /\ UNCHANGED <<chunk, i, resume, bits, found, loads, k, out>>

(* bits.trailing_zeros() and bits &= bits - 1: the lowest mark first.      *)
(* A slip: the highest first.                                              *)
Highest(p) == \A q \in bits : q <= p
Lowest(p) == \A q \in bits : p <= q

Emit ==
  /\ pc = "emit" /\ Len(found) < N
  /\ \E p \in bits :
       /\ Lowest(p)
       /\ found' = Append(found, p)
       /\ bits' = bits \ {p}
  /\ UNCHANGED <<chunk, i, pc, resume, loads, k, out>>

EmitEnd ==
  /\ pc = "emit" /\ (bits = {} \/ Len(found) >= N)
  /\ pc' = resume
  /\ bits' = {}
  /\ UNCHANGED <<chunk, i, resume, found, loads, k, out>>

-----------------------------------------------------------------------------
(* parse_http_methods_paths and parse_one_manual                           *)

(* The offsets of the spaces in the vector at p.                           *)
SpacesAt(p) == {d \in 0 .. Width - 1 : p + d \in spaces}

Least(S) == {d \in S : \A c \in S : d <= c}

(* The method ends at the first space and the path at the second. When the *)
(* first space is the last byte of the vector the mask is shifted by its   *)
(* own width, which leaves it as it was: the path is then taken to be as   *)
(* long as the method. A slip: the mask is shifted by the method's length  *)
(* alone, and the first space is found again.                              *)
ShiftedByMethod(p, m) == Least({d \in SpacesAt(p) : d >= m})
PathEnds(p, m) ==
  IF m = Width - 1 THEN {2 * Width - 1} ELSE Least({d \in SpacesAt(p) : d > m})
Parsed(p) ==
  UNION {{[start |-> p, method |-> m, path |-> m + 1, end |-> e] : e \in PathEnds(p, m)} :
           m \in Least(SpacesAt(p))}

(* Is there a vector at p?                                                 *)
Fits(p) == p + Width <= len

Parse ==
  /\ pc = "parse" /\ k < Len(found) /\ Fits(found[k + 1])
  /\ loads' = {found[k + 1]}
  /\ k' = k + 1
  /\ \/ \E r \in Parsed(found[k + 1]) : out' = Append(out, r)
     \/ Parsed(found[k + 1]) = {} /\ UNCHANGED out
  /\ UNCHANGED <<chunk, i, pc, resume, bits, found>>

ParseEnd ==
  /\ pc = "parse" /\ (k < Len(found) => ~Fits(found[k + 1]))
  /\ pc' = "done"
  /\ UNCHANGED <<chunk, i, resume, bits, found, loads, k, out>>

Done == pc = "done" /\ UNCHANGED vars

Next == \/ WideTurn \/ WideEnd \/ NarrowTurn \/ NarrowEnd \/ Emit \/ EmitEnd
        \/ Parse \/ ParseEnd \/ Done

Spec == Init /\ [][Next]_vars

-----------------------------------------------------------------------------
(* Every vector load of the two scan loops and of parse_one_manual reads   *)
(* inside the chunk.                                                       *)
LoadsInBounds == \A o \in loads : 0 <= o /\ o + Width <= len

(* The starts are marks of the chunk in strictly increasing order, none is *)
(* skipped between two of them, and at most N are taken.                   *)
StartsInOrder ==
  /\ Len(found) <= N
  /\ \A n \in DOMAIN found : found[n] \in hits
  /\ \A m, n \in DOMAIN found : m < n => found[m] < found[n]
  /\ \A n \in DOMAIN found : \A p \in hits :
       p < found[n] => \E m \in DOMAIN found : found[m] = p

(* Unless N starts were found, no mark with a vector and two more bytes    *)
(* after it is missed, wherever the turns of the two loops fell.           *)
NoStartMissed ==
  pc \in {"parse", "done"} /\ Len(found) < N =>
    \A p \in hits : p + Width + 2 <= len => \E n \in DOMAIN found : found[n] = p

(* A path that ends inside the vector lies inside the chunk, after its     *)
(* method; every request cut out comes from a recorded start, in order.    *)
SlicesInBounds ==
  \A n \in DOMAIN out :
    /\ out[n].path > out[n].method
    /\ \/ out[n].path <= out[n].end /\ out[n].start + out[n].end < len
       \/ out[n].method = Width - 1
    /\ \A m \in 1 .. n - 1 : out[m].start < out[n].start
=============================================================================

------------------------- MODULE RequestPathProofs -------------------------
(***************************************************************************)
(* The responses to a chunk fit the buffers and lie in order, for every    *)
(* chunk, limit and vector width, and for all lengths of responses within  *)
(* SizeAssumption.                                                         *)
(***************************************************************************)
EXTENDS RequestPath, HttpScanProofs, FiniteSetTheorems, WellFoundedInduction

Response == [for : Int, route : Routes, at : Nat, len : Nat, content_length : Nat]

(* A bound on the length of a response that SizeAssumption leaves room for *)
(* N times.                                                                *)
Holds(b) ==
  /\ \A r \in Routes : ResponseLen(r) <= b
  /\ N * b <= CacheSize /\ N * b <= SlotSize
Longest == CHOOSE b \in Nat : Holds(b)

End(c) == IF c = <<>> THEN 0 ELSE c[Len(c)].at + c[Len(c)].len

PathTypes ==
  /\ json_pos \in Nat /\ lake_pos \in Nat /\ total_len \in Nat /\ slot \in Nat
  /\ cache \in Seq(Response)
  /\ json_pos <= JsonSize /\ lake_pos <= LakeSize

(* Responses exist only for requests that were cut out, one each.          *)
Answered ==
  /\ Len(out) <= k
  /\ pc # "done" => cache = <<>>
  /\ Len(cache) <= Len(out)
  /\ \A n \in 1 .. Len(cache) : cache[n].for = out[n].start

Tiled(c, n) ==
  /\ c[n].len = ResponseLen(c[n].route)
  /\ c[n].content_length = BodyLen[c[n].route]
  /\ c[n].at = IF n = 1 THEN 0 ELSE c[n - 1].at + c[n - 1].len

Counted ==
  /\ \A n \in 1 .. Len(cache) : Tiled(cache, n)
  /\ total_len = End(cache)
  /\ total_len <= Len(cache) * Longest
  /\ slot = 0 \/ slot = total_len

PathInv == ScanInv /\ PathTypes /\ Answered /\ Counted

-----------------------------------------------------------------------------
LEMMA RouteLengths ==
  ASSUME NEW r \in Routes
  PROVE  /\ StatusLen[r] \in Nat /\ TypeLen[r] \in Nat /\ BodyLen[r] \in Nat /\ FixedLen \in Nat
         /\ ResponseLen(r) \in Nat
         /\ ResponseLen(r) = StatusLen[r] + TypeLen[r] + FixedLen + BodyLen[r]
<1>1. StatusLen \in [Routes -> Nat] /\ TypeLen \in [Routes -> Nat] /\ BodyLen \in [Routes -> Nat]
  BY SizeAssumption
<1>2. StatusLen[r] \in Nat /\ TypeLen[r] \in Nat /\ BodyLen[r] \in Nat /\ FixedLen \in Nat
  BY <1>1, SizeAssumption
<1> QED
  BY <1>2 DEF ResponseLen

(* Of three lengths one is the longest.                                    *)
LEMMA LongestHolds == Longest \in Nat /\ Holds(Longest)
<1>1. \E b \in Nat : Holds(b)
  <2> DEFINE x == ResponseLen("plaintext")
             y == ResponseLen("json")
             z == ResponseLen("not_found")
  <2>1. x \in Nat /\ y \in Nat /\ z \in Nat
    BY RouteLengths DEF Routes
  <2>2. \A r \in Routes : ResponseLen(r) = x \/ ResponseLen(r) = y \/ ResponseLen(r) = z
    BY DEF Routes
  <2>3. /\ N * x <= CacheSize /\ N * y <= CacheSize /\ N * z <= CacheSize
        /\ N * x <= SlotSize /\ N * y <= SlotSize /\ N * z <= SlotSize
    BY SizeAssumption DEF Routes
  <2> HIDE DEF x, y, z
  <2>4. CASE y <= x /\ z <= x
    BY <2>1, <2>2, <2>3, <2>4 DEF Holds
  <2>5. CASE x <= y /\ z <= y
    BY <2>1, <2>2, <2>3, <2>5 DEF Holds
  <2>6. CASE x <= z /\ y <= z
    BY <2>1, <2>2, <2>3, <2>6 DEF Holds
  <2> QED
    BY <2>1, <2>4, <2>5, <2>6
<1> QED
  BY <1>1 DEF Longest

LEMMA Product ==
  ASSUME NEW a \in Nat, NEW b \in Nat, NEW c \in Nat, a <= b
  PROVE  a * c <= b * c /\ (a + 1) * c = a * c + c /\ a * c \in Nat /\ b * c \in Nat
OBVIOUS

(* The scanner adds at most one request per start.                         *)
LEMMA ScanKeepsAnswered == PathInv /\ Scan => PathInv'
<1> SUFFICES ASSUME PathInv, Next, UNCHANGED pathVars PROVE PathInv'
  BY DEF Scan
<1>0. /\ json_pos' = json_pos /\ lake_pos' = lake_pos /\ cache' = cache
      /\ total_len' = total_len /\ slot' = slot
  BY DEF pathVars
<1>1. ScanInv'
  BY ScanInvNext DEF PathInv
<1>2. PathTypes' /\ Counted'
  BY <1>0 DEF PathInv, PathTypes, Counted, Tiled
<1>3. pc = "done" => UNCHANGED vars
  BY DEF Next, WideTurn, WideEnd, NarrowTurn, NarrowEnd, Emit, EmitEnd, Parse, ParseEnd, Done
<1>4. Len(out') <= k'
  <2>0. k \in Nat /\ out \in Seq(Slice) /\ Len(out) <= k
    BY DEF PathInv, Answered, ScanInv, ScanTypeOK
  <2>1. CASE Parse
    <3>1. k' = k + 1 /\ (out' = out \/ \E r \in Parsed(found[k + 1]) : out' = Append(out, r))
      BY <2>1 DEF Parse
    <3> QED
      BY <2>0, <3>1
  <2>2. CASE ~Parse
    <3>1. k' = k /\ out' = out
      BY <2>2 DEF Next, WideTurn, WideEnd, NarrowTurn, NarrowEnd, Emit, EmitEnd, ParseEnd, Done, vars
    <3> QED
      BY <2>0, <3>1
  <2> QED
    BY <2>1, <2>2
<1>5. Answered'
  <2>1. CASE pc = "done"
    BY <1>0, <1>3, <1>4, <2>1 DEF PathInv, Answered, vars
  <2>2. CASE pc # "done"
    <3>1. cache' = <<>> /\ Len(<<>>) = 0 /\ Len(out') \in Nat
      BY <1>0, <1>1, <2>2 DEF PathInv, Answered, ScanInv, ScanTypeOK
    <3> QED
      BY <1>4, <3>1 DEF Answered
  <2> QED
    BY <2>1, <2>2
<1> QED
  BY <1>1, <1>2, <1>5 DEF PathInv

(* One response is built from empty buffers and goes behind the last one.  *)
LEMMA HandlerPreserves == PathInv /\ handler => PathInv'
<1> SUFFICES ASSUME PathInv, handler PROVE PathInv'
  OBVIOUS
<1> DEFINE L == Len(cache)
<1>0. /\ UNCHANGED vars /\ slot' = slot /\ slot = 0 /\ pc = "done" /\ L < Len(out)
      /\ total_len' = total_len + lake_pos'
  BY DEF handler
<1>1. /\ cache \in Seq(Response) /\ L \in Nat /\ total_len \in Nat /\ json_pos \in Nat
      /\ out \in Seq(Slice) /\ N \in Nat /\ k \in Nat
  BY ScanAssumption DEF PathInv, PathTypes, ScanInv, ScanTypeOK
<1>2. PICK r \in Routes :
        /\ json_pos' = JsonBody(r)
        /\ lake_pos' = reset_pos(lake_pos, LakeSize) + StatusLen[r] + TypeLen[r] + FixedLen + Body(r)
        /\ cache' = Append(cache, [for |-> out[L + 1].start, route |-> r, at |-> CacheAt,
                                   len |-> lake_pos', content_length |-> TwoDigits(Body(r))])
  BY DEF handler
<1>3. /\ ResponseLen(r) \in Nat /\ BodyLen[r] \in Nat /\ BodyLen[r] < 100
      /\ ResponseLen(r) <= LakeSize /\ BodyLen["json"] \in Nat /\ BodyLen["json"] <= JsonSize
      /\ JsonSize \in Nat
  BY RouteLengths, SizeAssumption DEF Routes
<1>4. /\ Body(r) = BodyLen[r] /\ json_pos' \in Nat /\ json_pos' <= JsonSize
  <2>1. CASE r = "json"
    BY <1>2, <1>3, <2>1 DEF Body, JsonBody, reset_pos
  <2>2. CASE r # "json"
    BY <1>2, <1>3, <2>2 DEF Body, JsonBody, reset_pos
  <2> QED
    BY <2>1, <2>2
<1>5. lake_pos' = ResponseLen(r)
  <2>1. lake_pos' = 0 + StatusLen[r] + TypeLen[r] + FixedLen + BodyLen[r]
    BY <1>2, <1>4 DEF reset_pos
  <2> QED
    BY <2>1, RouteLengths
<1>6. TwoDigits(Body(r)) = BodyLen[r]
  BY <1>3, <1>4 DEF TwoDigits
<1> DEFINE new == [for |-> out[L + 1].start, route |-> r, at |-> total_len,
                   len |-> ResponseLen(r), content_length |-> BodyLen[r]]
<1>7. cache' = Append(cache, new)
  BY <1>2, <1>5, <1>6 DEF CacheAt
<1>8. new \in Response
  <2>1. out[L + 1] \in Slice
    BY <1>0, <1>1
  <2>2. out[L + 1].start \in Int
    BY <2>1 DEF Slice
  <2> QED
    BY <1>1, <1>3, <2>2 DEF Response
<1>9. /\ new.for = out[L + 1].start /\ new.route = r /\ new.at = total_len
      /\ new.len = ResponseLen(r) /\ new.content_length = BodyLen[r]
  OBVIOUS
<1> HIDE DEF new
<1>10. /\ cache' \in Seq(Response) /\ Len(cache') = L + 1 /\ cache'[L + 1] = new
       /\ \A n \in 1 .. L : cache'[n] = cache[n]
  BY <1>1, <1>7, <1>8
<1>11. ScanInv'
  BY <1>0, ScanInvNext DEF PathInv
<1>12. PathTypes'
  BY <1>0, <1>1, <1>3, <1>4, <1>5, <1>10 DEF PathTypes
<1>13. Answered'
  <2>0. out' = out /\ k' = k /\ pc' = "done"
    BY <1>0 DEF vars
  <2>1. \A n \in 1 .. L + 1 : cache'[n].for = out[n].start
    <3>1. \A n \in 1 .. L : cache'[n].for = out[n].start
      BY <1>10 DEF PathInv, Answered
    <3>2. \A n \in 1 .. L + 1 : n \in 1 .. L \/ n = L + 1
      BY <1>1
    <3> QED
      BY <1>9, <1>10, <3>1, <3>2
  <2>2. Len(out) <= k /\ L + 1 <= Len(out)
    BY <1>0, <1>1 DEF PathInv, Answered
  <2> QED
    BY <1>10, <2>0, <2>1, <2>2 DEF Answered
<1>14. Counted'
  <2>1. total_len' = total_len + ResponseLen(r) /\ slot' = 0
    BY <1>0, <1>5
  <2>2. total_len' = End(cache')
    <3>1. cache' # <<>>
      BY <1>1, <1>10
    <3> QED
      BY <1>9, <1>10, <2>1, <3>1 DEF End
  <2>3. total_len' <= (L + 1) * Longest
    <3>1. Longest \in Nat /\ ResponseLen(r) <= Longest
      BY LongestHolds DEF Holds
    <3>2. (L + 1) * Longest = L * Longest + Longest /\ L * Longest \in Nat
      BY <1>1, <3>1, Product
    <3>3. total_len <= L * Longest
      BY DEF PathInv, Counted
    <3> DEFINE prod == L * Longest
    <3> HIDE DEF prod
    <3>4. total_len + ResponseLen(r) <= prod + Longest
      BY <1>1, <1>3, <3>1, <3>2, <3>3 DEF prod
    <3> QED
      BY <2>1, <3>2, <3>4 DEF prod
  <2>4. ASSUME NEW n \in 1 .. L + 1 PROVE Tiled(cache', n)
    <3>1. CASE n \in 1 .. L
      <4>1. Tiled(cache, n)
        BY <3>1 DEF PathInv, Counted
      <4>2. cache'[n] = cache[n] /\ (n # 1 => cache'[n - 1] = cache[n - 1])
        BY <1>1, <1>10, <3>1
      <4> QED
        BY <4>1, <4>2 DEF Tiled
    <3>2. CASE n = L + 1
      <4>1. total_len = IF n = 1 THEN 0 ELSE cache'[n - 1].at + cache'[n - 1].len
        <5>1. total_len = End(cache)
          BY DEF PathInv, Counted
        <5>2. CASE n = 1
          BY <1>1, <3>2, <5>1, <5>2 DEF End
        <5>3. CASE n # 1
          <6>1. cache # <<>> /\ n - 1 = L /\ cache'[L] = cache[L]
            BY <1>1, <1>10, <3>2, <5>3
          <6> QED
            BY <5>1, <5>3, <6>1 DEF End
        <5> QED
          BY <5>2, <5>3
      <4> QED
        BY <1>9, <1>10, <3>2, <4>1 DEF Tiled
    <3> QED
      BY <1>1, <3>1, <3>2
  <2> QED
    BY <1>10, <2>1, <2>2, <2>3, <2>4 DEF Counted
<1> QED
  BY <1>11, <1>12, <1>13, <1>14 DEF PathInv

LEMMA ReplyPreserves == PathInv /\ request_reply => PathInv'
<1> SUFFICES ASSUME PathInv, request_reply PROVE PathInv'
  OBVIOUS
<1>0. /\ UNCHANGED vars /\ json_pos' = json_pos /\ lake_pos' = lake_pos /\ cache' = cache
      /\ total_len' = total_len /\ slot = 0 /\ slot' = slot + total_len
  BY DEF request_reply
<1>1. total_len \in Nat
  BY DEF PathInv, PathTypes
<1>2. ScanInv'
  BY <1>0, ScanInvNext DEF PathInv
<1>3. PathTypes'
  BY <1>0, <1>1 DEF PathInv, PathTypes
<1>4. Answered'
  BY <1>0 DEF PathInv, Answered, vars
<1>5. Counted'
  BY <1>0, <1>1 DEF PathInv, Counted, Tiled
<1> QED
  BY <1>2, <1>3, <1>4, <1>5 DEF PathInv

LEMMA PathInvInit == Init /\ PathInit => PathInv
<1> SUFFICES ASSUME Init, PathInit PROVE PathInv
  OBVIOUS
<1>1. ScanInv
  BY ScanInvInit
<1>2. PathTypes
  <2>1. ResponseLen("json") \in Nat /\ BodyLen["json"] \in Nat
    BY RouteLengths DEF Routes
  <2>2. /\ ResponseLen("json") <= LakeSize /\ BodyLen["json"] <= JsonSize
        /\ LakeSize \in Nat /\ JsonSize \in Nat
    BY SizeAssumption DEF Routes
  <2> QED
    BY <2>1, <2>2 DEF PathInit, PathTypes
<1>3. Answered
  BY DEF Answered, PathInit, Init, ScanInit
<1>4. Counted
  <2>1. Longest \in Nat
    BY LongestHolds
  <2> QED
    BY <2>1 DEF Counted, PathInit, End
<1> QED
  BY <1>1, <1>2, <1>3, <1>4 DEF PathInv

LEMMA PathInvNext == PathInv /\ [PathNext]_<<vars, pathVars>> => PathInv'
<1> SUFFICES ASSUME PathInv, [PathNext]_<<vars, pathVars>> PROVE PathInv'
  OBVIOUS
<1>1. CASE UNCHANGED <<vars, pathVars>>
  <2>1. ScanInv'
    BY <1>1, ScanInvNext DEF PathInv
  <2>2. PathTypes' /\ Answered' /\ Counted'
    BY <1>1 DEF PathInv, PathTypes, Answered, Counted, Tiled, vars, pathVars
  <2> QED
    BY <2>1, <2>2 DEF PathInv
<1> QED
  BY <1>1, ScanKeepsAnswered, HandlerPreserves, ReplyPreserves DEF PathNext

(* The scanner, the responses so far and the bytes that they take keep in  *)
(* step, from the first vector to the write of request_reply: what the     *)
(* theorems below rest on.                                                 *)
THEOREM PathInvariant == PathSpec => []PathInv
BY PathInvNext, PathInvInit, PTL DEF PathSpec

(* Whatever requests a chunk holds, the responses that handler writes stay *)
(* inside hot_json_buf, hot_data_lake, hot_internal_cache and the slot, as *)
(* long as the parts of a response are as short as SizeAssumption says.    *)
THEOREM BuffersAlwaysHold == PathSpec => []BuffersHold
<1>1. PathInv => BuffersHold
  <2> SUFFICES ASSUME PathInv PROVE BuffersHold
    OBVIOUS
  <2>1. Len(cache) \in Nat /\ N \in Nat /\ Len(cache) <= N
    <3>1. /\ cache \in Seq(Response) /\ Len(cache) <= Len(out) /\ Len(out) <= k
          /\ k <= Len(found) /\ Len(found) <= N
      BY DEF PathInv, PathTypes, Answered, ScanInv, ParseProgress, ScanProgress
    <3>2. out \in Seq(Slice) /\ found \in Seq(Nat) /\ k \in Nat /\ N \in Nat
      BY ScanAssumption DEF PathInv, ScanInv, ScanTypeOK
    <3>3. Len(cache) \in Nat /\ Len(out) \in Nat /\ Len(found) \in Nat
      BY <3>1, <3>2
    <3> QED
      BY <3>1, <3>2, <3>3
  <2>2. Longest \in Nat /\ N * Longest <= CacheSize /\ N * Longest <= SlotSize
    BY LongestHolds DEF Holds
  <2>3. Len(cache) * Longest <= N * Longest /\ Len(cache) * Longest \in Nat /\ N * Longest \in Nat
    BY <2>1, <2>2, Product
  <2>4. /\ total_len \in Nat /\ total_len <= Len(cache) * Longest /\ (slot = 0 \/ slot = total_len)
        /\ json_pos <= JsonSize /\ lake_pos <= LakeSize /\ CacheSize \in Nat /\ SlotSize \in Nat
    BY SizeAssumption DEF PathInv, PathTypes, Counted
  <2> DEFINE a == Len(cache) * Longest
             b == N * Longest
  <2> HIDE DEF a, b
  <2>5. total_len <= CacheSize /\ total_len <= SlotSize
    <3>1. total_len <= a /\ a <= b /\ b <= CacheSize /\ b <= SlotSize /\ a \in Nat /\ b \in Nat
      BY <2>2, <2>3, <2>4 DEF a, b
    <3> QED
      BY <2>4, <3>1
  <2> QED
    BY <2>4, <2>5 DEF BuffersHold
<1> QED
  BY <1>1, PathInvariant, PTL

(* The responses lie in hot_internal_cache in the order of the requests,   *)
(* without gap or overlap, each of its own length.                         *)
THEOREM ResponsesAlwaysTile == PathSpec => []ResponsesTile
<1>1. PathInv => ResponsesTile
  <2> SUFFICES ASSUME PathInv PROVE ResponsesTile
    OBVIOUS
  <2>0. /\ cache \in Seq(Response) /\ DOMAIN cache = 1 .. Len(cache) /\ Len(cache) \in Nat
        /\ out \in Seq(Slice) /\ Len(cache) <= Len(out)
    BY DEF PathInv, PathTypes, Answered, ScanInv, ScanTypeOK
  <2>1. \A n \in DOMAIN cache : Tiled(cache, n)
    BY <2>0 DEF PathInv, Counted
  <2>2. ASSUME NEW n \in DOMAIN cache, n > 1 PROVE cache[n - 1].for < cache[n].for
    <3>1. n \in DOMAIN out /\ n - 1 \in 1 .. n - 1 /\ n - 1 \in 1 .. Len(cache) /\ n \in 1 .. Len(cache)
      BY <2>0, <2>2
    <3>2. out[n - 1].start < out[n].start
      BY <3>1 DEF PathInv, ScanInv, SlicesInBounds
    <3>3. cache[n - 1].for = out[n - 1].start /\ cache[n].for = out[n].start
      BY <3>1 DEF PathInv, Answered
    <3> QED
      BY <3>2, <3>3
  <2>3. total_len = End(cache)
    BY DEF PathInv, Counted
  <2> QED
    BY <2>1, <2>2, <2>3 DEF ResponsesTile, Tiled, End
<1> QED
  BY <1>1, PathInvariant, PTL

(* The scanner's loads stay inside the chunk in the composition too.       *)
THEOREM PathLoadsInBounds == PathSpec => []LoadsInBounds
BY PathInvariant, PTL DEF PathInv, ScanInv
-----------------------------------------------------------------------------
(* A chunk of at most N well-formed requests                               *)

(* The marks lie in the chunk, so there are finitely many.                 *)
MarksInChunk == \A p \in hits : p <= len

(* No start of well-formed requests is passed over: the starts parsed and  *)
(* the slices cut out go together.                                         *)
AllCut ==
  (\A p \in hits : WellFormed(p)) =>
    /\ Len(out) = k
    /\ \A n \in 1 .. k : out[n].start = found[n]
    /\ pc = "done" => k = Len(found)

CutInv == PathInv /\ MarksInChunk /\ AllCut

LEMMA LeastOfOffsets ==
  ASSUME NEW S, S \subseteq Nat, S # {}
  PROVE  Least(S) # {}
<1>1. PICK p \in S : \A q \in S : ~(<<q, p>> \in OpToRel(<, Nat))
  BY NatLessThanWellFounded, WFMin, Zenon
<1>2. \A q \in S : ~(q < p)
  BY <1>1 DEF OpToRel
<1>3. \A q \in S : p <= q
  BY <1>2
<1> QED
  BY <1>3 DEF Least

(* Two spaces in the vector are a method and a path.                       *)
LEMMA WellFormedIsParsed ==
  ASSUME NEW p \in Nat, WellFormed(p)
  PROVE  Parsed(p) # {} /\ \A r \in Parsed(p) : r.start = p
<1> DEFINE S == SpacesAt(p)
<1>0. Width \in Nat
  BY ScanAssumption
<1>1. S \subseteq Nat /\ S \subseteq 0 .. Width - 1
  BY DEF SpacesAt
<1>2. IsFiniteSet(S) /\ Cardinality(S) >= 2
  <2>1. IsFiniteSet(0 .. Width - 1)
    BY <1>0, FS_Interval
  <2> QED
    BY <1>1, <2>1, FS_Subset DEF WellFormed
<1>3. S # {}
  BY <1>2, FS_EmptySet
<1>4. PICK m \in Least(S) : TRUE
  BY <1>1, <1>3, LeastOfOffsets
<1>5. m \in S /\ m \in Nat /\ \A c \in S : m <= c
  BY <1>1, <1>4 DEF Least
<1>6. PathEnds(p, m) # {}
  <2>1. CASE m = Width - 1
    BY <2>1 DEF PathEnds
  <2>2. CASE m # Width - 1
    <3> DEFINE T == {d \in S : d > m}
    <3>1. S # {m}
      <4>1. Cardinality({m}) = 1
        BY FS_Singleton
      <4> QED
        BY <1>2, <4>1
    <3>2. PICK d \in S : d # m
      BY <1>5, <3>1
    <3>3. d > m
      BY <1>1, <1>5, <3>2
    <3>4. T # {} /\ T \subseteq Nat
      BY <1>1, <3>2, <3>3
    <3>5. Least(T) # {}
      <4> HIDE DEF T
      <4> QED
        BY <3>4, LeastOfOffsets
    <3> QED
      BY <2>2, <3>5 DEF PathEnds
  <2> QED
    BY <2>1, <2>2
<1>7. PICK e \in PathEnds(p, m) : TRUE
  BY <1>6
<1> DEFINE R(x) == {[start |-> p, method |-> x, path |-> x + 1, end |-> y] : y \in PathEnds(p, x)}
<1>8. Parsed(p) = UNION {R(x) : x \in Least(S)}
  BY DEF Parsed
<1>9. Parsed(p) # {}
  <2>1. [start |-> p, method |-> m, path |-> m + 1, end |-> e] \in R(m)
    BY <1>7
  <2> QED
    BY <1>4, <1>8, <2>1
<1>10. ASSUME NEW r \in Parsed(p) PROVE r.start = p
  <2>1. PICK x \in Least(S) : r \in R(x)
    BY <1>8, <1>10
  <2> QED
    BY <2>1
<1> QED
  BY <1>9, <1>10

LEMMA CutScan == CutInv /\ Next => AllCut' /\ MarksInChunk'
<1> SUFFICES ASSUME CutInv, Next PROVE AllCut' /\ MarksInChunk'
  OBVIOUS
<1>1. len' = len /\ hits' = hits /\ spaces' = spaces
  BY DEF Next, WideTurn, WideEnd, NarrowTurn, NarrowEnd, Emit, EmitEnd, Parse, ParseEnd, Done,
         vars, chunk
<1>2. MarksInChunk'
  BY <1>1 DEF CutInv, MarksInChunk
<1>3. ASSUME \A p \in hits : WellFormed(p)
      PROVE  /\ Len(out') = k'
             /\ \A n \in 1 .. k' : out'[n].start = found'[n]
             /\ pc' = "done" => k' = Len(found')
  <2>0. /\ k \in Nat /\ out \in Seq(Slice) /\ found \in Seq(Nat) /\ k <= Len(found)
        /\ \A n \in DOMAIN found : found[n] \in hits
        /\ hits \subseteq Nat /\ len \in Nat /\ Width \in Nat
        /\ pc \notin {"parse", "done"} => k = 0
    BY ScanAssumption
    DEF CutInv, PathInv, ScanInv, ScanTypeOK, ParseProgress, StartsInOrder
  <2>1. Len(out) = k /\ (\A n \in 1 .. k : out[n].start = found[n]) /\ (pc = "done" => k = Len(found))
    BY <1>3 DEF CutInv, AllCut
  <2>2. CASE Parse
    <3> DEFINE p == found[k + 1]
    <3>1. /\ pc = "parse" /\ pc' = pc /\ k < Len(found) /\ k' = k + 1 /\ found' = found
      BY <2>2 DEF Parse
    <3>2. p \in hits /\ p \in Nat
      BY <2>0, <3>1
    <3>3. WellFormed(p)
      BY <1>3, <3>2
    <3>4. Parsed(p) # {} /\ \A r \in Parsed(p) : r.start = p
      BY <3>2, <3>3, WellFormedIsParsed
    <3>5. PICK r \in Parsed(p) : out' = Append(out, r)
      BY <2>2, <3>4 DEF Parse
    <3>6. r.start = p
      BY <3>4, <3>5
    <3>7. /\ Len(out') = k + 1 /\ out'[k + 1] = r
          /\ \A n \in 1 .. k : out'[n] = out[n]
      BY <2>0, <2>1, <3>5
    <3>8. \A n \in 1 .. k + 1 : out'[n].start = found[n]
      <4>1. \A n \in 1 .. k + 1 : n \in 1 .. k \/ n = k + 1
        BY <2>0
      <4> QED
        BY <2>1, <3>6, <3>7, <4>1
    <3> QED
      BY <3>1, <3>7, <3>8
  <2>3. CASE ParseEnd
    <3>1. k = Len(found)
      <4>1. ASSUME k < Len(found) PROVE FALSE
        <5>1. found[k + 1] \in hits /\ found[k + 1] \in Nat
          BY <2>0, <4>1
        <5>2. found[k + 1] + Width + 2 <= len
          BY <1>3, <5>1 DEF WellFormed
        <5>3. ~(found[k + 1] + Width <= len)
          BY <2>3, <4>1 DEF ParseEnd, Fits
        <5> QED
          BY <2>0, <5>1, <5>2, <5>3
      <4> QED
        BY <2>0, <4>1
    <3>2. k' = k /\ out' = out /\ found' = found
      BY <2>3 DEF ParseEnd
    <3> QED
      BY <2>1, <3>1, <3>2
  <2>4. CASE Done
    BY <2>1, <2>4 DEF Done, vars
  <2>5. CASE WideTurn \/ WideEnd \/ NarrowTurn \/ NarrowEnd \/ Emit \/ EmitEnd
    <3>1. /\ pc \notin {"parse", "done"} /\ k' = k /\ out' = out /\ pc' # "done"
      BY <2>5 DEF WideTurn, WideEnd, NarrowTurn, NarrowEnd, Emit, EmitEnd, CutInv, PathInv,
                  ScanInv, ScanTypeOK
    <3>2. k = 0
      BY <2>0, <3>1
    <3> QED
      BY <2>1, <3>1, <3>2
  <2> QED
    BY <2>2, <2>3, <2>4, <2>5 DEF Next
<1>4. AllCut'
  BY <1>1, <1>3 DEF AllCut, WellFormed, SpacesAt
<1> QED
  BY <1>2, <1>4

LEMMA CutStutter == CutInv /\ UNCHANGED vars => AllCut' /\ MarksInChunk'
BY DEF CutInv, AllCut, MarksInChunk, WellFormed, SpacesAt, vars

LEMMA CutInit == Init /\ PathInit => CutInv
<1> SUFFICES ASSUME Init, PathInit PROVE CutInv
  OBVIOUS
<1>1. MarksInChunk
  BY DEF MarksInChunk, Init, ChunkInit, Mark
<1>2. AllCut
  BY DEF AllCut, Init, ScanInit
<1> QED
  BY <1>1, <1>2, PathInvInit DEF CutInv

(* The starts found are all the marks: below N none is missed, and N of    *)
(* them are as many as there are.                                          *)
LEMMA AllFound ==
  ASSUME CutInv, pc = "done", Cardinality(hits) <= N, \A p \in hits : WellFormed(p)
  PROVE  /\ Len(found) = Cardinality(hits)
         /\ \A p \in hits : \E n \in 1 .. Len(found) : found[n] = p
         /\ \A n \in 1 .. Len(found) : found[n] \in hits
<1> DEFINE D == 1 .. Len(found)
<1>0. /\ found \in Seq(Nat) /\ Len(found) \in Nat /\ DOMAIN found = D /\ N \in Nat
      /\ hits \subseteq Nat /\ len \in Nat /\ Len(found) <= N
  BY ScanAssumption DEF CutInv, PathInv, ScanInv, ScanTypeOK, StartsInOrder
<1>1. IsFiniteSet(hits)
  BY <1>0, FS_BoundedSetOfNaturals DEF CutInv, MarksInChunk
<1>2. \A n \in D : found[n] \in hits
  BY <1>0 DEF CutInv, PathInv, ScanInv, StartsInOrder
<1>3. \A m, n \in D : found[m] = found[n] => m = n
  <2> SUFFICES ASSUME NEW m \in D, NEW n \in D, m # n
               PROVE  found[m] # found[n]
    OBVIOUS
  <2>1. found[m] < found[n] \/ found[n] < found[m]
    BY <1>0 DEF CutInv, PathInv, ScanInv, StartsInOrder
  <2> QED
    BY <1>0, <2>1
<1>4. found \in Injection(D, hits)
  <2>1. found \in [D -> hits]
    BY <1>0, <1>2
  <2> QED
    BY <1>3, <2>1 DEF Injection, IsInjective
<1>5. Cardinality(D) = Len(found)
  <2>1. Len(found) \in Int /\ Len(found) >= 0 /\ 1 \in Int
    BY <1>0
  <2>2. Cardinality(D) = IF 1 > Len(found) THEN 0 ELSE Len(found) - 1 + 1
    BY <2>1, FS_Interval
  <2> QED
    BY <2>1, <2>2
<1>6. /\ Len(found) <= Cardinality(hits)
      /\ Len(found) = Cardinality(hits) <=> found \in Surjection(D, hits)
  BY <1>1, <1>4, <1>5, FS_Injection
<1>7. Cardinality(hits) \in Nat
  BY <1>1, FS_CardinalityType
<1>8. \A p \in hits : \E n \in D : found[n] = p
  <2>1. CASE Len(found) < N
    <3>1. /\ \A p \in hits : p < i => Recorded(p)
          /\ ~Room(Width)
      BY <2>1 DEF CutInv, PathInv, ScanInv, ScanProgress
    <3>2. ASSUME NEW p \in hits PROVE p < i
      BY <1>0, <3>1, <3>2, ScanAssumption
      DEF WellFormed, Room, CutInv, PathInv, ScanInv, ScanTypeOK
    <3> QED
      BY <1>0, <3>1, <3>2 DEF Recorded
  <2>2. CASE Len(found) = N
    <3>1. found \in Surjection(D, hits)
      BY <1>0, <1>6, <1>7, <2>2
    <3> QED
      BY <3>1 DEF Surjection
  <2>3. Len(found) < N \/ Len(found) = N
    <3>1. \A a, b \in Nat : a <= b => a < b \/ a = b
      OBVIOUS
    <3> QED
      BY <1>0, <3>1, Zenon
  <2> QED
    BY <2>1, <2>2, <2>3
<1>9. found \in Surjection(D, hits)
  <2>1. found \in [D -> hits]
    BY <1>4 DEF Injection
  <2> QED
    BY <1>8, <2>1 DEF Surjection
<1> QED
  BY <1>2, <1>6, <1>8, <1>9

(* A chunk of at most N requests, each with a vector, two more bytes and   *)
(* two spaces behind its start, gets exactly one response per request,     *)
(* whatever the vector width and wherever the turns of the scan loops and  *)
(* the limit on requests fall.                                             *)
THEOREM OneResponseForEach == PathSpec => []OneResponseEach
<1>1. CutInv /\ [PathNext]_<<vars, pathVars>> => CutInv'
  <2> SUFFICES ASSUME CutInv, [PathNext]_<<vars, pathVars>> PROVE CutInv'
    OBVIOUS
  <2>1. PathInv'
    BY PathInvNext DEF CutInv
  <2>2. Next \/ UNCHANGED vars
    BY DEF PathNext, Scan, handler, request_reply
  <2> QED
    BY <2>1, <2>2, CutScan, CutStutter DEF CutInv
<1>2. CutInv => OneResponseEach
  <2> SUFFICES ASSUME CutInv, pc = "done", Len(cache) = Len(out),
                      Cardinality(hits) <= N, \A p \in hits : WellFormed(p)
               PROVE  /\ Len(cache) = Cardinality(hits)
                      /\ {cache[n].for : n \in DOMAIN cache} = hits
    BY DEF OneResponseEach
  <2>1. /\ Len(out) = k /\ k = Len(found)
        /\ \A n \in 1 .. k : out[n].start = found[n]
    BY DEF CutInv, AllCut
  <2>2. /\ \A n \in 1 .. Len(cache) : cache[n].for = out[n].start
        /\ DOMAIN cache = 1 .. Len(cache)
    BY DEF CutInv, PathInv, Answered, PathTypes
  <2>3. \A n \in 1 .. k : cache[n].for = found[n]
    BY <2>1, <2>2
  <2> QED
    BY <2>1, <2>2, <2>3, AllFound
<1> QED
  BY <1>1, <1>2, CutInit, PTL DEF PathSpec
=============================================================================

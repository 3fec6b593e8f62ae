---------------------------- MODULE RequestPath ----------------------------
(***************************************************************************)
(* One chunk from the scanner to the client's output slot: the requests    *)
(* that module HttpScan cuts out go through the router of main.rs one by   *)
(* one, each response is built in hot_data_lake and copied behind the last *)
(* one in hot_internal_cache, and the whole is written to the slot.        *)
(*                                                                         *)
(* Bytes are counted. A request is one of the two routes that exist or     *)
(* anything else; which one it is is left open.                            *)
(***************************************************************************)
EXTENDS HttpScan, FiniteSets

CONSTANTS
  StatusLen, TypeLen, BodyLen,  \* of each route
  FixedLen,     \* Date, Content-Length and BASE_HEADERS
  JsonSize,     \* hot_json_buf (100)
  LakeSize,     \* hot_data_lake (512)
  CacheSize,    \* hot_internal_cache (2 * BUFFER_SIZE)
  SlotSize      \* DATA_LAKE_SIZE

Routes == {"plaintext", "json", "not_found"}
ResponseLen(r) == StatusLen[r] + TypeLen[r] + FixedLen + BodyLen[r]

ASSUME SizeAssumption ==
  /\ {StatusLen, TypeLen, BodyLen} \subseteq [Routes -> Nat] /\ FixedLen \in Nat
  /\ {JsonSize, LakeSize, CacheSize, SlotSize} \subseteq Nat
  /\ BodyLen["json"] <= JsonSize
  /\ \A r \in Routes : /\ BodyLen[r] < 100
                       /\ ResponseLen(r) <= LakeSize
                       /\ N * ResponseLen(r) <= CacheSize
                       /\ N * ResponseLen(r) <= SlotSize

VARIABLES
  json_pos, lake_pos,  \* bytes in hot_json_buf and in hot_data_lake
  cache,               \* responses in hot_internal_cache
  total_len,           \* bytes of them
  slot                 \* bytes in the client's output slot
pathVars == <<json_pos, lake_pos, cache, total_len, slot>>

(* The buffers hold what the last chunk left in them; the slot was sent.   *)
PathInit ==
  /\ \/ json_pos = 0 /\ lake_pos = 0
     \/ json_pos = BodyLen["json"] /\ lake_pos = ResponseLen("json")
  /\ cache = <<>> /\ total_len = 0 /\ slot = 0

Scan == Next /\ UNCHANGED pathVars

-----------------------------------------------------------------------------
(* reset_pos of the two scratch buffers. A slip: only when they are full.  *)
ResetWhenFull(pos, size) == IF pos < size THEN pos ELSE 0
reset_pos(pos, size) == 0

(* The encoder appends to the buffer, and the body is all of it.           *)
JsonBody(r) == reset_pos(json_pos, JsonSize) + (IF r = "json" THEN BodyLen[r] ELSE 0)
Body(r) == IF r = "json" THEN JsonBody(r) ELSE BodyLen[r]

(* write_num_str_fixed keeps two digits.                                   *)
TwoDigits(x) == x % 100

(* Where the copy of a response goes. A slip: to the start of the cache.   *)
AlwaysFront == 0
CacheAt == total_len

handler ==
  /\ pc = "done" /\ slot = 0 /\ Len(cache) < Len(out)
  /\ \E r \in Routes :
       /\ json_pos' = JsonBody(r)
       /\ lake_pos' = reset_pos(lake_pos, LakeSize) + StatusLen[r] + TypeLen[r] + FixedLen + Body(r)
       /\ cache' = Append(cache, [for |-> out[Len(cache) + 1].start, route |-> r, at |-> CacheAt,
                                  len |-> lake_pos', content_length |-> TwoDigits(Body(r))])
  /\ total_len' = total_len + lake_pos'
  /\ UNCHANGED <<vars, slot>>

(* client_buffer.write of the slice up to total_len.                       *)
request_reply ==
  /\ pc = "done" /\ slot = 0 /\ Len(cache) = Len(out) /\ total_len > 0
  /\ slot' = slot + total_len
  /\ UNCHANGED <<vars, json_pos, lake_pos, cache, total_len>>

PathNext == Scan \/ handler \/ request_reply

PathSpec == Init /\ PathInit /\ [][PathNext]_<<vars, pathVars>>

-----------------------------------------------------------------------------
(* Whatever requests a chunk holds, nothing that handler writes goes past  *)
(* hot_json_buf, hot_data_lake, hot_internal_cache or the slot, and the    *)
(* slice hot_internal_cache[total_len..] exists: none of these writes is   *)
(* checked by the code.                                                    *)
BuffersHold ==
  /\ json_pos <= JsonSize /\ lake_pos <= LakeSize
  /\ total_len <= CacheSize /\ slot <= SlotSize

(* The responses lie in the cache in the order of the requests, without a  *)
(* gap and without overlap, each as long as its own route says and with    *)
(* its true Content-Length: nothing of an earlier request is left in it.   *)
ResponsesTile ==
  /\ \A n \in DOMAIN cache :
       /\ cache[n].len = ResponseLen(cache[n].route)
       /\ cache[n].content_length = BodyLen[cache[n].route]
       /\ cache[n].at = IF n = 1 THEN 0 ELSE cache[n - 1].at + cache[n - 1].len
       /\ n > 1 => cache[n - 1].for < cache[n].for
  /\ total_len = IF cache = <<>> THEN 0 ELSE cache[Len(cache)].at + cache[Len(cache)].len

(* A request as parse_one_manual wants it: a vector and two bytes behind   *)
(* its start, and two spaces inside the vector.                            *)
WellFormed(p) ==
  /\ p + Width + 2 <= len
  /\ Cardinality(SpacesAt(p)) >= 2

(* A chunk of at most N requests, all well-formed, gets one response for   *)
(* each, in order, wherever the requests lie in the scanner's vectors.     *)
OneResponseEach ==
  /\ pc = "done" /\ Len(cache) = Len(out)
  /\ Cardinality(hits) <= N /\ \A p \in hits : WellFormed(p)
  => /\ Len(cache) = Cardinality(hits)
     /\ {cache[n].for : n \in DOMAIN cache} = hits
=============================================================================

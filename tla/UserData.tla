------------------------------ MODULE UserData ------------------------------
(***************************************************************************)
(* The 64-bit tag of an io_uring operation (server_internals.rs): client   *)
(* id, buffer id and kind of operation packed into one word, recognised by *)
(* being at least REQ_RESP_OFFSET. Module Reactor writes the tag as the    *)
(* record it stands for; this module checks that nothing is lost on the    *)
(* way through the kernel.                                                 *)
(*                                                                         *)
(* An unsigned integer is the set of the positions of its one-bits, so     *)
(* that or is union and a mask is an intersection; what leaves the word is *)
(* lost, as in the code. The fields keep their order; only their widths    *)
(* are parameters.                                                         *)
(***************************************************************************)
EXTENDS Integers

CONSTANTS
  ClientBits,            \* width of client_id (32)
  BufferBits,            \* width of buffer_id (16)
  UniqBits,              \* width of uniq_id (16)
  ReservedIds,           \* client ids that are never given out (100)
  INIT_REQUEST, POLL_EVENT, SEND_EVENT,   \* uniq_id of recv, poll, send
  BUFFER_REGISTER_CODE, CODE_ACCEPT       \* whole tags of provide, accept

WordBits == ClientBits + BufferBits + UniqBits
Unsigned(w) == SUBSET (0 .. w - 1)
REQ_RESP_OFFSET == 0 .. WordBits - 2                 \* u64::MAX / 2

(* x + y modulo the word, x - y and x >= y. Position k gets a carry when   *)
(* both have a lower bit, and one of them each bit between it and k; it    *)
(* lends when y has a lower bit that x has not, and nothing between pays.  *)
Carry(x, y, k) ==
  \E j \in 0 .. k - 1 : j \in x /\ j \in y /\ \A b \in j + 1 .. k - 1 : b \in x \/ b \in y
Borrow(x, y, k) ==
  \E j \in 0 .. k - 1 : j \notin x /\ j \in y /\ \A b \in j + 1 .. k - 1 : b \notin x \/ b \in y
Add(x, y) == {k \in 0 .. WordBits - 1 : ((k \in x) # (k \in y)) # Carry(x, y, k)}
Sub(x, y) == {k \in 0 .. WordBits - 1 : ((k \in x) # (k \in y)) # Borrow(x, y, k)}
AtLeast(x, y) == ~ Borrow(x, y, WordBits)

Shl(x, s) == {k \in 0 .. WordBits - 1 : k - s \in x}
Shr(x, s) == {k \in 0 .. WordBits - 1 : k + s \in x}
Low(x, w) == x \cap (0 .. w - 1)                     \* x & (2^w - 1)

Kinds == {INIT_REQUEST, POLL_EVENT, SEND_EVENT}
Plain == {BUFFER_REGISTER_CODE, CODE_ACCEPT}

ASSUME TagAssumption ==
  /\ {ClientBits, BufferBits, UniqBits} \subseteq Nat \ {0}
  /\ ReservedIds \in Unsigned(ClientBits) \ {{}}
  /\ Kinds \subseteq Unsigned(UniqBits - 1)
  /\ Plain \subseteq {w \in Unsigned(WordBits) : ~ AtLeast(w, REQ_RESP_OFFSET)}
  /\ BUFFER_REGISTER_CODE # CODE_ACCEPT

VARIABLES
  data,     \* the UserData the worker builds
  tag,      \* the word in the submission and in the completion
  seen,     \* what process_entry takes the completion for
  step
vars == <<data, tag, seen, step>>

UserDatas == [client_id : Unsigned(ClientBits), buffer_id : Unsigned(BufferBits),
              uniq_id : Unsigned(UniqBits)]

(* The offset is added to the client id alone, then the fields are or-ed.  *)
(* A slip: the offset is or-ed too.                                        *)
pack_with_or(u) ==
  Shl(u.uniq_id, ClientBits + BufferBits) \cup Shl(u.buffer_id, ClientBits)
    \cup u.client_id \cup REQ_RESP_OFFSET
pack_user_data(u) ==
  Shl(u.uniq_id, ClientBits + BufferBits) \cup Shl(u.buffer_id, ClientBits)
    \cup Add(u.client_id, REQ_RESP_OFFSET)

unpack_user_data(w) ==
  LET raw == Sub(w, REQ_RESP_OFFSET) IN
  [client_id |-> Low(raw, ClientBits),
   buffer_id |-> Low(Shr(raw, ClientBits), BufferBits),
   uniq_id   |-> Low(Shr(raw, ClientBits + BufferBits), UniqBits)]

(* The match of process_entry, and the unpacking of process_entry_response.*)
dispatch(w) ==
  CASE w = BUFFER_REGISTER_CODE -> [to |-> "registered", user |-> w]
    [] w = CODE_ACCEPT -> [to |-> "accept", user |-> w]
    [] AtLeast(w, REQ_RESP_OFFSET) -> [to |-> "response", user |-> unpack_user_data(w)]
    [] OTHER -> [to |-> "unmapped", user |-> w]

Nothing == [to |-> "nothing", user |-> {}]

(* The worker tags receives, polls and sends of clients it has given an id,*)
(* always with buffer_id 0; the other words are any UserData at all.       *)
Init ==
  /\ data \in UserDatas
  /\ tag = {} /\ seen = Nothing /\ step = "build"

Pack ==
  /\ step = "build"
  /\ tag' = pack_user_data(data)
  /\ step' = "complete"
  /\ UNCHANGED <<data, seen>>

process_entry ==
  /\ step = "complete"
  /\ seen' = dispatch(tag)
  /\ step' = "done"
  /\ UNCHANGED <<data, tag>>

Next == Pack \/ process_entry \/ (step = "done" /\ UNCHANGED vars)

Spec == Init /\ [][Next]_vars

-----------------------------------------------------------------------------
Used(u) == AtLeast(u.client_id, ReservedIds) /\ u.uniq_id \in Kinds

(* The completion of a client's operation is handled for that client and   *)
(* that kind of operation, whatever the buffer id.                         *)
TagSurvives ==
  step = "done" /\ Used(data) => seen = [to |-> "response", user |-> data]
=============================================================================

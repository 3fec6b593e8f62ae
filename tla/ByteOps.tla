------------------------------ MODULE ByteOps ------------------------------
(***************************************************************************)
(* The byte loops of utils: trim.rs, shift.rs, memory.rs and               *)
(* get_kernel_owned_buffer of kernel.rs. A vector register holds Width     *)
(* bytes; loads and stores take Width bytes at once, the rest goes byte by *)
(* byte. Only l_trim256 and shift_ub_inplace have a caller: ubdma trims    *)
(* what request_reply shifted.                                             *)
(*                                                                         *)
(* A buffer is a function from positions. A byte is 0, Junk where memory   *)
(* was never written, or one more than the position it had in the input:   *)
(* no two bytes of the input are alike, so a misplaced one shows.          *)
(***************************************************************************)
EXTENDS Integers

CONSTANTS
  Width,        \* bytes in a vector register (32)
  MaxLen,       \* bound: bytes in a buffer
  BufSize,      \* BUFFER_SIZE (7168)
  Assumed,      \* the size get_kernel_owned_buffer is written for (6272)
  Junk          \* value of memory that was never written

ASSUME ByteAssumption ==
  /\ Width \in Nat \ {0} /\ MaxLen \in Nat /\ BufSize \in Nat \ {0}
  /\ Assumed \in 0 .. BufSize /\ Assumed % Width = 0
  /\ Junk \notin Nat

VARIABLES
  op,           \* the helper that was called
  pc,           \* the loop that runs now
  orig, n, len, \* its arguments: a buffer, its size, a length or an index
  mem, m,       \* memory it writes, and the size of that memory
  i,            \* the loop counter
  res,          \* what it returns; -1 while it runs
  rd, wr        \* one more than the highest index read and written last
byteVars == <<op, pc, orig, n, len, mem, m, i, res, rd, wr>>
argVars == <<op, orig, n, len, m>>

Zeros(k) == [p \in 0 .. k - 1 |-> 0]
Blank(k) == [p \in 0 .. k - 1 |-> Junk]
Buffers(k) == {[p \in 0 .. k - 1 |-> IF p \in S THEN p + 1 ELSE 0] : S \in SUBSET (0 .. k - 1)}

(* Memory b with k bytes of s, from position f on, stored at position a.   *)
Put(b, a, s, f, k) == [p \in DOMAIN b |-> IF p \in a .. a + k - 1 THEN s[f + p - a] ELSE b[p]]

NonZero(b, S) == {p \in S : b[p] # 0}
First(S) == CHOOSE p \in S : \A q \in S : p <= q
Last(S) == CHOOSE p \in S : \A q \in S : q <= p

(* The memory a helper starts with.                                        *)
Start ==
  [l_trim256 |-> orig, r_trim256 |-> orig, ubdma |-> orig, shift_safe |-> orig,
   avx2_zero |-> orig, shift_ub |-> Zeros(n), fast_flatten_iovec |-> Blank(n),
   flatten_iovec |-> [p \in 0 .. len + n - 1 |-> IF p < len THEN 0 ELSE Junk],
   get_kernel_owned_buffer |-> Blank(BufSize)]

(* op is "ubdma" for shift_ub_inplace and then l_trim256. The length of    *)
(* the front to shift is at most the buffer's; shift_safe counts down.     *)
ByteInit ==
  /\ n \in 0 .. MaxLen /\ len \in 0 .. n /\ orig \in Buffers(n)
  /\ op \in DOMAIN Start
  /\ op = "get_kernel_owned_buffer" =>
       n = (MaxLen \div BufSize) * BufSize /\ (len + 1) * BufSize <= n
  /\ pc = IF op = "ubdma" THEN "shift_ub_inplace" ELSE op
  /\ mem = Start[op]
  /\ m = CASE op = "flatten_iovec" -> len + n
           [] op = "get_kernel_owned_buffer" -> BufSize
           [] OTHER -> n
  /\ i = CASE op = "r_trim256" -> n [] op = "shift_safe" -> len [] OTHER -> 0
  /\ res = -1 /\ rd = 0 /\ wr = 0

At(loop) == pc = loop /\ res = -1
Return(v) == res' = v /\ UNCHANGED i
GoOn(k) == i' = k /\ UNCHANGED res
Read(k) == rd' = k /\ UNCHANGED <<argVars, pc, mem, wr>>

-----------------------------------------------------------------------------
(* res is where the slice that is returned begins; "&[]" is the end.       *)
l_trim256 ==
  /\ At("l_trim256")
  /\ LET k == IF i + Width <= n THEN Width ELSE 1
         Found == NonZero(mem, i .. i + k - 1) IN
     IF i = n THEN Return(n) /\ Read(rd)
     ELSE Read(i + k) /\ IF Found = {} THEN GoOn(i + k) ELSE Return(First(Found))

(* How far a vector of zeros takes r_trim256. A slip: no step at all.      *)
NoStepBack(k) == i
StepBack(k) == i - k

(* res is where the slice ends, just after the last byte that is not zero. *)
(* A slip: that byte is left out.                                          *)
EndBefore(p) == p
EndAfter(p) == p + 1

r_trim256 ==
  /\ At("r_trim256")
  /\ LET k == IF Width <= i THEN Width ELSE 1
         Found == NonZero(mem, i - k .. i - 1) IN
     IF i = 0 THEN Return(0) /\ Read(rd)
     ELSE Read(i) /\ IF Found = {} THEN GoOn(StepBack(k)) ELSE Return(EndAfter(Last(Found)))

(* copy_within, then the front up to dst_offset is filled with zeros.      *)
(* A slip: the front keeps the bytes that were copied.                     *)
FrontKept(b) == b
FrontFilled(b) == [p \in DOMAIN b |-> IF p < n - len THEN 0 ELSE b[p]]

shift_ub_inplace ==
  /\ At("shift_ub_inplace")
  /\ mem' = FrontFilled(Put(mem, n - len, mem, 0, len))
  /\ pc' = "l_trim256" /\ rd' = len /\ wr' = n
  /\ UNCHANGED <<argVars, i, res>>

Write(b, r, w) == mem' = b /\ rd' = r /\ wr' = w /\ UNCHANGED <<argVars, pc>>

(* From the last byte of the front down: move it, then zero where it was.  *)
shift_safe ==
  /\ At("shift_safe")
  /\ IF i = 0 THEN Return(0) /\ Write(mem, rd, wr)
     ELSE /\ GoOn(i - 1)
          /\ Write([Put(mem, n - len + i - 1, mem, i - 1, 1) EXCEPT ![i - 1] = 0],
                   i, n - len + i)

shift_ub ==
  /\ At("shift_ub")
  /\ LET k == IF i + Width <= len THEN Width ELSE 1 IN
     IF i = len THEN Return(0) /\ Write(mem, rd, wr)
     ELSE GoOn(i + k) /\ Write(Put(mem, n - len + i, orig, i, k), i + k, n - len + i + k)

(* Is there room for a whole vector? A slip: only its first byte is looked *)
(* at.                                                                     *)
FirstByteFits == i < n
VectorFits == i + Width <= n

avx2_zero ==
  /\ At("avx2_zero")
  /\ LET k == IF VectorFits THEN Width ELSE n - i IN
     IF i = n THEN Return(0) /\ Write(mem, rd, wr)
     ELSE GoOn(i + k) /\ Write(Put(mem, i, Zeros(m), 0, k), rd, i + k)

(* fast_flatten_iovec and flatten_iovec: the vectors together hold orig,   *)
(* cut anywhere; each is copied whole. The Vec is extended first.          *)
flatten ==
  /\ At("fast_flatten_iovec") \/ At("flatten_iovec")
  /\ LET base == m - n IN
     \/ i = n /\ Return(n) /\ Write(mem, rd, wr)
     \/ \E k \in 1 .. n - i : GoOn(i + k) /\ Write(Put(mem, base + i, orig, i, k), i + k, base + i + k)

(* Buffer number len, by the size the loop was written for.                *)
get_kernel_owned_buffer ==
  /\ At("get_kernel_owned_buffer")
  /\ LET from == len * Assumed + i IN
     IF i >= Assumed THEN Return(0) /\ Write(mem, rd, wr)
     ELSE GoOn(i + Width) /\ Write(Put(mem, i, orig, from, Width), from + Width, i + Width)

ByteNext ==
  \/ l_trim256 \/ r_trim256 \/ shift_ub_inplace \/ shift_safe \/ shift_ub
  \/ avx2_zero \/ flatten \/ get_kernel_owned_buffer

ByteSpec == ByteInit /\ [][ByteNext]_byteVars

-----------------------------------------------------------------------------
(* No helper reads past the buffer it was given or writes past the memory  *)
(* it may write: no vector straddles an end.                               *)
AccessesInBounds == rd <= n /\ wr <= m

(* What ubdma gets from l_trim256 after shift_ub_inplace is the request    *)
(* that was received, whole, if its first byte is not zero, wherever the   *)
(* vectors fall and whatever the buffer held behind it.                    *)
TrimUndoesShift ==
  op = "ubdma" /\ res # -1 /\ len > 0 /\ orig[0] # 0 =>
    /\ n - res = len
    /\ \A p \in res .. n - 1 : mem[p] = orig[p - res]

(* The trims cut exactly the zeros, shift_ub moves the front to the end of *)
(* a cleared buffer, avx2_zero clears everything and the flattened vectors *)
(* are joined in order. Two helpers do less than their comments say, and   *)
(* this is what holds of them. shift_safe moves a front that is shorter    *)
(* than the buffer and keeps what lies between the front and its new place;*)
(* a front that is the whole buffer it erases, where shift.rs:6-8 says     *)
(* "move them to the end". get_kernel_owned_buffer copies buffer 0, as far *)
(* as it looks; for every other index it does not find "&buffers[index]"   *)
(* (kernel.rs:27), because Assumed is not BufSize.                         *)
Shifted(p, gap) == IF p >= n - len THEN orig[p - (n - len)] ELSE gap
HelpersCompute ==
  res # -1 =>
    /\ op = "l_trim256" =>
         res \in 0 .. n /\ NonZero(orig, 0 .. res - 1) = {} /\ (res < n => orig[res] # 0)
    /\ op = "r_trim256" =>
         res \in 0 .. n /\ NonZero(orig, res .. n - 1) = {} /\ (res > 0 => orig[res - 1] # 0)
    /\ op = "shift_ub" => \A p \in 0 .. n - 1 : mem[p] = Shifted(p, 0)
    /\ op = "shift_safe" /\ len < n =>
         \A p \in 0 .. n - 1 : mem[p] = Shifted(p, IF p < len THEN 0 ELSE orig[p])
    /\ op = "avx2_zero" => mem = Zeros(n)
    /\ op \in {"flatten_iovec", "fast_flatten_iovec"} =>
         \A p \in 0 .. n - 1 : mem[m - n + p] = orig[p]
    /\ op = "get_kernel_owned_buffer" /\ len = 0 => \A p \in 0 .. Assumed - 1 : mem[p] = orig[p]

(* Every loop ends.                                                        *)
HelpersReturn == <>(res # -1)
=============================================================================

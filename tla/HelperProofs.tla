--------------------------- MODULE HelperProofs ---------------------------
(***************************************************************************)
(* The byte loops of module ByteOps stay inside their buffers and compute  *)
(* what they promise, for every vector width, buffer and length. The tags  *)
(* of module UserData survive the ring and are distinct, for fields of any *)
(* width.                                                                  *)
(***************************************************************************)
EXTENDS UserData, ByteOps, WellFoundedInduction, TLAPS

-----------------------------------------------------------------------------
(* Facts about numbers                                                     *)

LEMMA LeastExists ==
  ASSUME NEW S, S \subseteq Nat, S # {}
  PROVE  \E p \in S : \A q \in S : p <= q
<1>1. PICK p \in S : \A q \in S : ~(<<q, p>> \in OpToRel(<, Nat))
  BY NatLessThanWellFounded, WFMin, Zenon
<1>2. \A q \in S : ~(q < p)
  BY <1>1 DEF OpToRel
<1> QED
  BY <1>2

LEMMA FirstIs ==
  ASSUME NEW S, S \subseteq Nat, S # {}
  PROVE  First(S) \in S /\ \A q \in S : First(S) <= q
BY LeastExists, Zenon DEF First

LEMMA LastIs ==
  ASSUME NEW b \in Nat, NEW S, S \subseteq 0 .. b, S # {}
  PROVE  Last(S) \in S /\ \A q \in S : q <= Last(S)
<1> DEFINE T == {b - p : p \in S}
<1>1. T \subseteq Nat
  OBVIOUS
<1>2. PICK s \in S : TRUE
  OBVIOUS
<1>3. b - s \in T
  BY <1>2
<1>4. PICK t \in T : \A q \in T : t <= q
  <2> HIDE DEF T
  <2> QED
    BY <1>1, <1>3, LeastExists
<1>5. PICK p \in S : t = b - p
  BY <1>4
<1>6. \A q \in S : q <= p
  <2> SUFFICES ASSUME NEW q \in S
               PROVE  q <= p
    OBVIOUS
  <2>1. b - p <= b - q
    BY <1>4, <1>5
  <2> QED
    BY <2>1
<1>7. \E x \in S : \A q \in S : q <= x
  BY <1>6
<1> QED
  BY <1>7, Zenon DEF Last

LEMMA Multiple ==
  ASSUME NEW a \in Nat, NEW w \in Nat \ {0}, a % w = 0
  PROVE  \E q \in Nat : a = q * w
<1>1. a = w * (a \div w) /\ (a \div w) \in Nat
  OBVIOUS
<1> QED
  BY <1>1

LEMMA NextMultiple ==
  ASSUME NEW a \in Nat, NEW b \in Nat, NEW w \in Nat \ {0}, a * w < b * w
  PROVE  (a + 1) * w = a * w + w /\ a * w + w <= b * w
OBVIOUS

LEMMA Scaled ==
  ASSUME NEW a \in Nat, NEW b \in Nat, NEW c \in Nat, a <= b
  PROVE  c * a \in Nat /\ c * b \in Nat /\ c * a <= c * b /\ (c + 1) * b = c * b + b
OBVIOUS

-----------------------------------------------------------------------------
(* The loop invariants                                                     *)

Ops == {"l_trim256", "r_trim256", "ubdma", "shift_safe", "avx2_zero", "shift_ub",
        "fast_flatten_iovec", "flatten_iovec", "get_kernel_owned_buffer"}
Flattens == {"fast_flatten_iovec", "flatten_iovec"}
Memories(k) == [0 .. k - 1 -> Nat \cup {Junk}]

(* Arguments, types and bounds.                                            *)
Calls ==
  /\ op \in Ops
  /\ IF op = "ubdma" THEN pc \in {"shift_ub_inplace", "l_trim256"} ELSE pc = op
  /\ n \in Nat /\ len \in 0 .. n /\ orig \in [0 .. n - 1 -> Nat]
  /\ m = IF op = "flatten_iovec" THEN len + n
         ELSE IF op = "get_kernel_owned_buffer" THEN BufSize ELSE n
  /\ op = "get_kernel_owned_buffer" => (len + 1) * BufSize <= n
  /\ mem \in Memories(m)
  /\ i \in Nat /\ res \in Int
  /\ rd \in Nat /\ wr \in Nat /\ rd <= n /\ wr <= m

(* Everything that l_trim256 has passed is zero.                           *)
LTrim ==
  pc = "l_trim256" =>
    /\ i <= n /\ \A p \in 0 .. i - 1 : mem[p] = 0
    /\ res # -1 => /\ res \in 0 .. n /\ \A p \in 0 .. res - 1 : mem[p] = 0
                   /\ res < n => mem[res] # 0

RTrim ==
  /\ mem = orig /\ i <= n /\ \A p \in i .. n - 1 : mem[p] = 0
  /\ res # -1 => /\ res \in 0 .. n /\ \A p \in res .. n - 1 : mem[p] = 0
                 /\ res > 0 => mem[res - 1] # 0

(* The front is at the end and zeros are before it.                        *)
Moved == \A p \in 0 .. n - 1 : mem[p] = Shifted(p, 0)

Ubdma == IF pc = "l_trim256" THEN Moved ELSE mem = orig /\ i = 0 /\ res = -1

ShiftUb ==
  /\ i <= len
  /\ \A p \in 0 .. n - 1 : mem[p] = IF p < n - len + i THEN Shifted(p, 0) ELSE 0
  /\ res # -1 => i = len

(* From i on the front was moved away, and zeroed where nothing was moved  *)
(* to.                                                                     *)
ShiftSafe ==
  /\ i <= len
  /\ \A p \in 0 .. n - 1 :
       mem[p] = IF len < n /\ p >= n - len + i THEN orig[p - (n - len)]
                ELSE IF p \in i .. len - 1 THEN 0 ELSE orig[p]
  /\ res # -1 => i = 0

Zeroed ==
  /\ i <= n /\ \A p \in 0 .. i - 1 : mem[p] = 0
  /\ res # -1 => i = n

Flattened ==
  /\ i <= n /\ \A p \in 0 .. i - 1 : mem[m - n + p] = orig[p]
  /\ res # -1 => i = n

Owned ==
  /\ i <= Assumed /\ \E q \in Nat : i = q * Width
  /\ len = 0 => \A p \in 0 .. i - 1 : mem[p] = orig[p]
  /\ res # -1 => i = Assumed

ByteInv ==
  /\ Calls
  /\ op \in {"l_trim256", "ubdma"} => LTrim
  /\ op = "l_trim256" => mem = orig
  /\ op = "ubdma" => Ubdma
  /\ op = "r_trim256" => RTrim
  /\ op = "shift_ub" => ShiftUb
  /\ op = "shift_safe" => ShiftSafe
  /\ op = "avx2_zero" => Zeroed
  /\ op \in Flattens => Flattened
  /\ op = "get_kernel_owned_buffer" => Owned

LEMMA ByteInvInit == ByteInit => ByteInv
<1> SUFFICES ASSUME ByteInit
             PROVE  ByteInv
  OBVIOUS
<1>1. op \in Ops
  BY DEF ByteInit, Start, Ops
<1>2. n \in Nat /\ len \in 0 .. n /\ MaxLen \in Nat
  BY ByteAssumption DEF ByteInit
<1>3. orig \in [0 .. n - 1 -> Nat]
  BY <1>2 DEF ByteInit, Buffers
<1>4. m = IF op = "flatten_iovec" THEN len + n
          ELSE IF op = "get_kernel_owned_buffer" THEN BufSize ELSE n
  BY DEF ByteInit
<1>5. /\ mem = Start[op] /\ res = -1 /\ rd = 0 /\ wr = 0
      /\ i = IF op = "r_trim256" THEN n ELSE IF op = "shift_safe" THEN len ELSE 0
      /\ pc = IF op = "ubdma" THEN "shift_ub_inplace" ELSE op
      /\ op = "get_kernel_owned_buffer" => (len + 1) * BufSize <= n
  BY DEF ByteInit
<1>6. /\ op \in {"l_trim256", "r_trim256", "ubdma", "shift_safe", "avx2_zero"} => mem = orig
      /\ op = "shift_ub" => mem = Zeros(n)
      /\ op = "fast_flatten_iovec" => mem = Blank(n)
      /\ op = "flatten_iovec" => mem = [p \in 0 .. len + n - 1 |-> IF p < len THEN 0 ELSE Junk]
      /\ op = "get_kernel_owned_buffer" => mem = Blank(BufSize)
  <2>1. CASE op \in {"l_trim256", "r_trim256", "ubdma", "shift_safe", "avx2_zero"}
    BY <1>5, <2>1 DEF Start
  <2>2. CASE op = "shift_ub"
    BY <1>5, <2>2 DEF Start
  <2>3. CASE op = "fast_flatten_iovec"
    BY <1>5, <2>3 DEF Start
  <2>4. CASE op = "flatten_iovec"
    <3>1. mem = Start["flatten_iovec"]
      BY <1>5, <2>4
    <3>2. mem = [p \in 0 .. len + n - 1 |-> IF p < len THEN 0 ELSE Junk]
      BY <3>1 DEF Start
    <3> QED
      BY <2>4, <3>2
  <2>5. CASE op = "get_kernel_owned_buffer"
    BY <1>5, <2>5 DEF Start
  <2> QED
    BY <1>1, <2>1, <2>2, <2>3, <2>4, <2>5 DEF Ops
<1>7. mem \in Memories(m)
  BY <1>1, <1>2, <1>3, <1>4, <1>6 DEF Memories, Ops, Zeros, Blank
<1>8. BufSize \in Nat /\ m \in Nat
  BY <1>2, <1>4, ByteAssumption
<1>9. Calls
  BY <1>1, <1>2, <1>3, <1>4, <1>5, <1>7, <1>8 DEF Calls, Ops
<1>10. op \in {"l_trim256", "ubdma"} => LTrim
  BY <1>2, <1>5 DEF LTrim
<1>11. op = "ubdma" => Ubdma
  BY <1>5, <1>6 DEF Ubdma
<1>12. op = "r_trim256" => RTrim
  BY <1>2, <1>5, <1>6 DEF RTrim
<1>13. op = "shift_ub" => ShiftUb
  BY <1>2, <1>5, <1>6 DEF ShiftUb, Zeros, Shifted
<1>14. op = "shift_safe" => ShiftSafe
  BY <1>2, <1>5, <1>6 DEF ShiftSafe
<1>15. op = "avx2_zero" => Zeroed
  BY <1>2, <1>5 DEF Zeroed
<1>16. op \in Flattens => Flattened
  BY <1>2, <1>5 DEF Flattened, Flattens
<1>17. op = "get_kernel_owned_buffer" => Owned
  BY <1>2, <1>5, ByteAssumption DEF Owned
<1> QED
  BY <1>6, <1>9, <1>10, <1>11, <1>12, <1>13, <1>14, <1>15, <1>16, <1>17 DEF ByteInv

-----------------------------------------------------------------------------
(* Every step keeps the invariant of its loop                              *)

LEMMA PutIs ==
  ASSUME NEW z \in Nat, NEW b \in Memories(z), NEW a \in Nat, NEW k \in Nat, a + k <= z,
         NEW s, NEW f \in Nat, \A j \in f .. f + k - 1 : s[j] \in Nat \cup {Junk}
  PROVE  /\ Put(b, a, s, f, k) \in Memories(z)
         /\ \A p \in 0 .. z - 1 :
              Put(b, a, s, f, k)[p] = IF a <= p /\ p < a + k THEN s[f + p - a] ELSE b[p]
<1>1. DOMAIN b = 0 .. z - 1 /\ \A p \in 0 .. z - 1 : b[p] \in Nat \cup {Junk}
  BY DEF Memories
<1>2. \A p \in 0 .. z - 1 : p \in a .. a + k - 1 <=> a <= p /\ p < a + k
  OBVIOUS
<1>3. \A p \in 0 .. z - 1 : a <= p /\ p < a + k => f + p - a \in f .. f + k - 1
  OBVIOUS
<1> QED
  BY <1>1, <1>2, <1>3 DEF Put, Memories

LEMMA LTrimStep ==
  ASSUME ByteInv, l_trim256
  PROVE  ByteInv'
<1> DEFINE k == IF i + Width <= n THEN Width ELSE 1
           Found == NonZero(mem, i .. i + k - 1)
<1>1. /\ pc = "l_trim256" /\ op \in {"l_trim256", "ubdma"} /\ res = -1 /\ Calls /\ LTrim
      /\ i \in Nat /\ n \in Nat /\ i <= n
  BY DEF l_trim256, At, ByteInv, Calls, LTrim
<1>2. Width \in Nat \ {0}
  BY ByteAssumption
<1>3. UNCHANGED <<op, orig, n, len, m, pc, mem, wr>>
  BY DEF l_trim256, Read, argVars
<1>4. CASE i = n
  <2>1. res' = n /\ i' = i /\ rd' = rd
    BY <1>4 DEF l_trim256, Return, Read
  <2>2. Calls' /\ LTrim'
    BY <1>1, <1>3, <1>4, <2>1 DEF Calls, LTrim
  <2> QED
    BY <1>1, <1>3, <2>2 DEF ByteInv, Ubdma, Moved, Shifted, Flattens
<1>5. CASE i # n
  <2>1. k \in Nat \ {0} /\ i + k <= n
    BY <1>1, <1>2, <1>5
  <2>2. rd' = i + k /\ IF Found = {} THEN GoOn(i + k) ELSE Return(First(Found))
    BY <1>5 DEF l_trim256, Read
  <2> HIDE DEF k
  <2>3. CASE Found = {}
    <3>1. i' = i + k /\ res' = res
      BY <2>2, <2>3 DEF GoOn
    <3>2. \A p \in 0 .. (i + k) - 1 : mem[p] = 0
      BY <1>1, <2>1, <2>3 DEF NonZero, LTrim
    <3>3. Calls' /\ LTrim'
      BY <1>1, <1>3, <2>1, <2>2, <3>1, <3>2 DEF Calls, LTrim
    <3> QED
      BY <1>1, <1>3, <3>3 DEF ByteInv, Ubdma, Moved, Shifted, Flattens
  <2>4. CASE Found # {}
    <3>1. i' = i /\ res' = First(Found)
      BY <2>2, <2>4 DEF Return
    <3>2. Found \subseteq Nat /\ Found \subseteq i .. i + k - 1 /\ \A p \in Found : mem[p] # 0
      BY <1>1, <2>1 DEF NonZero
    <3>3. First(Found) \in Found /\ \A q \in Found : First(Found) <= q
      BY <2>4, <3>2, FirstIs
    <3>4. PICK f \in Found : f = First(Found)
      BY <3>3
    <3>5. f \in 0 .. n /\ f < n /\ mem[f] # 0
      BY <1>1, <2>1, <3>2, <3>4
    <3>6. \A p \in 0 .. f - 1 : mem[p] = 0
      <4> SUFFICES ASSUME NEW p \in 0 .. f - 1, mem[p] # 0
                   PROVE  FALSE
        OBVIOUS
      <4>1. p \in Nat /\ p < f /\ f < i + k
        <5>1. f \in i .. i + k - 1 /\ f \in Nat
          BY <3>2, <3>4
        <5> QED
          BY <1>1, <2>1, <5>1
      <4>2. ~(p < i)
        BY <1>1, <4>1 DEF LTrim
      <4>3. p \in Found
        BY <1>1, <2>1, <4>1, <4>2 DEF NonZero
      <4> QED
        BY <3>3, <3>4, <3>5, <4>1, <4>3
    <3>7. Calls' /\ LTrim'
      BY <1>1, <1>3, <2>1, <2>2, <3>1, <3>4, <3>5, <3>6 DEF Calls, LTrim
    <3> QED
      BY <1>1, <1>3, <3>7 DEF ByteInv, Ubdma, Moved, Shifted, Flattens
  <2> QED
    BY <2>3, <2>4
<1> QED
  BY <1>4, <1>5

LEMMA RTrimStep ==
  ASSUME ByteInv, r_trim256
  PROVE  ByteInv'
<1> DEFINE k == IF Width <= i THEN Width ELSE 1
           Found == NonZero(mem, i - k .. i - 1)
<1>1. /\ pc = "r_trim256" /\ op = "r_trim256" /\ res = -1 /\ Calls /\ RTrim
      /\ i \in Nat /\ n \in Nat /\ i <= n
  BY DEF r_trim256, At, ByteInv, Calls, RTrim
<1>2. Width \in Nat \ {0}
  BY ByteAssumption
<1>3. UNCHANGED <<op, orig, n, len, m, pc, mem, wr>>
  BY DEF r_trim256, Read, argVars
<1>4. Calls' /\ RTrim' => ByteInv'
  BY <1>1, <1>3 DEF ByteInv, Flattens
<1>5. CASE i = 0
  <2>1. res' = 0 /\ i' = i /\ rd' = rd
    BY <1>5 DEF r_trim256, Return, Read
  <2> QED
    BY <1>1, <1>3, <1>4, <1>5, <2>1 DEF Calls, RTrim
<1>6. CASE i # 0
  <2>1. k \in Nat \ {0} /\ i - k \in Nat
    BY <1>1, <1>2, <1>6
  <2>2. rd' = i /\ IF Found = {} THEN GoOn(i - k) ELSE Return(Last(Found) + 1)
    BY <1>6 DEF r_trim256, Read, StepBack, EndAfter
  <2> HIDE DEF k
  <2>3. CASE Found = {}
    <3>1. i' = i - k /\ res' = res
      BY <2>2, <2>3 DEF GoOn
    <3>2. \A p \in (i - k) .. n - 1 : mem[p] = 0
      BY <1>1, <2>1, <2>3 DEF NonZero, RTrim
    <3>3. Calls' /\ RTrim'
      BY <1>1, <1>3, <2>1, <2>2, <3>1, <3>2 DEF Calls, RTrim
    <3> QED
      BY <1>4, <3>3
  <2>4. CASE Found # {}
    <3>1. i' = i /\ res' = Last(Found) + 1
      BY <2>2, <2>4 DEF Return
    <3>2. /\ Found \subseteq 0 .. n /\ Found \subseteq i - k .. i - 1
          /\ \A p \in Found : mem[p] # 0
      BY <1>1, <2>1 DEF NonZero
    <3>3. Last(Found) \in Found /\ \A q \in Found : q <= Last(Found)
      BY <1>1, <2>4, <3>2, LastIs
    <3>4. PICK f \in Found : f = Last(Found)
      BY <3>3
    <3>5. f \in Nat /\ f < n /\ f < i /\ i - k <= f /\ mem[f] # 0
      BY <1>1, <2>1, <3>2, <3>4
    <3>6. \A p \in f + 1 .. n - 1 : mem[p] = 0
      <4> SUFFICES ASSUME NEW p \in f + 1 .. n - 1, mem[p] # 0
                   PROVE  FALSE
        OBVIOUS
      <4>1. p \in Nat /\ f < p /\ p < n
        BY <1>1, <3>5
      <4>2. p < i
        BY <1>1, <4>1 DEF RTrim
      <4>3. p \in Found
        BY <1>1, <2>1, <3>5, <4>1, <4>2 DEF NonZero
      <4> QED
        BY <3>3, <3>4, <3>5, <4>1, <4>3
    <3>7. res' \in 0 .. n /\ res' # -1 /\ res' - 1 = f
      BY <1>1, <3>1, <3>4, <3>5
    <3>8. Calls'
      BY <1>1, <1>3, <2>1, <2>2, <3>1, <3>7 DEF Calls
    <3>9. RTrim'
      BY <1>1, <1>3, <3>1, <3>5, <3>6, <3>7 DEF RTrim
    <3> QED
      BY <1>4, <3>8, <3>9
  <2> QED
    BY <2>3, <2>4
<1> QED
  BY <1>5, <1>6

LEMMA ShiftInplaceStep ==
  ASSUME ByteInv, shift_ub_inplace
  PROVE  ByteInv'
<1> DEFINE new == Put(mem, n - len, mem, 0, len)
<1>1. /\ pc = "shift_ub_inplace" /\ op = "ubdma" /\ res = -1 /\ Calls /\ mem = orig /\ i = 0
      /\ n \in Nat /\ len \in 0 .. n /\ m = n /\ mem \in Memories(n)
  BY DEF shift_ub_inplace, At, ByteInv, Calls, Ubdma, Ops
<1>2. /\ UNCHANGED <<op, orig, n, len, m, i, res>>
      /\ mem' = FrontFilled(new) /\ pc' = "l_trim256" /\ rd' = len /\ wr' = n
  BY DEF shift_ub_inplace, argVars
<1>3. \A j \in 0 .. 0 + len - 1 : mem[j] \in Nat \cup {Junk}
  BY <1>1 DEF Memories
<1>4. /\ new \in Memories(n)
      /\ \A p \in 0 .. n - 1 :
           new[p] = IF n - len <= p /\ p < (n - len) + len THEN mem[0 + p - (n - len)] ELSE mem[p]
  BY <1>1, <1>3, PutIs
<1> HIDE DEF new
<1>5. /\ mem' \in Memories(n)
      /\ \A p \in 0 .. n - 1 : mem'[p] = IF p < n - len THEN 0 ELSE new[p]
  BY <1>1, <1>2, <1>4 DEF FrontFilled, Memories
<1>6. \A p \in 0 .. n - 1 : mem'[p] = IF p >= n - len THEN orig[p - (n - len)] ELSE 0
  BY <1>1, <1>4, <1>5
<1>7. Calls'
  BY <1>1, <1>2, <1>5 DEF Calls, Ops
<1>8. LTrim' /\ Ubdma'
  BY <1>1, <1>2, <1>6 DEF LTrim, Ubdma, Moved, Shifted
<1> QED
  BY <1>1, <1>2, <1>7, <1>8 DEF ByteInv, Flattens

LEMMA ShiftSafeStep ==
  ASSUME ByteInv, shift_safe
  PROVE  ByteInv'
<1> DEFINE d == n - len
           j == i - 1
           new == Put(mem, n - len + i - 1, mem, i - 1, 1)
<1>1. /\ pc = "shift_safe" /\ op = "shift_safe" /\ res = -1 /\ Calls /\ ShiftSafe
      /\ n \in Nat /\ len \in Nat /\ len <= n /\ m = n /\ mem \in Memories(n)
      /\ i \in Nat /\ i <= len
  BY DEF shift_safe, At, ByteInv, Calls, ShiftSafe, Ops
<1>2. UNCHANGED <<op, orig, n, len, m, pc>>
  BY DEF shift_safe, Write, argVars
<1>3. Calls' /\ ShiftSafe' => ByteInv'
  BY <1>1, <1>2 DEF ByteInv, Flattens
<1>4. CASE i = 0
  <2>1. UNCHANGED <<mem, rd, wr, i>> /\ res' = 0
    BY <1>4 DEF shift_safe, Return, Write
  <2> QED
    BY <1>1, <1>2, <1>3, <1>4, <2>1 DEF Calls, ShiftSafe
<1>5. CASE i # 0
  <2>1. /\ i' = j /\ res' = res /\ rd' = i /\ wr' = n - len + i
        /\ mem' = [new EXCEPT ![j] = 0]
    BY <1>5 DEF shift_safe, GoOn, Write
  <2>2. j \in Nat /\ d \in Nat /\ d + j + 1 <= n /\ n - len + i - 1 = d + j /\ j < len /\ j < n
    BY <1>1, <1>5
  <2>3. \A q \in j .. j + 1 - 1 : mem[q] \in Nat \cup {Junk}
    BY <1>1, <2>2 DEF Memories
  <2>4. /\ new \in Memories(n)
        /\ \A p \in 0 .. n - 1 :
             new[p] = IF d + j <= p /\ p < d + j + 1 THEN mem[j + p - (d + j)] ELSE mem[p]
    BY <1>1, <2>2, <2>3, PutIs
  <2> HIDE DEF new
  <2>5. /\ mem' \in Memories(n)
        /\ \A p \in 0 .. n - 1 :
             mem'[p] = IF p = j THEN 0 ELSE IF p = d + j THEN mem[j] ELSE mem[p]
    <3>1. \A p \in 0 .. n - 1 : mem'[p] = IF p = j THEN 0 ELSE new[p]
      BY <2>1, <2>2, <2>4 DEF Memories
    <3>2. mem' \in Memories(n)
      BY <2>1, <2>2, <2>4 DEF Memories
    <3>3. \A p \in 0 .. n - 1 : new[p] = IF p = d + j THEN mem[j] ELSE mem[p]
      BY <2>2, <2>4
    <3> QED
      BY <3>1, <3>2, <3>3
  <2>6. ASSUME NEW p \in 0 .. n - 1
        PROVE  mem'[p] = IF len < n /\ p >= n - len + j THEN orig[p - (n - len)]
                         ELSE IF p \in j .. len - 1 THEN 0 ELSE orig[p]
    <3>1. /\ mem[p] = IF len < n /\ p >= n - len + i THEN orig[p - (n - len)]
                      ELSE IF p \in i .. len - 1 THEN 0 ELSE orig[p]
          /\ mem[j] = orig[j]
      BY <1>1, <2>2 DEF ShiftSafe
    <3>2. CASE p = j
      BY <1>1, <2>2, <2>5, <3>2
    <3>3. CASE p # j /\ p = d + j
      <4>1. mem'[p] = orig[j] /\ p - (n - len) = j /\ len < n
        BY <1>1, <2>2, <2>5, <3>1, <3>3
      <4> QED
        BY <1>1, <2>2, <3>3, <4>1
    <3>4. CASE p # j /\ p # d + j
      <4>1. mem'[p] = mem[p] /\ (p >= n - len + j <=> p >= n - len + i)
            /\ (p \in j .. len - 1 <=> p \in i .. len - 1)
        BY <1>1, <1>5, <2>2, <2>5, <3>4
      <4> QED
        BY <3>1, <4>1
    <3> QED
      BY <3>2, <3>3, <3>4
  <2>7. ShiftSafe'
    BY <1>1, <1>2, <2>1, <2>2, <2>6 DEF ShiftSafe
  <2>8. Calls'
    BY <1>1, <1>2, <2>1, <2>2, <2>5 DEF Calls, Ops
  <2> QED
    BY <1>3, <2>7, <2>8
<1> QED
  BY <1>4, <1>5

LEMMA ShiftUbStep ==
  ASSUME ByteInv, shift_ub
  PROVE  ByteInv'
<1> DEFINE d == n - len
           k == IF i + Width <= len THEN Width ELSE 1
           new == Put(mem, n - len + i, orig, i, k)
<1>1. /\ pc = "shift_ub" /\ op = "shift_ub" /\ res = -1 /\ Calls /\ ShiftUb
      /\ n \in Nat /\ len \in Nat /\ len <= n /\ m = n /\ mem \in Memories(n)
      /\ i \in Nat /\ i <= len /\ orig \in [0 .. n - 1 -> Nat]
  BY DEF shift_ub, At, ByteInv, Calls, ShiftUb, Ops
<1>2. UNCHANGED <<op, orig, n, len, m, pc>>
  BY DEF shift_ub, Write, argVars
<1>3. Calls' /\ ShiftUb' => ByteInv'
  BY <1>1, <1>2 DEF ByteInv, Flattens
<1>4. CASE i = len
  <2>1. UNCHANGED <<mem, rd, wr, i>> /\ res' = 0
    BY <1>4 DEF shift_ub, Return, Write
  <2> QED
    BY <1>1, <1>2, <1>3, <1>4, <2>1 DEF Calls, ShiftUb, Shifted
<1>5. CASE i # len
  <2>1. k \in Nat \ {0} /\ i + k <= len
    BY <1>1, <1>5, ByteAssumption
  <2>2. i' = i + k /\ res' = res /\ mem' = new /\ rd' = i + k /\ wr' = n - len + i + k
    BY <1>5 DEF shift_ub, GoOn, Write
  <2> HIDE DEF k
  <2>3. d + i \in Nat /\ d + i + k <= n /\ n - len + i = d + i /\ d \in Nat
    BY <1>1, <2>1
  <2>4. \A q \in i .. i + k - 1 : orig[q] \in Nat \cup {Junk}
    BY <1>1, <2>1
  <2>5. /\ new \in Memories(n)
        /\ \A p \in 0 .. n - 1 :
             new[p] = IF d + i <= p /\ p < d + i + k THEN orig[i + p - (d + i)] ELSE mem[p]
    BY <1>1, <2>1, <2>3, <2>4, PutIs
  <2> HIDE DEF new
  <2>6. ASSUME NEW p \in 0 .. n - 1
        PROVE  mem'[p] = IF p < n - len + (i + k) THEN Shifted(p, 0) ELSE 0
    <3>1. mem[p] = IF p < n - len + i THEN Shifted(p, 0) ELSE 0
      BY <1>1 DEF ShiftUb
    <3>2. CASE d + i <= p /\ p < d + i + k
      <4>1. i + p - (d + i) = p - (n - len) /\ p >= n - len
        BY <1>1, <2>3, <3>2
      <4> QED
        BY <1>1, <2>1, <2>2, <2>3, <2>5, <3>2, <4>1 DEF Shifted
    <3>3. CASE ~(d + i <= p /\ p < d + i + k)
      <4>1. p < n - len + i <=> p < n - len + (i + k)
        BY <1>1, <2>1, <2>3, <3>3
      <4> QED
        BY <2>2, <2>5, <3>1, <3>3, <4>1
    <3> QED
      BY <3>2, <3>3
  <2>7. ShiftUb'
    BY <1>1, <1>2, <2>1, <2>2, <2>6 DEF ShiftUb, Shifted
  <2>8. Calls'
    BY <1>1, <1>2, <2>1, <2>2, <2>3, <2>5 DEF Calls, Ops
  <2> QED
    BY <1>3, <2>7, <2>8
<1> QED
  BY <1>4, <1>5

LEMMA ZeroStep ==
  ASSUME ByteInv, avx2_zero
  PROVE  ByteInv'
<1> DEFINE k == IF VectorFits THEN Width ELSE n - i
           new == Put(mem, i, Zeros(m), 0, k)
<1>1. /\ pc = "avx2_zero" /\ op = "avx2_zero" /\ res = -1 /\ Calls /\ Zeroed
      /\ n \in Nat /\ m = n /\ mem \in Memories(n) /\ i \in Nat /\ i <= n
  BY DEF avx2_zero, At, ByteInv, Calls, Zeroed, Ops
<1>2. UNCHANGED <<op, orig, n, len, m, pc>>
  BY DEF avx2_zero, Write, argVars
<1>3. Calls' /\ Zeroed' => ByteInv'
  BY <1>1, <1>2 DEF ByteInv, Flattens
<1>4. CASE i = n
  <2>1. UNCHANGED <<mem, rd, wr, i>> /\ res' = 0
    BY <1>4 DEF avx2_zero, Return, Write
  <2> QED
    BY <1>1, <1>2, <1>3, <1>4, <2>1 DEF Calls, Zeroed
<1>5. CASE i # n
  <2>1. k \in Nat \ {0} /\ i + k <= n
    BY <1>1, <1>5, ByteAssumption DEF VectorFits
  <2>2. i' = i + k /\ res' = res /\ mem' = new /\ rd' = rd /\ wr' = i + k
    BY <1>5 DEF avx2_zero, GoOn, Write
  <2> HIDE DEF k
  <2>3. \A q \in 0 .. 0 + k - 1 : Zeros(m)[q] = 0
    BY <1>1, <2>1 DEF Zeros
  <2>4. /\ new \in Memories(n)
        /\ \A p \in 0 .. n - 1 :
             new[p] = IF i <= p /\ p < i + k THEN Zeros(m)[0 + p - i] ELSE mem[p]
    BY <1>1, <2>1, <2>3, PutIs
  <2> HIDE DEF new
  <2>5. \A p \in 0 .. (i + k) - 1 : new[p] = 0
    BY <1>1, <2>1, <2>3, <2>4 DEF Zeroed
  <2>6. Zeroed'
    BY <1>1, <1>2, <2>1, <2>2, <2>5 DEF Zeroed
  <2>7. Calls'
    BY <1>1, <1>2, <2>1, <2>2, <2>4 DEF Calls, Ops
  <2> QED
    BY <1>3, <2>6, <2>7
<1> QED
  BY <1>4, <1>5

LEMMA FlattenStep ==
  ASSUME ByteInv, flatten
  PROVE  ByteInv'
<1> DEFINE base == m - n
<1>1. /\ pc \in Flattens /\ op = pc /\ res = -1 /\ Calls /\ Flattened
      /\ n \in Nat /\ m \in Nat /\ base \in Nat /\ m = base + n /\ mem \in Memories(m)
      /\ i \in Nat /\ i <= n /\ orig \in [0 .. n - 1 -> Nat]
  BY DEF flatten, At, ByteInv, Calls, Flattened, Flattens, Ops
<1>2. UNCHANGED <<op, orig, n, len, m, pc>>
  BY DEF flatten, Write, argVars
<1>3. Calls' /\ Flattened' => ByteInv'
  BY <1>1, <1>2 DEF ByteInv, Flattens
<1>4. CASE i = n /\ Return(n) /\ Write(mem, rd, wr)
  BY <1>1, <1>2, <1>3, <1>4 DEF Calls, Flattened, Return, Write
<1>5. ASSUME NEW k \in 1 .. n - i, GoOn(i + k),
             Write(Put(mem, base + i, orig, i, k), i + k, base + i + k)
      PROVE  ByteInv'
  <2> DEFINE new == Put(mem, base + i, orig, i, k)
  <2>1. k \in Nat /\ i + k <= n /\ base + i \in Nat /\ base + i + k <= m
    BY <1>1
  <2>2. i' = i + k /\ res' = res /\ mem' = new /\ rd' = i + k /\ wr' = base + i + k
    BY <1>5 DEF GoOn, Write
  <2>3. \A q \in i .. i + k - 1 : orig[q] \in Nat \cup {Junk}
    BY <1>1, <2>1
  <2>4. /\ new \in Memories(m)
        /\ \A p \in 0 .. m - 1 :
             new[p] = IF base + i <= p /\ p < base + i + k THEN orig[i + p - (base + i)] ELSE mem[p]
    BY <1>1, <2>1, <2>3, PutIs
  <2> HIDE DEF new
  <2>5. ASSUME NEW p \in 0 .. (i + k) - 1
        PROVE  new[base + p] = orig[p]
    <3>1. /\ base + p \in 0 .. m - 1 /\ i + (base + p) - (base + i) = p
          /\ base + p < base + i + k
      BY <1>1, <2>1
    <3>2. CASE p < i
      <4>1. mem[base + p] = orig[p] /\ ~(base + i <= base + p)
        BY <1>1, <2>1, <3>2 DEF Flattened
      <4> QED
        BY <2>4, <3>1, <4>1
    <3>3. CASE i <= p
      <4>1. base + i <= base + p
        BY <1>1, <3>3
      <4> QED
        BY <2>4, <3>1, <4>1
    <3> QED
      BY <1>1, <3>2, <3>3
  <2>6. Flattened'
    BY <1>1, <1>2, <2>1, <2>2, <2>5 DEF Flattened
  <2>7. Calls'
    <3>1. /\ i' \in Nat /\ rd' \in Nat /\ rd' <= n /\ wr' \in Nat /\ wr' <= m
          /\ res' \in Int /\ mem' \in Memories(m)
      <4>1. i + k \in Nat /\ base + i + k \in Nat
        BY <1>1, <2>1
      <4> HIDE DEF base
      <4>2. res' = -1 /\ mem' = new
        BY <1>1, <2>2
      <4> QED
        BY <2>1, <2>2, <2>4, <4>1, <4>2
    <3> QED
      BY <1>1, <1>2, <3>1 DEF Calls
  <2> QED
    BY <1>3, <2>6, <2>7
<1> QED
  BY <1>4, <1>5 DEF flatten

LEMMA OwnedStep ==
  ASSUME ByteInv, get_kernel_owned_buffer
  PROVE  ByteInv'
<1> DEFINE from == len * Assumed + i
           new == Put(mem, i, orig, from, Width)
<1>1. /\ pc = "get_kernel_owned_buffer" /\ op = pc /\ res = -1 /\ Calls /\ Owned
      /\ n \in Nat /\ len \in Nat /\ m = BufSize /\ mem \in Memories(m)
      /\ i \in Nat /\ i <= Assumed /\ orig \in [0 .. n - 1 -> Nat]
      /\ (len + 1) * BufSize <= n
  BY DEF get_kernel_owned_buffer, At, ByteInv, Calls, Owned, Ops
<1>2. UNCHANGED <<op, orig, n, len, m, pc>>
  BY DEF get_kernel_owned_buffer, Write, argVars
<1>3. Calls' /\ Owned' => ByteInv'
  BY <1>1, <1>2 DEF ByteInv, Flattens
<1>4. /\ Width \in Nat \ {0} /\ BufSize \in Nat /\ Assumed \in Nat /\ Assumed <= BufSize
      /\ Assumed % Width = 0
  BY ByteAssumption
<1>5. CASE i >= Assumed
  <2>1. UNCHANGED <<mem, rd, wr, i>> /\ res' = 0
    BY <1>5 DEF get_kernel_owned_buffer, Return, Write
  <2>2. i = Assumed
    BY <1>1, <1>4, <1>5
  <2> QED
    BY <1>1, <1>2, <1>3, <2>1, <2>2 DEF Calls, Owned
<1>6. CASE ~(i >= Assumed)
  <2>1. PICK q \in Nat : i = q * Width
    BY <1>1 DEF Owned
  <2>2. PICK a \in Nat : Assumed = a * Width
    BY <1>4, Multiple
  <2>3. q * Width < a * Width
    BY <1>1, <1>4, <1>6, <2>1, <2>2
  <2>4. i + Width = (q + 1) * Width /\ i + Width <= Assumed
    BY <1>4, <2>1, <2>2, <2>3, NextMultiple
  <2>5. len * Assumed \in Nat /\ len * Assumed <= len * BufSize /\ len * BufSize + BufSize <= n
        /\ len * BufSize \in Nat
    BY <1>1, <1>4, Scaled
  <2>6. from \in Nat /\ from + Width <= n
    BY <1>1, <1>4, <2>4, <2>5
  <2>7. /\ i' = i + Width /\ res' = res /\ mem' = new /\ rd' = from + Width
        /\ wr' = i + Width
    BY <1>6 DEF get_kernel_owned_buffer, GoOn, Write
  <2>8. len = 0 => from = i
    BY <1>1, <1>4
  <2> HIDE DEF from
  <2>9. \A j \in from .. from + Width - 1 : orig[j] \in Nat \cup {Junk}
    BY <1>1, <1>4, <2>6
  <2>10. i + Width <= m /\ m \in Nat
    BY <1>1, <1>4, <2>4
  <2>11. /\ new \in Memories(m)
         /\ \A p \in 0 .. m - 1 :
              new[p] = IF i <= p /\ p < i + Width THEN orig[from + p - i] ELSE mem[p]
    BY <1>1, <1>4, <2>6, <2>9, <2>10, PutIs
  <2> HIDE DEF new
  <2>12. len = 0 => \A p \in 0 .. (i + Width) - 1 : new[p] = orig[p]
    <3> SUFFICES ASSUME len = 0, NEW p \in 0 .. (i + Width) - 1
                 PROVE  new[p] = orig[p]
      OBVIOUS
    <3>1. p \in 0 .. m - 1 /\ from + p - i = p
      BY <1>1, <1>4, <2>8, <2>10
    <3>2. p < i => mem[p] = orig[p]
      BY <1>1 DEF Owned
    <3>3. i \in Nat /\ Width \in Nat /\ p \in Nat /\ p < i + Width
      BY <1>1, <1>4
    <3>4. new[p] = IF i <= p /\ p < i + Width THEN orig[from + p - i] ELSE mem[p]
      BY <2>11, <3>1
    <3> QED
      BY <3>1, <3>2, <3>3, <3>4
  <2>13. Owned'
    BY <1>1, <1>2, <1>4, <2>1, <2>4, <2>7, <2>12 DEF Owned
  <2>14. Calls'
    BY <1>1, <1>2, <1>4, <2>4, <2>6, <2>7, <2>10, <2>11 DEF Calls, Ops
  <2> QED
    BY <1>3, <2>13, <2>14
<1> QED
  BY <1>5, <1>6

LEMMA ByteInvNext == ByteInv /\ [ByteNext]_byteVars => ByteInv'
<1> SUFFICES ASSUME ByteInv, [ByteNext]_byteVars
             PROVE  ByteInv'
  OBVIOUS
<1>1. CASE UNCHANGED byteVars
  BY <1>1 DEF byteVars, ByteInv, Calls, LTrim, RTrim, Ubdma, Moved, Shifted, ShiftUb, ShiftSafe,
     Zeroed, Flattened, Owned
<1> QED
  BY <1>1, LTrimStep, RTrimStep, ShiftInplaceStep, ShiftSafeStep, ShiftUbStep, ZeroStep,
     FlattenStep, OwnedStep
  DEF ByteNext

-----------------------------------------------------------------------------
(* No helper touches a byte outside of its buffers, whatever the width of  *)
(* a vector and the length of a buffer: the vector loops of trim.rs,       *)
(* shift.rs and memory.rs stop in time, and the loop of                    *)
(* get_kernel_owned_buffer stays inside the buffers as long as the size it *)
(* is written for is no more than BUFFER_SIZE and a multiple of a vector.  *)
THEOREM ByteAccesses == ByteSpec => []AccessesInBounds
<1>1. ByteInv => AccessesInBounds
  BY DEF ByteInv, Calls, AccessesInBounds
<1> QED
  BY <1>1, ByteInvInit, ByteInvNext, PTL DEF ByteSpec

(* l_trim256 after shift_ub_inplace returns the request that was received, *)
(* for every length and whatever the buffer held behind it, if the request *)
(* does not begin with a zero byte (ubdma).                                *)
THEOREM TrimAfterShift == ByteSpec => []TrimUndoesShift
<1>1. ByteInv => TrimUndoesShift
  <2> SUFFICES ASSUME ByteInv, op = "ubdma", res # -1, len > 0, orig[0] # 0
               PROVE  n - res = len /\ \A p \in res .. n - 1 : mem[p] = orig[p - res]
    BY DEF TrimUndoesShift
  <2>1. Calls /\ LTrim /\ Moved /\ pc = "l_trim256"
    BY DEF ByteInv, Ubdma
  <2>2. n \in Nat /\ len \in Nat /\ len <= n /\ n - len \in 0 .. n - 1
    BY <2>1 DEF Calls
  <2>3. \A p \in 0 .. n - 1 : mem[p] = IF p >= n - len THEN orig[p - (n - len)] ELSE 0
    BY <2>1 DEF Moved, Shifted
  <2>4. mem[n - len] # 0
    <3>1. n - len >= n - len /\ (n - len) - (n - len) = 0
      BY <2>2
    <3> QED
      BY <2>2, <2>3, <3>1
  <2>5. /\ res \in 0 .. n /\ \A p \in 0 .. res - 1 : mem[p] = 0
        /\ res < n => mem[res] # 0
    BY <2>1 DEF LTrim
  <2>6. res <= n - len
    BY <2>2, <2>4, <2>5
  <2>7. res >= n - len
    BY <2>2, <2>3, <2>5, <2>6
  <2>8. res = n - len
    BY <2>2, <2>5, <2>6, <2>7
  <2> QED
    BY <2>2, <2>3, <2>8
<1> QED
  BY <1>1, ByteInvInit, ByteInvNext, PTL DEF ByteSpec

(* HelpersCompute, for every vector width and every input: the trims cut   *)
(* exactly the zeros, shift_ub moves the front to the end, and shift_safe  *)
(* does if the front is not the whole buffer, avx2_zero clears all, the    *)
(* flattened vectors are joined in order, and buffer 0 is copied as it is. *)
THEOREM HelpersAreCorrect == ByteSpec => []HelpersCompute
<1>1. ByteInv => HelpersCompute
  <2> SUFFICES ASSUME ByteInv, res # -1
               PROVE  HelpersCompute
    BY DEF HelpersCompute
  <2>1. Calls /\ n \in Nat /\ len \in Nat /\ len <= n
    BY DEF ByteInv, Calls
  <2>2. CASE op = "l_trim256"
    <3>1. LTrim /\ mem = orig /\ pc = "l_trim256"
      BY <2>1, <2>2 DEF ByteInv, Calls
    <3> QED
      BY <2>2, <3>1 DEF LTrim, HelpersCompute, NonZero
  <2>3. CASE op = "r_trim256"
    BY <2>3 DEF ByteInv, RTrim, HelpersCompute, NonZero
  <2>4. CASE op = "shift_ub"
    <3>1. i = len /\ \A p \in 0 .. n - 1 : mem[p] = IF p < n - len + i THEN Shifted(p, 0) ELSE 0
      BY <2>4 DEF ByteInv, ShiftUb
    <3>2. \A p \in 0 .. n - 1 : mem[p] = Shifted(p, 0)
      BY <2>1, <3>1
    <3> QED
      BY <2>4, <3>2 DEF HelpersCompute
  <2>5. CASE op = "shift_safe"
    <3>1. /\ i = 0
          /\ \A p \in 0 .. n - 1 :
               mem[p] = IF len < n /\ p >= n - len + i THEN orig[p - (n - len)]
                        ELSE IF p \in i .. len - 1 THEN 0 ELSE orig[p]
      BY <2>5 DEF ByteInv, ShiftSafe
    <3>2. CASE len < n
      <4>1. \A p \in 0 .. n - 1 : mem[p] = Shifted(p, IF p < len THEN 0 ELSE orig[p])
        BY <2>1, <3>1, <3>2 DEF Shifted
      <4> QED
        BY <2>1, <2>5, <3>2, <4>1 DEF HelpersCompute
    <3>3. CASE len = n
      BY <2>1, <2>5, <3>3 DEF HelpersCompute
    <3> QED
      BY <2>1, <3>2, <3>3
  <2>6. CASE op = "avx2_zero"
    <3>1. mem \in Memories(n) /\ i = n /\ \A p \in 0 .. i - 1 : mem[p] = 0
      BY <2>1, <2>6 DEF Calls, ByteInv, Zeroed
    <3>2. mem = Zeros(n)
      BY <3>1 DEF Memories, Zeros
    <3> QED
      BY <2>6, <3>2 DEF HelpersCompute
  <2>7. CASE op \in Flattens
    <3>1. i = n /\ \A p \in 0 .. i - 1 : mem[m - n + p] = orig[p]
      BY <2>7 DEF ByteInv, Flattened
    <3> QED
      BY <2>7, <3>1 DEF HelpersCompute, Flattens
  <2>8. CASE op = "get_kernel_owned_buffer"
    <3>1. i = Assumed /\ (len = 0 => \A p \in 0 .. i - 1 : mem[p] = orig[p])
      BY <2>8 DEF ByteInv, Owned
    <3> QED
      BY <2>8, <3>1 DEF HelpersCompute
  <2>9. CASE op = "ubdma"
    BY <2>9 DEF HelpersCompute
  <2> QED
    BY <2>1, <2>2, <2>3, <2>4, <2>5, <2>6, <2>7, <2>8, <2>9 DEF Calls, Ops, Flattens
<1> QED
  BY <1>1, ByteInvInit, ByteInvNext, PTL DEF ByteSpec
-----------------------------------------------------------------------------
(* The arithmetic of the tags                                              *)

LEMMA Widths ==
  /\ ClientBits \in Nat \ {0} /\ BufferBits \in Nat \ {0} /\ UniqBits \in Nat \ {0}
  /\ WordBits = ClientBits + BufferBits + UniqBits /\ WordBits \in Nat
BY TagAssumption DEF WordBits

(* A carry into a position of the offset or just above it: the word added  *)
(* has a bit below. A borrow there: the word has a zero below.             *)
LEMMA CarryOfOffset ==
  ASSUME NEW x, NEW k \in 0 .. WordBits - 1
  PROVE  Carry(x, REQ_RESP_OFFSET, k) <=> \E j \in 0 .. k - 1 : j \in x
BY Widths DEF Carry, REQ_RESP_OFFSET

LEMMA BorrowOfOffset ==
  ASSUME NEW x, NEW k \in 0 .. WordBits - 1
  PROVE  Borrow(x, REQ_RESP_OFFSET, k) <=> \E j \in 0 .. k - 1 : j \notin x
BY Widths DEF Borrow, REQ_RESP_OFFSET

LEMMA InOffset ==
  ASSUME NEW k \in 0 .. WordBits - 1
  PROVE  k \in REQ_RESP_OFFSET <=> k # WordBits - 1
BY Widths DEF REQ_RESP_OFFSET

(* What an addition of the offset leaves in each position.                 *)
LEMMA AddOffset ==
  ASSUME NEW x, NEW k \in 0 .. WordBits - 1
  PROVE  /\ k # WordBits - 1 =>
              (k \in Add(x, REQ_RESP_OFFSET) <=> (k \in x <=> \E j \in 0 .. k - 1 : j \in x))
         /\ k = WordBits - 1 /\ k \notin x =>
              (k \in Add(x, REQ_RESP_OFFSET) <=> \E j \in 0 .. k - 1 : j \in x)
<1> DEFINE C == \E j \in 0 .. k - 1 : j \in x
           T == k \in x
           O == k \in REQ_RESP_OFFSET
<1>0. Carry(x, REQ_RESP_OFFSET, k) = C
  BY CarryOfOffset DEF Carry
<1>1. k \in Add(x, REQ_RESP_OFFSET) <=> ((T # O) # C)
  BY <1>0, Zenon DEF Add
<1>2. O <=> k # WordBits - 1
  BY InOffset
<1>3. C \in BOOLEAN /\ T \in BOOLEAN /\ O \in BOOLEAN
  OBVIOUS
<1> HIDE DEF C, T, O
<1>4. O => (((T # O) # C) <=> (T <=> C))
  BY <1>3
<1>5. ~O /\ ~T => (((T # O) # C) <=> C)
  BY <1>3
<1> QED
  BY <1>1, <1>2, <1>4, <1>5 DEF C, T, O

LEMMA SubOffset ==
  ASSUME NEW x, NEW k \in 0 .. WordBits - 1
  PROVE  /\ k # WordBits - 1 =>
              (k \in Sub(x, REQ_RESP_OFFSET) <=> (k \in x <=> \E j \in 0 .. k - 1 : j \notin x))
         /\ k = WordBits - 1 /\ k \in x =>
              (k \in Sub(x, REQ_RESP_OFFSET) <=> ~ \E j \in 0 .. k - 1 : j \notin x)
<1> DEFINE C == \E j \in 0 .. k - 1 : j \notin x
           T == k \in x
           O == k \in REQ_RESP_OFFSET
<1>0. Borrow(x, REQ_RESP_OFFSET, k) = C
  BY BorrowOfOffset DEF Borrow
<1>1. k \in Sub(x, REQ_RESP_OFFSET) <=> ((T # O) # C)
  BY <1>0, Zenon DEF Sub
<1>2. O <=> k # WordBits - 1
  BY InOffset
<1>3. C \in BOOLEAN /\ T \in BOOLEAN /\ O \in BOOLEAN
  OBVIOUS
<1> HIDE DEF C, T, O
<1>4. O => (((T # O) # C) <=> (T <=> C))
  BY <1>3
<1>5. ~O /\ T => (((T # O) # C) <=> ~C)
  BY <1>3
<1> QED
  BY <1>1, <1>2, <1>4, <1>5 DEF C, T, O

(* Packing: what a tag holds in each position, for a client id that is not *)
(* zero and a kind that leaves the top bit of its field clear.             *)
LEMMA TagBits ==
  ASSUME NEW u \in UserDatas, u.client_id # {}, u.uniq_id \in Unsigned(UniqBits - 1),
         NEW k \in 0 .. WordBits - 1
  PROVE  /\ k < ClientBits =>
              (k \in pack_user_data(u) <=>
                 (k \in u.client_id <=> \E j \in 0 .. k - 1 : j \in u.client_id))
         /\ k >= ClientBits /\ k # WordBits - 1 =>
              (k \in pack_user_data(u) <=>
                 k - ClientBits \in u.buffer_id \/ k - (ClientBits + BufferBits) \in u.uniq_id)
         /\ k = WordBits - 1 => k \in pack_user_data(u)
<1> DEFINE A == Add(u.client_id, REQ_RESP_OFFSET)
<1>1. /\ u.client_id \subseteq 0 .. ClientBits - 1
      /\ u.buffer_id \subseteq 0 .. BufferBits - 1
      /\ u.uniq_id \subseteq 0 .. UniqBits - 2
  BY Widths DEF UserDatas, Unsigned
<1>2. k \in pack_user_data(u) <=>
        k \in A \/ k - ClientBits \in u.buffer_id \/ k - (ClientBits + BufferBits) \in u.uniq_id
  BY DEF pack_user_data, Shl
<1>3. PICK l : l \in u.client_id
  OBVIOUS
<1>4. k >= ClientBits => k \notin u.client_id /\ \E j \in 0 .. k - 1 : j \in u.client_id
  BY <1>1, <1>3, Widths
<1>5. k < ClientBits => k - ClientBits \notin u.buffer_id
                        /\ k - (ClientBits + BufferBits) \notin u.uniq_id /\ k # WordBits - 1
  BY <1>1, Widths
<1>6. k < ClientBits =>
        (k \in A <=> (k \in u.client_id <=> \E j \in 0 .. k - 1 : j \in u.client_id))
  BY <1>5, AddOffset
<1>7. k >= ClientBits => (k \in A <=> k = WordBits - 1)
  BY <1>4, AddOffset
<1> QED
  BY <1>2, <1>5, <1>6, <1>7, Widths

(* A tag has a zero below position k exactly when the client id has a one  *)
(* there: the least bit of the client id is the place.                     *)
LEMMA ZeroBelow ==
  ASSUME NEW u \in UserDatas, u.client_id # {}, u.uniq_id \in Unsigned(UniqBits - 1),
         NEW k \in 0 .. WordBits - 1
  PROVE  (\E j \in 0 .. k - 1 : j \notin pack_user_data(u))
           <=> (\E j \in 0 .. k - 1 : j \in u.client_id)
<1>1. u.client_id \subseteq 0 .. ClientBits - 1 /\ u.client_id \subseteq Nat
  BY Widths DEF UserDatas, Unsigned
<1>2. PICK l \in u.client_id : \A q \in u.client_id : l <= q
  BY <1>1, LeastExists
<1>3. l \in 0 .. WordBits - 1 /\ l < ClientBits
  BY <1>1, <1>2, Widths
<1>4. ~ \E j \in 0 .. l - 1 : j \in u.client_id
  BY <1>1, <1>2, <1>3
<1>5. l \notin pack_user_data(u)
  BY <1>2, <1>3, <1>4, TagBits
<1>6. ASSUME NEW j \in 0 .. l - 1
      PROVE  j \in pack_user_data(u)
  <2>1. j \in 0 .. WordBits - 1 /\ j < ClientBits /\ j \notin u.client_id
    BY <1>3, <1>4, Widths
  <2>2. ~ \E q \in 0 .. j - 1 : q \in u.client_id
    BY <1>3, <1>4
  <2> QED
    BY <2>1, <2>2, TagBits
<1>7. l < k <=> \E j \in 0 .. k - 1 : j \in u.client_id
  BY <1>1, <1>2, <1>3
<1>8. l < k <=> \E j \in 0 .. k - 1 : j \notin pack_user_data(u)
  <2>1. l < k => l \in 0 .. k - 1
    BY <1>3
  <2>2. ASSUME NEW j \in 0 .. k - 1, j \notin pack_user_data(u)
        PROVE  l < k
    BY <1>3, <1>6, <2>2
  <2> QED
    BY <2>1, <2>2, <1>5
<1> QED
  BY <1>7, <1>8

(* Subtracting the offset gives back the three fields side by side.        *)
LEMMA RawBits ==
  ASSUME NEW u \in UserDatas, u.client_id # {}, u.uniq_id \in Unsigned(UniqBits - 1),
         NEW k \in 0 .. WordBits - 1
  PROVE  k \in Sub(pack_user_data(u), REQ_RESP_OFFSET) <=>
           \/ k \in u.client_id
           \/ k - ClientBits \in u.buffer_id
           \/ k - (ClientBits + BufferBits) \in u.uniq_id
<1> DEFINE w == pack_user_data(u)
           R == k \in Sub(w, REQ_RESP_OFFSET)
           C == \E j \in 0 .. k - 1 : j \in u.client_id
           Z == \E j \in 0 .. k - 1 : j \notin w
<1>1. /\ u.client_id \subseteq 0 .. ClientBits - 1
      /\ u.buffer_id \subseteq 0 .. BufferBits - 1
      /\ u.uniq_id \subseteq 0 .. UniqBits - 2
  BY Widths DEF UserDatas, Unsigned
<1>2. Z <=> C
  BY ZeroBelow
<1>3. PICK l : l \in u.client_id
  OBVIOUS
<1>4. k >= ClientBits => k \notin u.client_id /\ C
  BY <1>1, <1>3, Widths
<1>5. CASE k < ClientBits
  <2>1. k \in w <=> (k \in u.client_id <=> C)
    BY <1>5, TagBits
  <2>2. R <=> (k \in w <=> Z)
    BY <1>5, SubOffset, Widths
  <2>3. R <=> k \in u.client_id
    BY <2>1, <2>2, <1>2
  <2>4. k - ClientBits \notin u.buffer_id /\ k - (ClientBits + BufferBits) \notin u.uniq_id
    BY <1>1, <1>5, Widths
  <2> QED
    BY <2>3, <2>4
<1>6. CASE k >= ClientBits /\ k # WordBits - 1
  <2>1. R <=> (k \in w <=> Z)
    BY <1>6, SubOffset
  <2>2. R <=> k \in w
    BY <2>1, <1>2, <1>4, <1>6
  <2> QED
    BY <2>2, <1>4, <1>6, TagBits
<1>7. CASE k = WordBits - 1
  <2>1. k \in w /\ k >= ClientBits
    BY <1>7, TagBits, Widths
  <2>2. ~R
    BY <2>1, <1>7, <1>2, <1>4, SubOffset
  <2>3. k - ClientBits \notin u.buffer_id /\ k - (ClientBits + BufferBits) \notin u.uniq_id
    BY <1>1, <1>7, Widths
  <2> QED
    BY <2>1, <2>2, <2>3, <1>4
<1> QED
  BY <1>5, <1>6, <1>7, Widths

(* Unpacking inverts packing.                                              *)
LEMMA UnpackInvertsPack ==
  ASSUME NEW u \in UserDatas, u.client_id # {}, u.uniq_id \in Unsigned(UniqBits - 1)
  PROVE  unpack_user_data(pack_user_data(u)) = u
<1> DEFINE raw == Sub(pack_user_data(u), REQ_RESP_OFFSET)
           F(k) == \/ k \in u.client_id
                   \/ k - ClientBits \in u.buffer_id
                   \/ k - (ClientBits + BufferBits) \in u.uniq_id
<1>1. /\ u.client_id \subseteq 0 .. ClientBits - 1
      /\ u.buffer_id \subseteq 0 .. BufferBits - 1
      /\ u.uniq_id \subseteq 0 .. UniqBits - 2
  BY Widths DEF UserDatas, Unsigned
<1>2. \A k \in 0 .. WordBits - 1 : k \in raw <=> F(k)
  BY RawBits
<1>3. raw \subseteq 0 .. WordBits - 1
  BY DEF Sub
<1>4. u = [client_id |-> u.client_id, buffer_id |-> u.buffer_id, uniq_id |-> u.uniq_id]
  BY DEF UserDatas
<1> HIDE DEF raw
<1>5. Low(raw, ClientBits) = u.client_id
  BY <1>1, <1>2, Widths DEF Low
<1>6. Low(Shr(raw, ClientBits), BufferBits) = u.buffer_id
  <2>1. ASSUME NEW k \in 0 .. BufferBits - 1
        PROVE  k \in Shr(raw, ClientBits) <=> k \in u.buffer_id
    <3>1. k \in 0 .. WordBits - 1 /\ k + ClientBits \in 0 .. WordBits - 1
      BY Widths
    <3>2. F(k + ClientBits) <=> k \in u.buffer_id
      BY <1>1, Widths
    <3> QED
      BY <3>1, <3>2, <1>2 DEF Shr
  <2> QED
    BY <1>1, <2>1 DEF Low
<1>7. Low(Shr(raw, ClientBits + BufferBits), UniqBits) = u.uniq_id
  <2>1. ASSUME NEW k \in 0 .. UniqBits - 1
        PROVE  k \in Shr(raw, ClientBits + BufferBits) <=> k \in u.uniq_id
    <3>1. k \in 0 .. WordBits - 1 /\ k + (ClientBits + BufferBits) \in 0 .. WordBits - 1
      BY Widths
    <3>2. F(k + (ClientBits + BufferBits)) <=> k \in u.uniq_id
      BY <1>1, Widths
    <3> QED
      BY <3>1, <3>2, <1>2 DEF Shr
  <2> QED
    BY <1>1, <2>1, Widths DEF Low
<1> QED
  BY <1>4, <1>5, <1>6, <1>7 DEF unpack_user_data, raw

(* A tag is at least the offset, so that it is no plain tag.               *)
LEMMA TopBit ==
  ASSUME NEW w, WordBits - 1 \in w
  PROVE  AtLeast(w, REQ_RESP_OFFSET)
BY Widths DEF AtLeast, Borrow, REQ_RESP_OFFSET

LEMMA UsedFields ==
  ASSUME NEW u \in UserDatas, Used(u)
  PROVE  u.client_id # {} /\ u.uniq_id \in Unsigned(UniqBits - 1)
<1>1. PICK r : r \in ReservedIds
  BY TagAssumption
<1>2. ReservedIds \subseteq 0 .. WordBits - 1
  BY TagAssumption, Widths DEF Unsigned
<1>3. u.client_id # {}
  <2> SUFFICES ASSUME u.client_id = {}
               PROVE  FALSE
    OBVIOUS
  <2>1. Borrow({}, ReservedIds, WordBits)
    BY <1>1, <1>2 DEF Borrow
  <2> QED
    BY <2>1 DEF Used, AtLeast
<1> QED
  BY <1>3, TagAssumption DEF Used

LEMMA UsedTag ==
  ASSUME NEW u \in UserDatas, Used(u)
  PROVE  /\ pack_user_data(u) \notin Plain
         /\ dispatch(pack_user_data(u)) = [to |-> "response", user |-> u]
         /\ unpack_user_data(pack_user_data(u)) = u
<1> DEFINE w == pack_user_data(u)
<1>1. WordBits - 1 \in w
  BY TagBits, UsedFields, Widths
<1>2. AtLeast(w, REQ_RESP_OFFSET)
  BY <1>1, TopBit
<1>3. w \notin Plain
  BY <1>2, TagAssumption
<1>4. unpack_user_data(w) = u
  BY UnpackInvertsPack, UsedFields
<1> HIDE DEF w
<1>5. dispatch(w) = [to |-> "response", user |-> u]
  BY <1>2, <1>3, <1>4 DEF dispatch, Plain
<1> QED
  BY <1>3, <1>4, <1>5 DEF w

-----------------------------------------------------------------------------
(* The life of a tag                                                       *)

TagInv ==
  /\ data \in UserDatas
  /\ step = "complete" => tag = pack_user_data(data)
  /\ step = "done" /\ Used(data) => seen = dispatch(pack_user_data(data))

LEMMA TagInvHolds == Spec => []TagInv
<1>1. Init => TagInv
  BY DEF Init, TagInv
<1>2. TagInv /\ [Next]_vars => TagInv'
  <2> SUFFICES ASSUME TagInv, [Next]_vars
               PROVE  TagInv'
    OBVIOUS
  <2>1. CASE Pack
    BY <2>1 DEF Pack, TagInv
  <2>2. CASE process_entry
    BY <2>2 DEF process_entry, TagInv
  <2>3. CASE UNCHANGED vars
    BY <2>3 DEF vars, TagInv
  <2> QED
    BY <2>1, <2>2, <2>3 DEF Next
<1> QED
  BY <1>1, <1>2, PTL DEF Spec

(* TagSurvives, for fields of any width: pack_user_data, the match of      *)
(* process_entry and unpack_user_data together lose nothing of the         *)
(* operations that the server submits.                                     *)
THEOREM TagsSurvive == Spec => []TagSurvives
<1>1. TagInv => TagSurvives
  BY UsedTag DEF TagInv, TagSurvives
<1> QED
  BY <1>1, TagInvHolds, PTL
=============================================================================

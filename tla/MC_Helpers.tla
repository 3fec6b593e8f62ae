----------------------------- MODULE MC_Helpers -----------------------------
(* The tags of UserData and the byte helpers of ByteOps: a behaviour is    *)
(* the life of one tag or one call of one helper.                          *)
EXTENDS UserData, ByteOps, FiniteSetsExt

(* The bit by bit arithmetic of the tags is that of integers modulo 2^64.  *)
Value(x) == SumSet({2 ^ k : k \in x})
ASSUME BitsAreNumbers ==
  \A x \in Unsigned(WordBits), y \in Unsigned(WordBits) :
    /\ Value(Add(x, y)) = (Value(x) + Value(y)) % 2 ^ WordBits
    /\ Value(Sub(x, y)) = (Value(x) - Value(y)) % 2 ^ WordBits
    /\ AtLeast(x, y) <=> Value(x) >= Value(y)

NoTag == data = {} /\ tag = {} /\ seen = Nothing /\ step = "none"
NoCall ==
  /\ op = "none" /\ pc = "none" /\ orig = 0 /\ n = 0 /\ len = 0 /\ mem = 0 /\ m = 0
  /\ i = 0 /\ res = 0 /\ rd = 0 /\ wr = 0

MCInit == (Init /\ NoCall) \/ (NoTag /\ ByteInit)
MCNext ==
  \/ Next /\ UNCHANGED byteVars
  \/ ByteNext /\ UNCHANGED vars
  \/ step = "none" /\ res # -1 /\ UNCHANGED <<vars, byteVars>>
MCSpec == MCInit /\ [][MCNext]_<<vars, byteVars>> /\ WF_<<vars, byteVars>>(MCNext)
=============================================================================

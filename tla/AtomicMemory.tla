---------------------------- MODULE AtomicMemory ----------------------------
(***************************************************************************)
(* What doc/uatomic-api.md promises of the uatomic operations: each takes  *)
(* effect at one instant between its call and its return, on the bytes of  *)
(* its operand and on no others, modulo the size of the operand.           *)
(*                                                                         *)
(* The memory is one long of 2^LongBits values; an operand is a field of   *)
(* size bits from bit at.  Arguments are longs: the conversion to unsigned *)
(* long keeps the sign, so -1 is 2^LongBits - 1 whatever the operand.      *)
(***************************************************************************)
EXTENDS Integers

CONSTANTS
    Threads,    \* the callers
    LongBits,   \* the bits of a long
    NoCall      \* not in a call

VARIABLES
    mem,        \* the memory
    call,       \* the call each thread is in
    ret         \* its result, once it has taken effect

memvars == <<mem, call, ret>>

(* The field that a call is about, and the memory with another value in it.*)
Field(m, c) == (m \div 2^c.at) % 2^c.size
WithField(m, c, v) == m + ((v % 2^c.size) - Field(m, c)) * 2^c.at

Bit(v, i) == (v \div 2^i) % 2
FromBits(b) == b[0] + 2 * b[1] + 4 * b[2] + 8 * b[3]
BitAnd(v, w) == FromBits([i \in 0..3 |-> Bit(v, i) * Bit(w, i)])
BitOr(v, w) == FromBits([i \in 0..3 |-> IF Bit(v, i) + Bit(w, i) > 0 THEN 1 ELSE 0])

(* The value of the field after the call, from the one before it.          *)
Updated(c, x) ==
    CASE c.op = "read" -> x
      [] c.op \in {"set", "xchg"} -> c.v % 2^c.size
      [] c.op = "cmpxchg" -> IF x = c.old % 2^c.size THEN c.v % 2^c.size ELSE x
      [] c.op = "and" -> BitAnd(x, c.v)
      [] c.op = "or" -> BitOr(x, c.v) % 2^c.size
      [] c.op = "add_return" -> (x + c.v) % 2^c.size
      [] c.op = "sub_return" -> (x - c.v) % 2^c.size
      [] c.op = "dec" -> (x - 1) % 2^c.size

(* What the call returns.                                                  *)
Returned(c, x) ==
    CASE c.op \in {"read", "xchg", "cmpxchg"} -> x
      [] c.op \in {"add_return", "sub_return"} -> Updated(c, x)
      [] c.op \in {"set", "and", "or", "dec"} -> 0

Init ==
    /\ mem \in 0..(2^LongBits - 1)
    /\ call = [t \in Threads |-> NoCall]
    /\ ret = [t \in Threads |-> NoCall]

Call(t) ==
    /\ call[t] = NoCall
    /\ call'[t] # NoCall
    /\ \A u \in Threads \ {t} : call'[u] = call[u]
    /\ UNCHANGED <<mem, ret>>

TakeEffect(t) ==
    /\ call[t] # NoCall /\ ret[t] = NoCall
    /\ mem' = WithField(mem, call[t], Updated(call[t], Field(mem, call[t])))
    /\ ret' = [ret EXCEPT ![t] = Returned(call[t], Field(mem, call[t]))]
    /\ UNCHANGED call

Return(t) ==
    /\ ret[t] # NoCall
    /\ call' = [call EXCEPT ![t] = NoCall]
    /\ ret' = [ret EXCEPT ![t] = NoCall]
    /\ UNCHANGED mem

Next == \E t \in Threads : Call(t) \/ TakeEffect(t) \/ Return(t)

Spec == Init /\ [][Next]_memvars

=============================================================================

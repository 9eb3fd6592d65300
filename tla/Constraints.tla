----------------------------- MODULE Constraints -----------------------------
(***************************************************************************)
(* The raw encoding of a clock bound (include/dbm/constraints.h).  A bound *)
(* "< b" or "<= b" on a difference of clocks is one int32_t: twice b, plus *)
(* 1 when the bound is weak.  A smaller raw is a tighter bound, and adding *)
(* two raws adds the bounds and keeps strictness.                          *)
(***************************************************************************)
EXTENDS Integers

dbm_INFINITY == 1073741823       \* INT_MAX >> 1
dbm_LS_INFINITY == 2147483646    \* dbm_INFINITY << 1, "< infinity"
dbm_LE_OVERFLOW == 1073741823    \* dbm_LS_INFINITY >> 1
dbm_OVERFLOW == 536870911         \* INT_MAX >> 2
dbm_LE_ZERO == 1
dbm_STRICT == 0
dbm_WEAK == 1

dbm_bound2raw(bound, strict) == 2 * bound + strict
dbm_raw2bound(raw) == raw \div 2
dbm_rawIsStrict(raw) == raw % 2 = 0
dbm_rawIsWeak(raw) == raw % 2 = 1
dbm_weakRaw(raw) == IF dbm_rawIsStrict(raw) THEN raw + 1 ELSE raw
dbm_strictRaw(raw) == IF dbm_rawIsWeak(raw) THEN raw - 1 ELSE raw

\* not (x - y <= b)  is  y - x < -b, and 1 - raw is exactly that in the encoding.
dbm_negRaw(c) == 1 - c

\* Mutants, used to show that the properties can fail: the bound is admitted at
\* the limit itself, the excess bit goes only when both bounds are weak, or always.
isValidRawAtLimit(x) ==
  x = dbm_LS_INFINITY \/ (x <= dbm_LE_OVERFLOW /\ -x <= dbm_LE_OVERFLOW)
addAndBit(x, y) ==
  (x + y) - (IF dbm_rawIsWeak(x) /\ dbm_rawIsWeak(y) THEN 1 ELSE 0)
addMinusOne(x, y) == (x + y) - 1

\* The bounds that may be operands of an addition: their sum fits in int32_t.
dbm_isValidRaw(x) ==
  x = dbm_LS_INFINITY \/ (x < dbm_LE_OVERFLOW /\ -x < dbm_LE_OVERFLOW)

Raw == {x \in Int : dbm_isValidRaw(x)}

\* (x + y) - ((x | y) & 1)
dbm_addFiniteFinite(x, y) ==
  (x + y) - (IF dbm_rawIsWeak(x) \/ dbm_rawIsWeak(y) THEN 1 ELSE 0)

\* dbm_addRawRaw, and dbm_addRawFinite/dbm_addFiniteRaw when an operand is finite.
dbm_addRawRaw(x, y) ==
  IF x = dbm_LS_INFINITY \/ y = dbm_LS_INFINITY
  THEN dbm_LS_INFINITY
  ELSE dbm_addFiniteFinite(x, y)

dbm_rawInc(c, i) == IF c < dbm_LS_INFINITY THEN c + i ELSE c
dbm_rawDec(c, d) == IF c < dbm_LS_INFINITY THEN c - d ELSE c

-----------------------------------------------------------------------------

\* What a raw means: the difference d / g of two clocks satisfies it.
Within(d, raw, g) ==
  \/ raw >= dbm_LS_INFINITY
  \/ dbm_rawIsWeak(raw) /\ d <= dbm_raw2bound(raw) * g
  \/ d < dbm_raw2bound(raw) * g

=============================================================================

------------------------------ MODULE BigFloat ------------------------------
(***************************************************************************)
(* The arbitrary precision binary numbers of libbf.c: limb arithmetic,     *)
(* normalisation, rounding with its status flags, addition, product,       *)
(* quotient, remainder, square root, logical operations and the            *)
(* conversions to fixed size types, against exact integer arithmetic.      *)
(*                                                                         *)
(* A number is a sign, an exponent and a table of limbs, least significant *)
(* first; its value is 0.tab * 2^expn and the top bit of a finite non zero *)
(* number is set.  The width of a limb, the range of the exponents and the *)
(* sizes of the fixed types are parameters; the program has 64 bit limbs.  *)
(***************************************************************************)
EXTENDS Integers, Sequences, FiniteSets, Bitwise

CONSTANTS
  LIMB_BITS,      \* bits of a limb
  EXP_BITS_MAX,   \* BF_EXP_BITS_MAX
  F64Bits,        \* mantissa bits of the "double" of the model
  F64ExpBits      \* its exponent bits

ASSUME BigFloatAssumption ==
  LIMB_BITS \in Nat \ {0} /\ EXP_BITS_MAX \in Nat \ {0} /\ F64Bits \in Nat /\ F64ExpBits \in Nat

LB == 2^LIMB_BITS
PREC_INF == 2^EXP_BITS_MAX - 1
EXP_MAX == 4 * 2^EXP_BITS_MAX - 1
EXP_ZERO == -EXP_MAX - 1
EXP_INF == EXP_MAX - 1
EXP_NAN == EXP_MAX

RNDN == "N"
RNDZ == "Z"
RNDD == "D"
RNDU == "U"
RNDNA == "NA"
RNDNU == "NU"
RNDF == "F"

\* flags: rounding mode, subnormal flag, bits of the exponent
Flags(rnd) == [rnd |-> rnd, sub |-> FALSE, bits |-> EXP_BITS_MAX]

Min2(x, y) == IF x < y THEN x ELSE y
Max2(x, y) == IF x > y THEN x ELSE y
CeilDiv(x, y) == (x + y - 1) \div y
Xor1(x, y) == (x + y) % 2

Bf(sign, expn, tab) == [sign |-> sign, expn |-> expn, tab |-> tab]
bf_set_zero(neg) == Bf(neg, EXP_ZERO, <<>>)
bf_set_inf(neg) == Bf(neg, EXP_INF, <<>>)
bf_set_nan == Bf(0, EXP_NAN, <<>>)
IsNum(a) == a.tab # <<>>

\* a result and its status flags
Res(r, st) == [r |-> r, st |-> st]

(***************************************************************************)
(* Limbs and bits.                                                         *)
(***************************************************************************)

RECURSIVE BitLen(_)
BitLen(n) == IF n = 0 THEN 0 ELSE 1 + BitLen(n \div 2)

clz(v) == LIMB_BITS - BitLen(v)

Zeros(n) == [i \in 1..n |-> 0]

get_limbz(t, i) == IF i >= 0 /\ i < Len(t) THEN t[i + 1] ELSE 0

get_bits(t, pos) ==
  LET i == pos \div LIMB_BITS
      p == pos % LIMB_BITS
  IN IF p = 0 THEN get_limbz(t, i)
     ELSE (get_limbz(t, i) \div 2^p) + ((get_limbz(t, i + 1) * 2^(LIMB_BITS - p)) % LB)

get_bit(t, pos) == (get_limbz(t, pos \div LIMB_BITS) \div 2^(pos % LIMB_BITS)) % 2

scan_bit_nz(t, bitPos) ==
  LET pos == bitPos \div LIMB_BITS
  IN /\ pos >= 0
     /\ \/ t[pos + 1] % 2^((bitPos % LIMB_BITS) + 1) # 0
        \/ \E i \in 1..pos : t[i] # 0

\* keep the bits of a limb from bit `start' up
MaskFrom(v, start) == (v \div 2^start) * 2^start

\* the limbs of the integer n
RECURSIVE Limbs(_)
Limbs(n) == IF n = 0 THEN <<>> ELSE <<n % LB>> \o Limbs(n \div LB)

RECURSIVE Value(_)
Value(t) == IF t = <<>> THEN 0 ELSE t[1] + LB * Value(Tail(t))

RECURSIVE ShiftLeft(_, _, _)
ShiftLeft(t, shift, v) ==
  IF t = <<>> THEN <<>>
  ELSE <<((t[1] * 2^shift) % LB) + (v \div 2^(LIMB_BITS - shift))>>
       \o ShiftLeft(Tail(t), shift, t[1])

(***************************************************************************)
(* Rounding.                                                               *)
(***************************************************************************)

\* the addend for rounding r at prec bits and whether the result is inexact
bf_get_rnd_add(r, prec, rnd) ==
  LET top == Len(r.tab) * LIMB_BITS - 1
      bit0 == rnd = RNDF \/ scan_bit_nz(r.tab, top - Max2(0, prec + 1))
      bit1 == get_bit(r.tab, top - prec) = 1
      inexact == bit0 \/ bit1
      add == \/ rnd = RNDN /\ bit1 /\ (bit0 \/ get_bit(r.tab, top - (prec - 1)) = 1)
             \/ rnd \in {RNDD, RNDU} /\ inexact /\ ((r.sign = 1) <=> (rnd = RNDD))
             \/ rnd \in {RNDNA, RNDF} /\ bit1
             \/ rnd = RNDNU /\ bit1 /\ (r.sign = 1 => bit0)
  IN [add |-> add, inexact |-> inexact]

bf_set_overflow(sign, prec, f) ==
  LET e_max == 2^(f.bits - 1)
      l == CeilDiv(prec, LIMB_BITS)
      toInf == \/ prec = PREC_INF
               \/ f.rnd \in {RNDN, RNDNA, RNDNU}
               \/ f.rnd = RNDD /\ sign = 1
               \/ f.rnd = RNDU /\ sign = 0
      largest == [i \in 1..l |-> IF i = 1 THEN MaskFrom(LB - 1, (-prec) % LIMB_BITS) ELSE LB - 1]
  IN Res(IF toInf THEN bf_set_inf(sign) ELSE Bf(sign, e_max, largest), {"overflow", "inexact"})

\* add 2^bit at limb i and above; the carry out of the last limb is dropped
RECURSIVE AddAt(_, _, _)
AddAt(t, i, carry) ==
  IF i >= Len(t) \/ carry = 0 THEN [tab |-> t, carry |-> carry]
  ELSE LET v == (t[i + 1] + carry) % LB
       IN AddAt([t EXCEPT ![i + 1] = v], i + 1, IF v < carry THEN 1 ELSE 0)

\* the carry comes back in as the top bit of limbs pos and above
ShiftRight1(t, pos) ==
  [i \in 1..Len(t) |->
     IF i - 1 < pos THEN t[i]
     ELSE (t[i] \div 2) + (LB \div 2) * (IF i = Len(t) THEN 1 ELSE t[i + 1] % 2)]

RECURSIVE DropZeros(_)
DropZeros(t) == IF t = <<>> \/ t[1] # 0 THEN t ELSE DropZeros(Tail(t))

\* round the non zero finite r to prec1 bits
__bf_round(r, prec1, f) ==
  LET l == Len(r.tab)
      e_range == 2^(f.bits - 1)
      e_min == -e_range + 3
      prec == IF r.expn < e_min /\ f.sub THEN prec1 - (e_min - r.expn) ELSE prec1
      rnd == bf_get_rnd_add(r, prec, f.rnd)
      bitPos == l * LIMB_BITS - 1 - (prec - 1)
      pos == bitPos \div LIMB_BITS
      sum == AddAt(r.tab, pos, 2^(bitPos % LIMB_BITS))
      added == IF ~rnd.add THEN [tab |-> r.tab, expn |-> r.expn]
               ELSE IF sum.carry = 1 THEN [tab |-> ShiftRight1(sum.tab, pos), expn |-> r.expn + 1]
               ELSE [tab |-> sum.tab, expn |-> r.expn]
      under == added.expn < e_min
      st == (IF rnd.inexact THEN {"inexact"} ELSE {})
            \cup (IF under /\ f.sub /\ rnd.inexact THEN {"underflow"} ELSE {})
      kept == IF pos < 0 THEN added.tab
              ELSE SubSeq([added.tab EXCEPT ![pos + 1] = MaskFrom(@, bitPos % LIMB_BITS)],
                          pos + 1, l)
  IN IF prec <= 0
       THEN IF rnd.add THEN Res(Bf(r.sign, r.expn + 1 - prec, <<LB \div 2>>), {"underflow", "inexact"})
            ELSE Res(bf_set_zero(r.sign), {"underflow", "inexact"})
     ELSE IF under /\ ~f.sub THEN Res(bf_set_zero(r.sign), {"underflow", "inexact"})
     ELSE IF added.expn > e_range THEN bf_set_overflow(r.sign, prec1, f)
     ELSE Res(Bf(r.sign, added.expn, DropZeros(kept)), st)

\* the limbs of r without the zero ones at the top
RECURSIVE TrimTop(_)
TrimTop(t) == IF t = <<>> \/ t[Len(t)] # 0 THEN t ELSE TrimTop(SubSeq(t, 1, Len(t) - 1))

bf_normalize_and_round(r, prec, f) ==
  LET t == TrimTop(r.tab)
      shift == clz(t[Len(t)])
      expn == r.expn - (Len(r.tab) - Len(t)) * LIMB_BITS - shift
      tab == IF shift = 0 THEN t ELSE ShiftLeft(t, shift, 0)
  IN IF t = <<>> THEN Res(bf_set_zero(r.sign), {})
     ELSE __bf_round(Bf(r.sign, expn, tab), prec, f)

bf_round(r, prec, f) == IF ~IsNum(r) THEN Res(r, {}) ELSE __bf_round(r, prec, f)

\* can a number known to 2^(expn - k) be rounded at prec bits
bf_can_round(a, prec, rnd, k) ==
  LET pos == Len(a.tab) * LIMB_BITS - 1 - prec
      isN == rnd \in {RNDN, RNDNA, RNDNU}
      bit == Xor1(get_bit(a.tab, pos), IF isN THEN 1 ELSE 0)
  IN /\ a.expn \notin {EXP_INF, EXP_NAN}
     /\ IF rnd = RNDF THEN k >= prec + 1
        ELSE /\ a.expn # EXP_ZERO
             /\ k >= prec + 2
             /\ \E j \in 1..(k - prec - 1) : get_bit(a.tab, pos - j) # bit

\* convert to an integer with a single rounding
bf_rint(r, prec, f) ==
  IF ~IsNum(r) THEN Res(r, {})
  ELSE IF r.expn <= 0
         THEN LET q == __bf_round(r, r.expn, [f EXCEPT !.sub = FALSE])
              IN Res(q.r, q.st \ {"underflow"})
         ELSE __bf_round(r, Min2(r.expn, prec), f)

\* multiply by 2^e
bf_mul_2exp(r, e, prec, f) ==
  LET e_max == 2^EXP_BITS_MAX - 1
  IN IF ~IsNum(r) THEN Res(r, {})
     ELSE __bf_round([r EXCEPT !.expn = @ + Min2(Max2(e, -e_max), e_max)], prec, f)

\* an integer of one limb
bf_set_ui(a) ==
  IF a = 0 THEN bf_set_zero(0) ELSE Bf(0, LIMB_BITS - clz(a), <<a * 2^clz(a)>>)

bf_set_si(a) == IF a < 0 THEN [bf_set_ui(-a) EXCEPT !.sign = 1] ELSE bf_set_ui(a)

(***************************************************************************)
(* Comparison.                                                             *)
(***************************************************************************)

bf_cmpu(a, b) ==
  LET len == Max2(Len(a.tab), Len(b.tab))
      v1(i) == get_limbz(a.tab, Len(a.tab) - len + i)
      v2(i) == get_limbz(b.tab, Len(b.tab) - len + i)
      diff == {i \in 0..(len - 1) : v1(i) # v2(i)}
      top == CHOOSE i \in diff : \A j \in diff : j <= i
  IN IF a.expn # b.expn THEN (IF a.expn < b.expn THEN -1 ELSE 1)
     ELSE IF diff = {} THEN 0
     ELSE IF v1(top) < v2(top) THEN -1 ELSE 1

bf_cmp_full(a, b) ==
  IF a.expn = EXP_NAN \/ b.expn = EXP_NAN
    THEN (IF a.expn = b.expn THEN 0 ELSE IF a.expn = EXP_NAN THEN 1 ELSE -1)
  ELSE IF a.sign # b.sign THEN 1 - 2 * a.sign
  ELSE IF a.sign = 1 THEN -bf_cmpu(a, b) ELSE bf_cmpu(a, b)

\* bf_cmp_eq, bf_cmp_lt and bf_cmp_le are op = {"eq"}, {"lt"} and both
bf_cmp(a, b, op) ==
  LET res == bf_cmpu(a, b)
  IN /\ a.expn # EXP_NAN /\ b.expn # EXP_NAN
     /\ IF a.sign # b.sign
          THEN IF a.expn = EXP_ZERO /\ b.expn = EXP_ZERO THEN "eq" \in op
               ELSE "lt" \in op /\ a.sign = 1
          ELSE IF res = 0 THEN "eq" \in op
               ELSE "lt" \in op /\ (IF a.sign = 1 THEN res > 0 ELSE res < 0)

(***************************************************************************)
(* Addition and subtraction.                                               *)
(***************************************************************************)

\* the leading bits lost by a - b, where a > b and their exponents differ by
\* at most one
count_cancelled_bits(a, b) ==
  LET top == Len(a.tab) * LIMB_BITS - 1
      off == (Len(b.tab) - Len(a.tab)) * LIMB_BITS - (LIMB_BITS - 1) + a.expn - b.expn
      v1(k) == get_limbz(a.tab, (top - k * LIMB_BITS) \div LIMB_BITS)
      v2(k) == get_bits(b.tab, top - k * LIMB_BITS + off)
      kMax == Len(a.tab) + Len(b.tab) + 2
      k1 == CHOOSE k \in 0..kMax : v1(k) # v2(k) /\ \A j \in 0..(k - 1) : v1(j) = v2(j)
      p == clz(v1(k1) ^^ v2(k1)) + 1
      rest == LIMB_BITS - p
      p1 == Min2(clz(v1(k1) % 2^rest), clz((LB - 1 - v2(k1)) % 2^rest)) - p
      k2 == CHOOSE k \in (k1 + 1)..kMax :
              /\ v1(k) # 0 \/ v2(k) # LB - 1
              /\ \A j \in (k1 + 1)..(k - 1) : v1(j) = 0 /\ v2(j) = LB - 1
  IN IF rest > 0 /\ p1 # rest THEN k1 * LIMB_BITS + p + p1
     ELSE k2 * LIMB_BITS + Min2(clz(v1(k2)), clz(LB - 1 - v2(k2)))

\* one limb of the sum of v1 and v2 (complemented by a subtraction)
AddLimb(v1, v2, isSub, carry) ==
  LET w == IF isSub THEN LB - 1 - v2 ELSE v2
      s == v1 + w + carry
  IN [u |-> s % LB, carry |-> s \div LB]

HasA(a, i, aOff) == aOff + i >= 0 /\ aOff + i < Len(a.tab)
HasB(b, i, bOff) == bOff + i * LIMB_BITS + LIMB_BITS > 0 /\ bOff + i * LIMB_BITS < Len(b.tab) * LIMB_BITS

\* a plausible slip: where neither number has a limb, the result comes next
JumpsToResult(a, b, i, aOff, bOff) == IF HasA(a, i, aOff) \/ HasB(b, i, bOff) THEN i + 1 ELSE 0

\* the limb below the result that is looked at after limb i: where neither
\* number has a limb it jumps to the next limb of one of them
NextBelow(a, b, i, aOff, bOff) ==
  IF HasA(a, i, aOff) \/ HasB(b, i, bOff) THEN i + 1
  ELSE Min2(IF aOff + i < 0 THEN Min2(0, -aOff) ELSE 0,
            IF bOff + i * LIMB_BITS + LIMB_BITS <= 0 THEN (-bOff) \div LIMB_BITS ELSE 0)

\* the limbs below the result, from limb i < 0 up: their carry and whether one
\* of them is non zero
RECURSIVE BelowResult(_, _, _, _, _, _, _)
BelowResult(a, b, i, aOff, bOff, isSub, acc) ==
  LET v2 == IF HasB(b, i, bOff) THEN get_bits(b.tab, bOff + i * LIMB_BITS) ELSE 0
      s == AddLimb(get_limbz(a.tab, aOff + i), v2, isSub, acc.carry)
  IN IF i >= 0 THEN acc
     ELSE BelowResult(a, b, NextBelow(a, b, i, aOff, bOff), aOff, bOff, isSub,
                      [carry |-> s.carry, z |-> acc.z \/ s.u # 0])

RECURSIVE ResultLimbs(_, _, _, _, _, _, _, _)
ResultLimbs(a, b, i, rLen, aOff, bOff, isSub, carry) ==
  IF i = rLen THEN [tab |-> <<>>, carry |-> carry]
  ELSE LET s == AddLimb(get_limbz(a.tab, aOff + i), get_bits(b.tab, bOff + i * LIMB_BITS),
                        isSub, carry)
           up == ResultLimbs(a, b, i + 1, rLen, aOff, bOff, isSub, s.carry)
       IN [tab |-> <<s.u>> \o up.tab, carry |-> up.carry]

\* set the low bit of a limb
Or1(v) == IF v % 2 = 0 THEN v + 1 ELSE v

\* |a| >= |b|, both non zero finite numbers
AddNumbers(a, b, sign, isSub, prec, f) ==
  LET d == a.expn - b.expn
      cancelled == IF ~isSub THEN 0 ELSE IF d <= 1 THEN count_cancelled_bits(a, b) ELSE 1
      precl == CeilDiv(cancelled + prec + 2, LIMB_BITS)
      totLen == Max2(Len(a.tab), Len(b.tab) + CeilDiv(d, LIMB_BITS))
      rLen == Min2(precl, totLen)
      aOff == Len(a.tab) - rLen
      bOff == (Len(b.tab) - rLen) * LIMB_BITS + d
      below == BelowResult(a, b, rLen - totLen, aOff, bOff, isSub,
                           [carry |-> IF isSub THEN 1 ELSE 0, z |-> FALSE])
      res == ResultLimbs(a, b, 0, rLen, aOff, bOff, isSub, below.carry)
      tab == IF below.z THEN [res.tab EXCEPT ![1] = Or1(@)] ELSE res.tab
      r == IF ~isSub /\ res.carry = 1
             THEN Bf(sign, a.expn + LIMB_BITS, Append(tab, 1))
             ELSE Bf(sign, a.expn, tab)
  IN bf_normalize_and_round(r, prec, f)

bf_add_internal(a0, b0, prec, f, bNeg) ==
  LET bSign == Xor1(b0.sign, bNeg)
      isSub == a0.sign # bSign
      c == bf_cmpu(a0, b0)
      a == IF c < 0 THEN b0 ELSE a0
      b == IF c < 0 THEN a0 ELSE b0
      sign == IF c < 0 THEN bSign ELSE a0.sign
  IN IF c = 0 /\ isSub /\ a.expn < EXP_INF
       THEN Res(bf_set_zero(IF f.rnd = RNDD THEN 1 ELSE 0), {})
     ELSE IF IsNum(a) /\ IsNum(b) THEN AddNumbers(a, b, sign, isSub, prec, f)
     ELSE IF a.expn = EXP_NAN THEN Res(bf_set_nan, {})
     ELSE IF a.expn = EXP_INF
            THEN IF b.expn = EXP_INF /\ isSub THEN Res(bf_set_nan, {"invalid"})
                 ELSE Res(bf_set_inf(sign), {})
     ELSE bf_normalize_and_round([a EXCEPT !.sign = sign], prec, f)

bf_add(a, b, prec, f) == bf_add_internal(a, b, prec, f, 0)
bf_sub(a, b, prec, f) == bf_add_internal(a, b, prec, f, 1)
bf_add_si(a, n, prec, f) == bf_add(a, bf_set_si(n), prec, f)

(***************************************************************************)
(* Product.                                                                *)
(***************************************************************************)

\* tabr[i..] += taba * b; the high word goes to the limb above
RECURSIVE mp_add_mul1(_, _, _, _, _)
mp_add_mul1(tabr, off, taba, b, l) ==
  IF taba = <<>> THEN [tabr EXCEPT ![off + 1] = l]
  ELSE LET t == taba[1] * b + l + tabr[off + 1]
       IN mp_add_mul1([tabr EXCEPT ![off + 1] = t % LB], off + 1, Tail(taba), b, t \div LB)

RECURSIVE MulLimbs(_, _, _, _)
MulLimbs(tabr, taba, tabb, i) ==
  IF i = Len(tabb) THEN tabr
  ELSE MulLimbs(mp_add_mul1(tabr, i, taba, tabb[i + 1], 0), taba, tabb, i + 1)

\* the limbs of an operand a product reads: a faithful product reads only as
\* many as the precision asks for
MulReads(t, prec, f) ==
  LET len == IF f.rnd = RNDF THEN Min2(Len(t), CeilDiv(prec + 2, LIMB_BITS)) ELSE Len(t)
  IN SubSeq(t, Len(t) - len + 1, Len(t))

bf_mul(a0, b0, prec, f) ==
  LET a == IF Len(a0.tab) < Len(b0.tab) THEN b0 ELSE a0
      b == IF Len(a0.tab) < Len(b0.tab) THEN a0 ELSE b0
      sign == Xor1(a.sign, b.sign)
      ta == MulReads(a.tab, prec, f)
      tb == MulReads(b.tab, prec, f)
  IN IF ~IsNum(b)
       THEN IF a.expn = EXP_NAN \/ b.expn = EXP_NAN THEN Res(bf_set_nan, {})
            ELSE IF {a.expn, b.expn} = {EXP_INF, EXP_ZERO} THEN Res(bf_set_nan, {"invalid"})
            ELSE IF a.expn = EXP_INF \/ b.expn = EXP_INF THEN Res(bf_set_inf(sign), {})
            ELSE Res(bf_set_zero(sign), {})
       ELSE bf_normalize_and_round(
              Bf(sign, a.expn + b.expn, MulLimbs(Zeros(Len(ta) + Len(tb)), ta, tb, 0)), prec, f)

(***************************************************************************)
(* Quotient and remainder.                                                 *)
(***************************************************************************)

udiv1norm_init(d) == ((LB - d - 1) * LB + LB - 1) \div d

\* quotient and remainder of (a1 * LB + a0) by d, with the inverse of d
udiv1norm(a1, a0, d, dInv) ==
  LET high == a0 >= LB \div 2
      nAdj == (a0 + (IF high THEN d ELSE 0)) % LB
      x == (dInv * ((a1 + (IF high THEN 1 ELSE 0)) % LB) + nAdj) % (LB * LB)
      q == ((x \div LB) + a1) % LB
      y == (a1 * LB + a0 - q * d - d) % (LB * LB)
      ah == y \div LB
  IN [q |-> (q + 1 + ah) % LB, r |-> (y + (IF ah = 0 THEN 0 ELSE ah & d)) % LB]

\* divide the limbs by the single limb b, from the top, remainder r
RECURSIVE mp_div1norm(_, _, _)
mp_div1norm(t, b, useInv) ==
  IF t = <<>> THEN [q |-> <<>>, r |-> 0]
  ELSE LET up == mp_div1norm(Tail(t), b, useInv)
           x == up.r * LB + t[1]
           inv == udiv1norm(up.r, t[1], b, udiv1norm_init(b))
       IN IF useInv THEN [q |-> <<inv.q>> \o up.q, r |-> inv.r]
          ELSE [q |-> <<x \div b>> \o up.q, r |-> x % b]

\* tabr[off..] -= taba * b; the value to subtract from the limb above
RECURSIVE mp_sub_mul1(_, _, _, _, _)
mp_sub_mul1(tabr, off, taba, b, l) ==
  IF taba = <<>> THEN [tab |-> tabr, l |-> l]
  ELSE LET t == (tabr[off + 1] - taba[1] * b - l) % (LB * LB)
       IN mp_sub_mul1([tabr EXCEPT ![off + 1] = t % LB], off + 1, Tail(taba), b,
                      (-(t \div LB)) % LB)

RECURSIVE mp_add(_, _, _, _)
mp_add(tabr, off, tabb, k) ==
  IF tabb = <<>> THEN [tab |-> tabr, k |-> k]
  ELSE LET t == tabr[off + 1] + tabb[1] + k
       IN mp_add([tabr EXCEPT ![off + 1] = t % LB], off + 1, Tail(tabb), t \div LB)

\* add the divisor back until the partial remainder is not negative any more
RECURSIVE AddBack(_, _, _, _)
AddBack(taba, i, tabb, q) ==
  LET s == mp_add(taba, i, tabb, 0)
      top == i + Len(tabb) + 1
      up == [s.tab EXCEPT ![top] = (@ + s.k) % LB]
  IN IF s.k # 0 /\ up[top] = 0 THEN [tab |-> up, q |-> (q - 1) % LB]
     ELSE AddBack(up, i, tabb, (q - 1) % LB)

\* the quotient digits from i down to 0
RECURSIVE DivDigits(_, _, _, _, _)
DivDigits(taba, tabb, i, useInv, digits) ==
  LET nb == Len(tabb)
      b1 == tabb[nb]
      hi == taba[i + nb + 1]
      lo == taba[i + nb]
      q0 == IF hi >= b1 THEN LB - 1
            ELSE IF useInv THEN udiv1norm(hi, lo, b1, udiv1norm_init(b1)).q
            ELSE (hi * LB + lo) \div b1
      sub == mp_sub_mul1(taba, i, tabb, q0, 0)
      borrowed == sub.l > hi
      left == [sub.tab EXCEPT ![i + nb + 1] = (hi - sub.l) % LB]
      done == IF borrowed THEN AddBack(left, i, tabb, q0) ELSE [tab |-> left, q |-> q0]
  IN IF i < 0 THEN [q |-> digits, r |-> SubSeq(taba, 1, nb)]
     ELSE DivDigits(done.tab, tabb, i - 1, useInv, <<done.q>> \o digits)

mp_divnorm(taba, tabb) ==
  LET na == Len(taba)
      nb == Len(tabb)
      one == mp_div1norm(taba, tabb[1], na >= 3)
  IN IF nb = 1 THEN [q |-> one.q, r |-> <<one.r>>]
     ELSE DivDigits(Append(taba, 0), tabb, na - nb, na - nb >= 3, <<>>)

\* the quotient of numbers no side of which is long (base case)
DivNumbers(a, b, prec, f) ==
  LET n == Max2(Len(a.tab), CeilDiv(prec + 2, LIMB_BITS))
      d == mp_divnorm(Zeros(n + Len(b.tab) - Len(a.tab)) \o a.tab, b.tab)
      tab == IF \E i \in 1..Len(d.r) : d.r[i] # 0 THEN [d.q EXCEPT ![1] = Or1(@)] ELSE d.q
  IN bf_normalize_and_round(
       Bf(Xor1(a.sign, b.sign), a.expn - b.expn + LIMB_BITS, tab), prec, f)

\* the faithful quotient of long numbers: a times inv, the reciprocal of b that
\* bf_recip gives at prec + 3 bits
DivFaithful(a, inv, prec, f) == bf_mul(a, inv, prec, f)

__bf_div(a, b, prec, f) ==
  LET sign == Xor1(a.sign, b.sign)
  IN IF a.expn = EXP_NAN \/ b.expn = EXP_NAN THEN Res(bf_set_nan, {})
     ELSE IF a.expn = EXP_INF
            THEN IF b.expn = EXP_INF THEN Res(bf_set_nan, {"invalid"}) ELSE Res(bf_set_inf(sign), {})
     ELSE IF b.expn = EXP_INF THEN Res(bf_set_zero(sign), {})
     ELSE IF a.expn = EXP_ZERO
            THEN IF b.expn = EXP_ZERO THEN Res(bf_set_nan, {"invalid"}) ELSE Res(bf_set_zero(sign), {})
     ELSE IF b.expn = EXP_ZERO THEN Res(bf_set_inf(sign), {"divzero"})
     ELSE DivNumbers(a, b, prec, f)

\* set a bit beyond precl limbs
bf_or_one(r, precl) ==
  LET t == IF Len(r.tab) < precl THEN Zeros(precl - Len(r.tab)) \o r.tab ELSE r.tab
  IN [r EXCEPT !.tab = [t EXCEPT ![1] = Or1(@)]]

\* floor(a / b) and the remainder from q0, the faithful quotient of a and b
bf_tdivremu(a, b, q0) ==
  LET q == bf_rint(q0, PREC_INF, Flags(RNDZ)).r
      r == bf_sub(a, bf_mul(q, b, PREC_INF, Flags(RNDN)).r, PREC_INF, Flags(RNDN)).r
  IN IF a.expn < b.expn THEN [q |-> bf_set_ui(0), r |-> a]
     ELSE IF IsNum(r) /\ r.sign = 1
       THEN [q |-> bf_add_si(q, -1, PREC_INF, Flags(RNDZ)).r,
             r |-> bf_add(r, b, PREC_INF, Flags(RNDZ)).r]
       ELSE [q |-> q, r |-> r]

\* the quotient of long numbers: a and b as integers, the remainder folded
\* into the rounding bits; q0 is their faithful quotient
LongQuotientOperands(a, b, prec) ==
  LET n == Max2(Len(a.tab), CeilDiv(prec + 2, LIMB_BITS))
      nb == Len(b.tab)
  IN [a |-> Bf(0, (n + nb) * LIMB_BITS, a.tab), b |-> Bf(0, nb * LIMB_BITS, b.tab), n |-> n]

DivLong(a, b, prec, f, q0) ==
  LET x == LongQuotientOperands(a, b, prec)
      d == bf_tdivremu(x.a, x.b, q0)
      q == IF IsNum(d.r) THEN bf_or_one(d.q, CeilDiv(prec + 2, LIMB_BITS)) ELSE d.q
  IN bf_round([q EXCEPT !.expn = @ + a.expn - b.expn - x.n * LIMB_BITS,
                        !.sign = Xor1(a.sign, b.sign)], prec, f)

\* quotient rounded to an integer by mode, and the remainder
bf_divrem(a, b, prec, f, mode) ==
  LET qSign == Xor1(a.sign, b.sign)
      isCeil == \/ mode = RNDD /\ qSign = 1
                \/ mode = RNDU /\ qSign = 0
                \/ mode = RNDF /\ a.sign = 1       \* BF_DIVREM_EUCLIDIAN
      a1 == [a EXCEPT !.sign = 0]
      b1 == [b EXCEPT !.sign = 0]
      q0 == __bf_div(a1, b1, Max2(a.expn - b.expn + 1, 2), Flags(RNDF)).r
      d == bf_tdivremu(a1, b1, q0)
      half == bf_cmpu(d.r, [b1 EXCEPT !.expn = @ - 1])
      odd == get_bit(d.q.tab, Len(d.q.tab) * LIMB_BITS - d.q.expn) = 1
      up == /\ IsNum(d.r)
            /\ IF mode \in {RNDN, RNDNA} THEN half > 0 \/ (half = 0 /\ (mode = RNDNA \/ odd))
               ELSE isCeil
      q == IF up THEN bf_add_si(d.q, 1, PREC_INF, Flags(RNDZ)).r ELSE d.q
      r == IF up THEN bf_sub(d.r, b1, PREC_INF, Flags(RNDZ)).r ELSE d.r
      rr == bf_round([r EXCEPT !.sign = Xor1(@, a.sign)], prec, f)
  IN IF IsNum(a) /\ IsNum(b) THEN [q |-> [q EXCEPT !.sign = qSign], r |-> rr.r, st |-> rr.st]
     ELSE LET z(x) == [q |-> bf_set_zero(0), r |-> x.r, st |-> x.st]
          IN IF a.expn = EXP_NAN \/ b.expn = EXP_NAN THEN z(Res(bf_set_nan, {}))
             ELSE IF a.expn = EXP_INF \/ b.expn = EXP_ZERO THEN z(Res(bf_set_nan, {"invalid"}))
             ELSE z(bf_round(a, prec, f))

bf_fmod(a, b, prec, f) == bf_divrem(a, b, prec, f, RNDZ)
bf_remainder(a, b, prec, f) == bf_divrem(a, b, prec, f, RNDN)

(***************************************************************************)
(* Powers, square root, logical operations.                                *)
(***************************************************************************)

RECURSIVE PowBits(_, _, _, _, _, _)
PowBits(r, st, a, bits, prec, f) ==
  IF bits = <<>> THEN Res(r, st)
  ELSE LET sq == bf_mul(r, r, prec, f)
           m == IF bits[1] = 1 THEN bf_mul(sq.r, a, prec, f) ELSE Res(sq.r, {})
       IN PowBits(m.r, st \cup sq.st \cup m.st, a, Tail(bits), prec, f)

\* the bits of b below its top one, from the top
bf_pow_ui(a, b, prec, f) ==
  LET n == BitLen(b)
      bits == [i \in 1..(n - 1) |-> (b \div 2^(n - 1 - i)) % 2]
  IN IF b = 0 THEN Res(bf_set_ui(1), {}) ELSE PowBits(a, {}, a, bits, prec, f)

\* integer square root of the integer a and its remainder, from s0, the
\* faithful root at (expn + 1) / 2 bits; a caller that asks for no remainder
\* gets the root and the status only
bf_sqrtrem(a, s0, wantRem) ==
  LET Z == Flags(RNDZ)
      s == bf_rint(s0, PREC_INF, Z).r
      sq == bf_mul(s, s, PREC_INF, Z).r
      rem == bf_add([sq EXCEPT !.sign = 1 - @], a, PREC_INF, Z).r
      less == bf_add_si(s, -1, PREC_INF, Z).r
      rem2 == bf_add_si(bf_add(rem, less, PREC_INF, Z).r, 1, PREC_INF, Z).r
      cmp == bf_cmpu(sq, a)
      zero == bf_set_ui(0)
  IN IF a.expn = EXP_NAN THEN [r |-> bf_set_nan, rem |-> zero, st |-> {}]
     ELSE IF a.sign = 1 /\ a.expn # EXP_ZERO THEN [r |-> bf_set_nan, rem |-> zero, st |-> {"invalid"}]
     ELSE IF ~IsNum(a) THEN [r |-> a, rem |-> zero, st |-> {}]
     ELSE IF wantRem
       THEN IF ~IsNum(rem) THEN [r |-> s, rem |-> rem, st |-> {}]
            ELSE IF rem.sign = 1 THEN [r |-> less, rem |-> rem2, st |-> {"inexact"}]
            ELSE [r |-> s, rem |-> rem, st |-> {"inexact"}]
       ELSE [r |-> IF cmp > 0 THEN less ELSE s, rem |-> zero,
             st |-> IF cmp # 0 THEN {"inexact"} ELSE {}]

\* a's mantissa as an integer of at most 2 * prec + 4 bits
SqrtOperand(a, prec) ==
  bf_rint([a EXCEPT !.expn = (prec + 2) * 2 - (a.expn % 2)], PREC_INF, Flags(RNDZ))

\* the largest root s + bit + ... with s^2 <= n
RECURSIVE RootFrom(_, _, _)
RootFrom(n, s, bit) ==
  IF bit = 0 THEN s
  ELSE RootFrom(n, IF (s + bit) * (s + bit) <= n THEN s + bit ELSE s, bit \div 2)

ISqrt(n) == RootFrom(n, 0, 2^((BitLen(n) + 1) \div 2))

\* 2048 / sqrt(i + 64), rounded to the nearest
rsqrt_table(i) == ((ISqrt(16777216 \div (i + 64)) + 1) \div 2) % 256

Negated(a) == [a EXCEPT !.sign = 1 - @]
Halved(a) == IF IsNum(a) THEN [a EXCEPT !.expn = @ - 1] ELSE a

\* 1 / sqrt(x) by Newton's iteration from 8 bits (limbs have that many)
RECURSIVE __bf_rsqrt(_, _)
__bf_rsqrt(x, prec1) ==
  LET odd == x.expn % 2
      top == x.tab[Len(x.tab)]
      v == rsqrt_table(((IF odd = 1 THEN top \div 2 ELSE top) \div 2^(LIMB_BITS - 8)) - 64)
      e == 1 - ((x.expn + odd) \div 2)
      limb == (IF v = 0 THEN 128 ELSE v) * 2^(LIMB_BITS - 8)
      start == Bf(0, IF v = 0 THEN e + 1 ELSE e, <<MaskFrom(limb, LIMB_BITS - prec1)>>)
      F == Flags(RNDF)
      prec == prec1 + 3
      a == __bf_rsqrt(x, (prec1 \div 2) + 2)
      t0 == bf_mul(bf_mul(a, a, prec, F).r, x, prec, F).r
      t1 == bf_mul(bf_add_si(Negated(t0), 1, prec, F).r, a, prec, F).r
  IN IF prec1 <= 7 THEN start ELSE bf_add(a, Halved(t1), prec1, F).r

__bf_sqrt(a, prec1, f) ==
  LET F == Flags(RNDF)
      prec == prec1 + 3
      x == __bf_rsqrt(a, (prec1 \div 2) + 2)
      t1 == bf_mul(x, a, prec, F).r
      t0 == bf_add(Negated(bf_mul(t1, t1, prec, F).r), a, prec, F).r
  IN bf_add(t1, Halved(bf_mul(t0, x, prec, F).r), prec1, f)

bf_sqrt(a, prec, f, s0) ==
  LET d == (prec + 2) * 2 - (a.expn % 2)
      a1 == SqrtOperand(a, prec)
      root == bf_sqrtrem(a1.r, s0, FALSE)
      r == IF a1.st \cup root.st # {} THEN bf_or_one(root.r, CeilDiv(prec + 2, LIMB_BITS)) ELSE root.r
  IN IF a.expn = EXP_NAN THEN Res(bf_set_nan, {})
     ELSE IF a.sign = 1 /\ a.expn # EXP_ZERO THEN Res(bf_set_nan, {"invalid"})
     ELSE IF ~IsNum(a) THEN Res(a, {})
     ELSE IF f.rnd = RNDF THEN __bf_sqrt(a, prec, f)
     ELSE bf_round([r EXCEPT !.expn = @ - ((d - a.expn) \div 2)], prec, f)

bf_logic_op1(a, b, op) ==
  CASE op = "or" -> a | b
    [] op = "xor" -> a ^^ b
    [] op = "and" -> a & b

\* how many bits of the operands a logical operation combines
LogicBits(op, rSign, aSign, bSign, a, b) ==
  IF op = "and" /\ rSign = 0
    THEN IF aSign = 0 /\ bSign = 0 THEN Min2(a.expn, b.expn)
         ELSE IF aSign = 0 THEN a.expn ELSE b.expn
    ELSE Max2(a.expn, b.expn)

\* logical operation on integers as two's complement numbers
bf_logic_op(a0, b0, op) ==
  LET Z == Flags(RNDZ)
      aSign == IF a0.expn <= 0 THEN 0 ELSE a0.sign
      bSign == IF b0.expn <= 0 THEN 0 ELSE b0.sign
      a == IF aSign = 1 THEN bf_add_si(a0, 1, PREC_INF, Z).r ELSE a0
      b == IF bSign = 1 THEN bf_add_si(b0, 1, PREC_INF, Z).r ELSE b0
      rSign == bf_logic_op1(aSign, bSign, op)
      l == CeilDiv(Max2(LogicBits(op, rSign, aSign, bSign, a, b), 1), LIMB_BITS)
      aOff == Len(a.tab) * LIMB_BITS - a.expn
      bOff == Len(b.tab) * LIMB_BITS - b.expn
      inv(v, neg) == IF neg = 1 THEN LB - 1 - v ELSE v
      limb(i) == inv(bf_logic_op1(inv(get_bits(a.tab, aOff + i * LIMB_BITS), aSign),
                                  inv(get_bits(b.tab, bOff + i * LIMB_BITS), bSign), op), rSign)
      r == bf_normalize_and_round(
             Bf(rSign, l * LIMB_BITS, [i \in 1..l |-> limb(i - 1)]), PREC_INF, Z).r
  IN IF rSign = 1 THEN bf_add_si(r, -1, PREC_INF, Z).r ELSE r

(***************************************************************************)
(* Conversions to fixed size types.                                        *)
(***************************************************************************)

\* the integer part of a as a w bit integer, w <= LIMB_BITS
bf_get_int(a, w, mod) ==
  LET max == 2^(w - 1) - 1
      neg(v) == IF a.sign = 1 THEN -v ELSE v
      wrap(v) == LET u == v % 2^w IN IF u > max THEN u - 2^w ELSE u
      top == a.tab[Len(a.tab)]
  IN IF a.expn >= EXP_INF
       THEN [v |-> IF mod THEN 0 ELSE IF a.expn = EXP_INF THEN wrap(max + a.sign) ELSE max,
             st |-> {}]
     ELSE IF a.expn <= 0 THEN [v |-> 0, st |-> {}]
     ELSE IF a.expn <= w - 1 THEN [v |-> neg(top \div 2^(LIMB_BITS - a.expn)), st |-> {}]
     ELSE IF mod THEN [v |-> wrap(neg(get_bits(a.tab, Len(a.tab) * LIMB_BITS - a.expn))), st |-> {}]
     ELSE IF a.sign = 0 THEN [v |-> max, st |-> {"overflow"}]
     ELSE [v |-> -max - 1,
           st |-> IF a.expn = w /\ top \div 2^(LIMB_BITS - w) = max + 1 THEN {} ELSE {"overflow"}]

bf_get_int64(a, mod) == bf_get_int(a, LIMB_BITS, mod)
bf_get_int32(a, mod) == bf_get_int(a, LIMB_BITS \div 2, mod)

F64Bias == 2^(F64ExpBits - 1) - 1
F64Flags(rnd) == [rnd |-> rnd, sub |-> TRUE, bits |-> F64ExpBits]

\* a "double": sign, biased exponent e, fraction m of F64Bits - 1 bits.  The
\* mantissa is read from one limb, as with the limbs of the program
bf_get_float64(a, rnd) ==
  LET q == IF a.expn < EXP_INF THEN bf_round(a, F64Bits, F64Flags(rnd)) ELSE Res(a, {})
      b == q.r
      e == b.expn + F64Bias - 1
      m == b.tab[1]
      hid == LIMB_BITS - F64Bits         \* bits of the limb below the mantissa
  IN IF a.expn = EXP_NAN THEN [s |-> 0, e |-> 2^F64ExpBits - 1, m |-> 2^(F64Bits - 2), st |-> {}]
     ELSE IF b.expn = EXP_INF THEN [s |-> b.sign, e |-> 2^F64ExpBits - 1, m |-> 0, st |-> q.st]
     ELSE IF b.expn = EXP_ZERO THEN [s |-> b.sign, e |-> 0, m |-> 0, st |-> q.st]
     ELSE IF e <= 0 THEN [s |-> b.sign, e |-> 0, m |-> m \div 2^(hid + 1 - e), st |-> q.st]
     ELSE [s |-> b.sign, e |-> e, m |-> ((m * 2) % LB) \div 2^(hid + 1), st |-> q.st]

bf_set_float64(s, e, m) ==
  LET sub == m * 2^(LIMB_BITS - F64Bits + 1)
      shift == clz(sub)
  IN IF e = 2^F64ExpBits - 1 THEN (IF m # 0 THEN bf_set_nan ELSE bf_set_inf(s))
     ELSE IF e = 0
       THEN IF m = 0 THEN bf_set_zero(s)
            ELSE Bf(s, -shift - F64Bias + 1, <<sub * 2^shift>>)
     ELSE Bf(s, e - F64Bias + 1, <<m * 2^(LIMB_BITS - F64Bits) + LB \div 2>>)

(***************************************************************************)
(* What the operations promise: exact arithmetic on integers n * 2^u, then *)
(* one rounding.                                                           *)
(***************************************************************************)

\* the number n * 2^u, n > 0, in the form the library keeps it
Exact(sign, n, u) ==
  LET e == BitLen(n) + u
      len == CeilDiv(BitLen(n), LIMB_BITS)
  IN Bf(sign, e, DropZeros(Limbs(n * 2^(len * LIMB_BITS - BitLen(n)))))

\* the integer n
Integer(n) ==
  IF n = 0 THEN bf_set_zero(0) ELSE IF n < 0 THEN Exact(1, -n, 0) ELSE Exact(0, n, 0)

\* n * 2^u (n > 0, or a little more when more holds) rounded to prec bits
Rounded(sign, n, u, more, prec, f) ==
  LET len == BitLen(n)
      e == len + u
      e_range == 2^(f.bits - 1)
      e_min == 3 - e_range
      p == IF f.sub /\ e < e_min THEN prec - (e_min - e) ELSE prec
      k == len - p
      q == n \div 2^k
      rest == n % 2^k
      half == 2^(k - 1)
      exact == (k <= 0 \/ rest = 0) /\ ~more
      tie == rest = half /\ ~more
      over == rest > half \/ (rest = half /\ more)
      up == CASE f.rnd = RNDZ -> FALSE
              [] f.rnd = RNDD -> sign = 1 /\ ~exact
              [] f.rnd = RNDU -> sign = 0 /\ ~exact
              [] f.rnd = RNDN -> over \/ (tie /\ q % 2 = 1)
              [] f.rnd = RNDNA -> over \/ tie
              [] f.rnd = RNDNU -> over \/ (tie /\ sign = 0)
      Q == IF k <= 0 THEN n ELSE IF up THEN q + 1 ELSE q
      qu == IF k <= 0 THEN u ELSE u + k
      eQ == BitLen(Q) + qu
      st == IF exact THEN {} ELSE {"inexact"}
      top == Exact(sign, 2^prec - 1, e_range - prec)
  IN IF Q = 0 \/ (eQ < e_min /\ ~f.sub) THEN Res(bf_set_zero(sign), {"underflow", "inexact"})
     ELSE IF eQ > e_range
            THEN Res(IF \/ f.rnd = RNDZ
                        \/ f.rnd = RNDD /\ sign = 0
                        \/ f.rnd = RNDU /\ sign = 1 THEN top ELSE bf_set_inf(sign),
                     {"overflow", "inexact"})
     ELSE Res(Exact(sign, Q, qu),
              IF eQ < e_min /\ ~exact THEN {"underflow", "inexact"} ELSE st)

\* r is the result asked for: the rounded one, or with faithful rounding the
\* one of the two neighbours
IsRounded(res, sign, n, u, more, prec, f) ==
  IF f.rnd # RNDF THEN res = Rounded(sign, n, u, more, prec, f)
  ELSE res.r \in {Rounded(sign, n, u, more, prec, [f EXCEPT !.rnd = m]).r : m \in {RNDD, RNDU}}

\* the integer and the unit of a finite number
Mant(a) == Value(a.tab)
Unit(a) == a.expn - Len(a.tab) * LIMB_BITS
Signed(a) == IF a.sign = 1 THEN -Mant(a) ELSE Mant(a)

\* bf_add(a, b): the exact sum, rounded once; an exact zero is -0 only when
\* rounding down
SumRight(a, b, prec, f) ==
  LET u == Min2(Unit(a), Unit(b))
      s == Signed(a) * 2^(Unit(a) - u) + Signed(b) * 2^(Unit(b) - u)
      res == bf_add(a, b, prec, f)
  IN IF s = 0 THEN res = Res(bf_set_zero(IF f.rnd = RNDD THEN 1 ELSE 0), {})
     ELSE IsRounded(res, IF s < 0 THEN 1 ELSE 0, IF s < 0 THEN -s ELSE s, u, FALSE, prec, f)

\* r is less than a unit in the last place from n * 2^u
Near(r, n, u, prec) ==
  LET v == Min2(u, Unit(r))
      ulp == BitLen(n) + u - prec
      w == Min2(v, ulp)
      d == n * 2^(u - w) - Mant(r) * 2^(Unit(r) - w)
  IN d > -(2^(ulp - w)) /\ d < 2^(ulp - w)

\* a faithful product reads the top limbs of its operands only: just above a
\* power of two, where the units below are smaller, it may miss both neighbours
\* of the exact one
FaithfulProduct(a, b, prec) ==
  LET r == bf_mul(a, b, prec, Flags(RNDF)).r
  IN r.sign = Xor1(a.sign, b.sign) /\ Near(r, Mant(a) * Mant(b), Unit(a) + Unit(b), prec)

ProductRight(a, b, prec, f) ==
  IsRounded(bf_mul(a, b, prec, f), Xor1(a.sign, b.sign), Mant(a) * Mant(b),
            Unit(a) + Unit(b), FALSE, prec, f)

\* the quotient of the integers x and y to k more bits
QuotientRounded(res, sign, x, y, u, prec, f, k) ==
  IsRounded(res, sign, (x * 2^k) \div y, u - k, (x * 2^k) % y # 0, prec, f)

DivExtra(a, b, prec) == Max2(0, prec + 3 + BitLen(Mant(b)) - BitLen(Mant(a)))

QuotientRight(a, b, prec, f) ==
  QuotientRounded(__bf_div(a, b, prec, f), Xor1(a.sign, b.sign), Mant(a), Mant(b),
                  Unit(a) - Unit(b), prec, f, DivExtra(a, b, prec))

\* the two faithful quotients of x by y at prec bits, both positive
FaithfulQuotients(x, y, prec) ==
  LET k == DivExtra(x, y, prec)
      n == (Mant(x) * 2^k) \div Mant(y)
      m == (Mant(x) * 2^k) % Mant(y) # 0
      u == Unit(x) - Unit(y) - k
  IN {Rounded(0, n, u, m, prec, Flags(rnd)).r : rnd \in {RNDD, RNDU}}

LongQuotientRight(a, b, prec, f) ==
  LET x == LongQuotientOperands(a, b, prec)
  IN \A q0 \in FaithfulQuotients(x.a, x.b, Max2(x.a.expn - x.b.expn + 1, 2)) :
       QuotientRounded(DivLong(a, b, prec, f, q0), Xor1(a.sign, b.sign), Mant(a), Mant(b),
                       Unit(a) - Unit(b), prec, f, DivExtra(a, b, prec))

\* the faithful quotient of long numbers, whatever faithful reciprocal it uses
LongFaithfulRight(a, b, prec) ==
  LET one == Bf(0, 1, <<LB \div 2>>)
      k == DivExtra(a, b, prec)
  IN \A inv \in FaithfulQuotients(one, [b EXCEPT !.sign = 0], prec + 3) :
       Near(DivFaithful([a EXCEPT !.sign = 0], inv, prec, Flags(RNDF)).r, (Mant(a) * 2^k) \div Mant(b), Unit(a) - Unit(b) - k, prec)

\* bf_divrem on integers x and y: q is x / y rounded by mode, r = x - q * y
DivremRight(x, y, mode) ==
  LET d == bf_divrem(Integer(x), Integer(y), PREC_INF, Flags(RNDN), mode)
      absx == IF x < 0 THEN -x ELSE x
      absy == IF y < 0 THEN -y ELSE y
      fl == absx \div absy
      m == absx % absy
      neg == (x < 0) # (y < 0)
      up == CASE mode = RNDZ -> FALSE
              [] mode = RNDD -> neg /\ m # 0
              [] mode = RNDU -> ~neg /\ m # 0
              [] mode = RNDN -> 2 * m > absy \/ (2 * m = absy /\ fl % 2 = 1)
              [] mode = RNDNA -> 2 * m >= absy
              [] mode = RNDF -> x < 0 /\ m # 0
      q == (IF neg THEN -1 ELSE 1) * (IF up THEN fl + 1 ELSE fl)
      same(b, n) == IF n = 0 THEN b.expn = EXP_ZERO ELSE b = Integer(n)
  IN same(d.q, q) /\ same(d.r, x - q * y)

\* the faithful roots of the integer a at (expn + 1) / 2 bits
FaithfulRoots(a) ==
  LET n == Mant(a) * 2^Max2(0, Unit(a))
      v == IF Unit(a) < 0 THEN n \div 2^(-Unit(a)) ELSE n
      k == 6
      s == ISqrt(v * 2^(2 * k))
      m == s * s # v * 2^(2 * k)
  IN {Rounded(0, s, -k, m, (a.expn + 1) \div 2, Flags(rnd)).r : rnd \in {RNDD, RNDU}}

\* bf_sqrt: the root of a rounded once, whatever faithful approximation it
\* starts from
RootRight(a, prec, f) ==
  LET k == 2 * prec + 6
      odd == (Unit(a) - k) % 2
      n == Mant(a) * 2^(k + odd)
      s == ISqrt(n)
  IN \A s0 \in FaithfulRoots(SqrtOperand(a, prec).r) :
       IsRounded(bf_sqrt(a, prec, f, s0), 0, s, (Unit(a) - k - odd) \div 2, s * s # n, prec, f)

\* bf_sqrtrem without and with its remainder
IntegerRootRight(x, s0) ==
  LET s == ISqrt(x)
      d == bf_sqrtrem(Integer(x), s0, FALSE)
  IN d.r = Integer(s) /\ d.st = (IF s * s = x THEN {} ELSE {"inexact"})

\* the remainder is x - s^2, unless the faithful root was one too large: then
\* the code adds the corrected root s to it once instead of twice
RemainderRight(x, s0) ==
  LET s == ISqrt(x)
      d == bf_sqrtrem(Integer(x), s0, TRUE)
      above == bf_rint(s0, PREC_INF, Flags(RNDZ)).r # Integer(s)
      rem == x - s * s - (IF above THEN s ELSE 0)
  IN d.r = Integer(s) /\ (IF rem = 0 THEN d.rem.expn = EXP_ZERO ELSE d.rem = Integer(rem))

\* a logical operation on the integers x and y is the one on their two's
\* complement bits
LogicRight(x, y, op, w) ==
  LET u == bf_logic_op1(x % 2^w, y % 2^w, op)
      n == IF u >= 2^(w - 1) THEN u - 2^w ELSE u
      r == bf_logic_op(Integer(x), Integer(y), op)
  IN IF n = 0 THEN r.expn = EXP_ZERO ELSE r = Integer(n)

\* bf_get_int truncates, and saturates or wraps what does not fit
IntRight(a, w, mod, g) ==
  LET n == IF Unit(a) >= 0 THEN Mant(a) * 2^Unit(a) ELSE Mant(a) \div 2^(-Unit(a))
      v == IF a.sign = 1 THEN -n ELSE n
      min == -(2^(w - 1))
      fits == v >= min /\ v <= -min - 1
  IN IF fits THEN g = [v |-> v, st |-> {}]
     ELSE IF mod THEN g = [v |-> ((v - min) % 2^w) + min, st |-> {}]
     ELSE g = [v |-> IF v < 0 THEN min ELSE -min - 1, st |-> {"overflow"}]

IntsRight(a, mod) ==
  /\ IntRight(a, LIMB_BITS, mod, bf_get_int64(a, mod))
  /\ IntRight(a, LIMB_BITS \div 2, mod, bf_get_int32(a, mod))

\* every "double" survives the way through a number, and a number that is read
\* as a "double" is the one its rounding stands for
DoubleRoundTrip(s, e, m) ==
  LET d == bf_get_float64(bf_set_float64(s, e, m), RNDN)
  IN IF e = 2^F64ExpBits - 1 /\ m # 0 THEN d.e = e /\ d.m # 0
     ELSE d = [s |-> s, e |-> e, m |-> m, st |-> {}]

\* the numbers within 2^(expn - k) of a round as a does when bf_can_round
\* says so, in units of 2^(expn - k - 2): all of them but the one at the lower
\* end, which may lie where the rounding changes
CanRoundRight(a, prec, rnd, k) ==
  LET w == Max2(k + 2, Len(a.tab) * LIMB_BITS)
      n == Mant(a) * 2^(w - Len(a.tab) * LIMB_BITS)
      u == a.expn - w
      err == 2^(w - k)
      of(x) == Rounded(a.sign, x, u, FALSE, prec, Flags(rnd)).r
  IN bf_can_round(a, prec, rnd, k) =>
       \A x \in (n - err + 1)..(n + err) : of(x) = of(n)

\* a power at infinite precision is exact
PowerRight(x, b) ==
  bf_pow_ui(Integer(x), b, PREC_INF, Flags(RNDZ)) =
    Res(IF x = 0 /\ b > 0 THEN bf_set_zero(0) ELSE Integer(x^b), {})

\* zeros, infinities and NaN: a sum and a product do not depend on the order
\* of the operands, a difference is the sum with the opposite, and the total
\* order puts -0 before 0 and NaN last
SpecialsRight(a, b, f) ==
  LET neg(x) == [x EXCEPT !.sign = 1 - @]
      num(x) == IF x.expn = EXP_ZERO THEN 0 ELSE (IF x.sign = 1 THEN -1 ELSE 1) * (x.expn + EXP_MAX)
  IN /\ bf_add(a, b, 3, f) = bf_add(b, a, 3, f)
     /\ bf_mul(a, b, 3, f) = bf_mul(b, a, 3, f)
     /\ b.expn # EXP_NAN => bf_sub(a, b, 3, f) = bf_add(a, neg(b), 3, f)
     /\ bf_cmp_full(a, b) = -bf_cmp_full(b, a)
     /\ EXP_NAN \notin {a.expn, b.expn} =>
          /\ bf_cmp(a, b, {"lt"}) <=> num(a) < num(b)
          /\ bf_cmp(a, b, {"lt", "eq"}) <=> ~bf_cmp(b, a, {"lt"})
          /\ bf_cmp(a, b, {"eq"}) <=> num(a) = num(b)
     /\ __bf_div(a, b, 3, f).r.expn = EXP_NAN <=>
          \/ EXP_NAN \in {a.expn, b.expn}
          \/ a.expn = b.expn /\ a.expn \in {EXP_ZERO, EXP_INF}
=============================================================================

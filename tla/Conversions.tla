------------------------------ MODULE Conversions ------------------------------
(***************************************************************************)
(* How Go values of the leaf types are stored in a vector and read back:   *)
(* src/types.go, and the leaf setters and getters of                       *)
(* src/vector_setters.go and src/vector_getters.go.                        *)
(*                                                                         *)
(* The widths and the calendar are parameters: a 64-bit word has Word      *)
(* values, a byte Byte values, and instants count nanoseconds from 1970.   *)
(***************************************************************************)
EXTENDS Integers, Sequences

CONSTANTS
  Word,       \* 2^64
  Byte,       \* 2^8
  Unit,       \* the length of "ns", "us", "ms" and "s" in nanoseconds
  Day, Year,  \* their length in nanoseconds
  Years,      \* the years getTSTicks lets pass for "ns" and "us"
  NanoLimit   \* the nanoseconds from 1970 to the end of int64

ASSUME ConversionAssumption ==
  /\ Word \in Nat \ {0} /\ Word % 2 = 0
  /\ Byte \in Nat \ {0, 1}
  /\ Unit \in [{"ns", "us", "ms", "s"} -> Nat \ {0}]
  /\ Unit["ns"] = 1 /\ Unit["us"] % Unit["ns"] = 0
  /\ Unit["ms"] % Unit["us"] = 0 /\ Unit["s"] % Unit["ms"] = 0
  /\ Day \in Nat \ {0} /\ Day % Unit["s"] = 0 /\ Year \in Nat \ {0}
  /\ Years \in [{"ns", "us"} -> Int \X Int] /\ NanoLimit \in Nat \ {0}

\* Go values: machine integers and *big.Int, UUIDs of two words, Decimals (their
\* digits and how many of them are decimal places), and
\* instants with the offset of their zone; and the clock times TIME columns give.
Nil == [go |-> "nil"]
Num(n) == [go |-> "num", num |-> n]
Big(n) == [go |-> "big", num |-> n]
Uuid(hi, lo) == [go |-> "UUID", hi |-> hi, lo |-> lo]
Dec(n, scale) == [go |-> "Decimal", num |-> n, scale |-> scale]
Time(ns, off) == [go |-> "time", ns |-> ns, off |-> off]
Clock(ns, off) == [go |-> "clock", ns |-> ns, off |-> off]

Half == Word \div 2
\* Go's conversions between the two kinds of words.
ToUint(n) == n % Word
ToInt(n) == IF (n % Word) < Half THEN n % Word ELSE (n % Word) - Word
IsInt64(n) == n \in -Half .. Half - 1
IsUint64(n) == n \in 0 .. Word - 1

\* Go's division rounds towards zero.
GoDiv(a, b) == IF a >= 0 THEN a \div b ELSE -((-a) \div b)

-----------------------------------------------------------------------------
\* HUGEINT is <<lower, upper>> for upper * 2^64 + lower.

\* NewHugeInt(uint64(v), v >> 63)
HugeOfInt(n) == <<ToUint(n), IF n < 0 THEN -1 ELSE 0>>

HugeFits(n) == IsInt64(n \div Word)
HugeIntFromNative(n) == <<n % Word, n \div Word>>

HugeIntToNative(h) == h[2] * Word + h[1]

UhugeFits(n) == n >= 0 /\ IsUint64(n \div Word)

\* A UUID is a HUGEINT with the sign bit flipped, so that both sort alike.
UuidToHugeInt(u) == <<u.lo, ToInt(u.hi + Half)>>
HugeIntToUuid(h) == Uuid(ToUint(ToUint(h[2]) + Half), h[1])

-----------------------------------------------------------------------------
\* BIGNUM is a header with the length and the sign, and the magnitude, which is
\* complemented with the header when the number is negative.
Abs(n) == IF n < 0 THEN -n ELSE n
ByteCount(n) == CHOOSE k \in 1..(Abs(n) + 1) :
                  /\ Abs(n) < Byte ^ k
                  /\ k > 1 => Abs(n) >= Byte ^ (k - 1)
Magnitude(n) == [j \in 1..ByteCount(n) |-> (Abs(n) \div Byte ^ (ByteCount(n) - j)) % Byte]
Complement(bytes) == [j \in DOMAIN bytes |-> Byte - 1 - bytes[j]]

HeaderBit == 8388608
Header(n) == LET h == HeaderBit + ByteCount(n)
             IN IF n < 0 THEN 2 * HeaderBit - 1 - h ELSE h
SetBignum(n) ==
  [header |-> Header(n), bytes |-> IF n < 0 THEN Complement(Magnitude(n)) ELSE Magnitude(n)]

\* big.Int.SetBytes
Number(bytes) ==
  LET upto[j \in 0..Len(bytes)] == IF j = 0 THEN 0 ELSE upto[j - 1] * Byte + bytes[j]
  IN upto[Len(bytes)]

GetBignum(s) == IF s.header >= HeaderBit THEN Number(s.bytes) ELSE -Number(Complement(s.bytes))

-----------------------------------------------------------------------------
\* Instants.  UnixMicro and its kin round down.
UnixIn(unit, t) == t.ns \div Unit[unit]
YearOf(t) == t.ns \div Year
YearAllowed(unit, t) == unit \in DOMAIN Years => YearOf(t) \in Years[unit][1]..Years[unit][2]

\* UnixNano wraps outside of int64.
WrapNano(n) == ((n + NanoLimit) % (2 * NanoLimit)) - NanoLimit
GetTSTicks(unit, t) == IF unit = "ns" THEN WrapNano(t.ns) ELSE UnixIn(unit, t)
TimeOfTicks(unit, ticks) == Time(ticks * Unit[unit], 0)

\* int32(ti.Unix() / secondsPerDay)
InferDate(t) == GoDiv(UnixIn("s", t), Day \div Unit["s"])
TimeOfDate(days) == Time(days * Day, 0)

\* The microseconds since midnight in the instant's own zone.
GetTimeTicks(t) == ((t.ns + t.off) % Day) \div Unit["us"]

-----------------------------------------------------------------------------
\* Whether a column of leaf type t takes v, and what it stores.
\* (A DECIMAL is stored in a machine integer, or in a HUGEINT if it is wide.)
Integral(v) == v.go \in {"num", "big", "Decimal"}

LeafTakes(t, v) ==
  CASE t.kind \in {"num", "decimal"} -> v.go \in {"num", "Decimal"}
    [] t.kind \in {"huge", "hugedecimal"} -> Integral(v) /\ HugeFits(v.num)
    [] t.kind = "uhuge" -> Integral(v) /\ UhugeFits(v.num)
    [] t.kind = "bignum" -> Integral(v)
    [] t.kind = "uuid" -> v.go = "UUID"
    [] t.kind = "timestamp" -> v.go = "time" /\ YearAllowed(t.unit, v)
    [] t.kind \in {"date", "time", "timetz"} -> v.go = "time"

LeafStored(t, v) ==
  CASE t.kind = "num" -> v.num % t.limit
    [] t.kind = "decimal" -> ((v.num + t.limit) % (2 * t.limit)) - t.limit
    [] t.kind \in {"huge", "hugedecimal"} /\ v.go = "num" -> HugeOfInt(v.num)
    [] t.kind \in {"huge", "hugedecimal"} /\ v.go # "num" -> HugeIntFromNative(v.num)
    [] t.kind = "uhuge" -> HugeIntFromNative(v.num)
    [] t.kind = "bignum" -> SetBignum(v.num)
    [] t.kind = "uuid" -> UuidToHugeInt(v)
    [] t.kind = "timestamp" -> GetTSTicks(t.unit, v)
    [] t.kind = "date" -> InferDate(v)
    [] t.kind = "time" -> GetTimeTicks(v)
    [] t.kind = "timetz" -> <<GetTimeTicks(v), v.off>>

LeafRead(t, x) ==
  CASE t.kind = "num" -> Num(x)
    [] t.kind = "decimal" -> Dec(x, t.scale)
    [] t.kind = "hugedecimal" -> Dec(HugeIntToNative(x), t.scale)
    [] t.kind \in {"huge", "uhuge"} -> Big(HugeIntToNative(x))
    [] t.kind = "bignum" -> Big(GetBignum(x))
    [] t.kind = "uuid" -> HugeIntToUuid(x)
    [] t.kind = "timestamp" -> TimeOfTicks(t.unit, x)
    [] t.kind = "date" -> TimeOfDate(x)
    [] t.kind = "time" -> Clock(x * Unit["us"], 0)
    [] t.kind = "timetz" -> Clock(x[1] * Unit["us"], x[2])

-----------------------------------------------------------------------------
\* The digits of a number in a column with this many decimal places, what is finer
\* cut off; a Decimal has a scale of its own, other numbers are whole.
ScaleOf(v) == IF v.go = "Decimal" THEN v.scale ELSE 0
AtScale(v, scale) ==
  IF ScaleOf(v) <= scale THEN v.num * 10 ^ (scale - ScaleOf(v))
                         ELSE GoDiv(v.num, 10 ^ (ScaleOf(v) - scale))
Digits(t, v) == AtScale(v, IF t.kind \in {"decimal", "hugedecimal"} THEN t.scale ELSE 0)

\* What a leaf should make of a value it takes: the number itself (wrapped, for a
\* narrower number type), the instant rounded down to the column's unit, the day
\* that holds the instant, the clock time of its zone.
Down(n, unit) == n - (n % unit)
LeafMeaning(t, v) ==
  CASE t.kind = "num" -> Num(Digits(t, v) % t.limit)
    [] t.kind \in {"decimal", "hugedecimal"} -> Dec(Digits(t, v), t.scale)
    [] t.kind \in {"huge", "uhuge", "bignum"} -> Big(Digits(t, v))
    [] t.kind = "uuid" -> v
    [] t.kind = "timestamp" -> Time(Down(v.ns, Unit[t.unit]), 0)
    [] t.kind = "date" -> Time(Down(v.ns, Day), 0)
    [] t.kind = "time" -> Clock(Down((v.ns + v.off) % Day, Unit["us"]), 0)
    [] t.kind = "timetz" -> Clock(Down((v.ns + v.off) % Day, Unit["us"]), v.off)

LeafFits(t, v) ==
  CASE t.kind \in {"huge", "hugedecimal"} -> v.num \in -(Half * Word) .. Half * Word - 1
    [] t.kind = "uhuge" -> v.num \in 0 .. Word * Word - 1
    [] OTHER -> TRUE

\* What a leaf type takes reads back as what it means.
LeafReadsBack(t, v) ==
  LeafTakes(t, v) => LeafFits(t, v) /\ LeafRead(t, LeafStored(t, v)) = LeafMeaning(t, v)
=============================================================================

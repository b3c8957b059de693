-------------------------- MODULE ChunkWriterProofs --------------------------
(***************************************************************************)
(* Proofs about ChunkWriter, for every capacity, every set of chunks and   *)
(* any number of writes and resets, and about the conversions of leaf      *)
(* values it writes and reads.                                             *)
(*                                                                         *)
(* The code's functions on vectors call each other along a column's type.  *)
(* NestedVector declares such a function as a constant, Set, next to its   *)
(* body, SetDef, and a configuration gives the one as the other.  Here the *)
(* same is said in formulas: `Recursion` states for each constant the      *)
(* equation Set(vec, row, v) = SetDef(vec, row, v), for the vectors and    *)
(* types it is used on and nothing else.  The arguments of the calls in a  *)
(* body have a type of smaller depth, or fewer writes left, or fewer       *)
(* members left to try, so that functions that satisfy the equations       *)
(* exist, and on these arguments they are the ones that TLC computes.      *)
(*                                                                         *)
(* The inductive invariant is IInv, at the end: each column is well formed *)
(* (Formed) with current addresses (Fresh), and each cell is what its last *)
(* write should have made of it (CellRight).  What holds of a cell that is *)
(* written over depends on whether NULLs are left in it, hence Clean.      *)
(***************************************************************************)
EXTENDS ChunkWriter, FiniteSetTheorems, SequenceTheorems, WellFoundedInduction, TLAPS

(***************************************************************************)
(* Conversions: what they keep of a value, for every width of a word and   *)
(* every length of the calendar's units.  BIGNUM is left to TLC: its bytes *)
(* are decoded by a recursive function.                                    *)
(***************************************************************************)

\* Division with remainder (big.Int.DivMod and Go's shifts of words).
LEMMA DivMod ==
  ASSUME NEW n \in Int, NEW d \in Nat \ {0}
  PROVE  /\ n \div d \in Int /\ n % d \in 0 .. d - 1
         /\ n = (n \div d) * d + (n % d)
  OBVIOUS

\* A quotient and a remainder determine the number they come from.
LEMMA DivModUnique ==
  ASSUME NEW q \in Int, NEW d \in Nat \ {0}, NEW r \in 0 .. d - 1
  PROVE  (q * d + r) % d = r /\ (q * d + r) \div d = q
  OBVIOUS

\* A word has an even number of values.
LEMMA Words == /\ Word \in Nat \ {0} /\ Half \in Nat \ {0} /\ Word = 2 * Half
  <1>1. Word \in Nat \ {0} /\ Word % 2 = 0  BY ConversionAssumption
  <1>2. Word = 2 * (Word \div 2)  BY <1>1
  <1> QED  BY <1>1, <1>2 DEF Half

-----------------------------------------------------------------------------
\* hugeIntFromNative takes exactly the numbers of 128 bits, stores them as two
\* words, and hugeIntToNative gives them back.
THEOREM HugeRoundTrip ==
  ASSUME NEW n \in Int
  PROVE  /\ HugeFits(n) <=> n \in -(Half * Word) .. Half * Word - 1
         /\ HugeIntFromNative(n)[1] \in 0 .. Word - 1
         /\ HugeIntToNative(HugeIntFromNative(n)) = n
  <1> DEFINE q == n \div Word
             r == n % Word
  <1>1. q \in Int /\ r \in 0 .. Word - 1 /\ n = q * Word + r  BY Words, DivMod
  <1> HIDE DEF q, r
  <1>2. ASSUME q >= -Half, q <= Half - 1
        PROVE  n >= -(Half * Word) /\ n <= Half * Word - 1
    <2>1. q * Word >= -Half * Word  BY <1>1, <1>2, Words
    <2>2. q * Word <= (Half - 1) * Word  BY <1>1, <1>2, Words
    <2> QED  BY <1>1, <2>1, <2>2, Words
  <1>3. ASSUME n >= -(Half * Word), n <= Half * Word - 1
        PROVE  q >= -Half /\ q <= Half - 1
    <2>1. CASE q < -Half
      <3>1. q * Word <= (-Half - 1) * Word  BY <1>1, <2>1, Words
      <3> QED  BY <1>1, <1>3, <3>1, Words
    <2>2. CASE q > Half - 1
      <3>1. q * Word >= Half * Word  BY <1>1, <2>2, Words
      <3> QED  BY <1>1, <1>3, <3>1, Words
    <2> QED  BY <1>1, <2>1, <2>2, Words
  <1>4. HugeFits(n) <=> n \in -(Half * Word) .. Half * Word - 1
    <2>1. HugeFits(n) <=> q >= -Half /\ q <= Half - 1
      BY <1>1, Words DEF HugeFits, IsInt64, q
    <2>2. Half * Word \in Int  BY Words
    <2> QED  BY <1>2, <1>3, <2>1, <2>2
  <1>5. HugeIntFromNative(n) = <<r, q>>  BY DEF HugeIntFromNative, q, r
  <1> QED  BY <1>1, <1>4, <1>5 DEF HugeIntToNative

\* inferHugeInt's short way for machine integers stores what the long way does.
THEOREM HugeOfIntAgrees ==
  ASSUME NEW n, IsInt64(n) \/ IsUint64(n)
  PROVE  HugeOfInt(n) = HugeIntFromNative(n)
  <1>1. n \in Int /\ n < Word /\ -Word <= n  BY Words DEF IsInt64, IsUint64
  <1>2. CASE n >= 0
    <2>1. n = 0 * Word + n /\ n \in 0 .. Word - 1  BY <1>1, <1>2, Words
    <2>2. n \div Word = 0  BY <2>1, Words, DivModUnique
    <2> QED  BY <1>1, <1>2, <2>2 DEF HugeOfInt, HugeIntFromNative, ToUint
  <1>3. CASE n < 0
    <2>1. n = (-1) * Word + (n + Word) /\ n + Word \in 0 .. Word - 1
      BY <1>1, <1>3, Words
    <2>2. n \div Word = -1  BY <2>1, Words, DivModUnique
    <2> QED  BY <1>1, <1>3, <2>2 DEF HugeOfInt, HugeIntFromNative, ToUint
  <1> QED  BY <1>1, <1>2, <1>3

\* uhugeIntFromNative takes exactly the numbers of 128 bits without a sign.
THEOREM UhugeRange ==
  ASSUME NEW n \in Int
  PROVE  UhugeFits(n) <=> n \in 0 .. Word * Word - 1
  <1> DEFINE q == n \div Word
             r == n % Word
  <1>1. q \in Int /\ r \in 0 .. Word - 1 /\ n = q * Word + r  BY Words, DivMod
  <1>2. UhugeFits(n) <=> n >= 0 /\ q >= 0 /\ q <= Word - 1
    BY <1>1, Words DEF UhugeFits, IsUint64
  <1> HIDE DEF q, r
  <1>3. ASSUME n >= 0, q >= 0, q <= Word - 1  PROVE n <= Word * Word - 1
    <2>1. q * Word <= (Word - 1) * Word  BY <1>1, <1>3, Words
    <2> QED  BY <1>1, <2>1, Words
  <1>4. ASSUME n >= 0, n <= Word * Word - 1  PROVE q >= 0 /\ q <= Word - 1
    <2>1. CASE q < 0
      <3>1. q * Word <= (-1) * Word  BY <1>1, <2>1, Words
      <3> QED  BY <1>1, <1>4, <3>1, Words
    <2>2. CASE q > Word - 1
      <3>1. q * Word >= Word * Word  BY <1>1, <2>2, Words
      <3> QED  BY <1>1, <1>4, <3>1, Words
    <2> QED  BY <1>1, <2>1, <2>2, Words
  <1>5. Word * Word \in Int  BY Words
  <1> QED  BY <1>2, <1>3, <1>4, <1>5

-----------------------------------------------------------------------------
\* uuidToHugeInt flips the sign bit, which shifts the upper word by half a word.
LEMMA FlippedWord ==
  ASSUME NEW w \in 0 .. Word - 1
  PROVE  ToInt(w + Half) = w - Half
  <1>1. w \in Int /\ w + Half \in Int /\ w - Half \in Int  BY Words
  <1>2. CASE w < Half
    <2>1. w + Half = 0 * Word + (w + Half) /\ w + Half \in 0 .. Word - 1
      BY <1>1, <1>2, Words
    <2>2. (w + Half) % Word = w + Half  BY <2>1, Words, DivModUnique
    <2>3. ~(w + Half < Half)  BY <1>1, Words
    <2> QED  BY <1>1, <2>2, <2>3, Words DEF ToInt
  <1>3. CASE w >= Half
    <2>1. w + Half = 1 * Word + (w - Half) /\ w - Half \in 0 .. Word - 1
      BY <1>1, <1>3, Words
    <2>2. (w + Half) % Word = w - Half  BY <2>1, Words, DivModUnique
    <2>3. w - Half < Half  BY <1>1, Words
    <2> QED  BY <2>2, <2>3 DEF ToInt
  <1> QED  BY <1>1, <1>2, <1>3, Words

\* uuidToHugeInt and hugeIntToUUID: a UUID comes back as it was.
THEOREM UuidRoundTrip ==
  ASSUME NEW hi \in 0 .. Word - 1, NEW lo \in 0 .. Word - 1
  PROVE  HugeIntToUuid(UuidToHugeInt(Uuid(hi, lo))) = Uuid(hi, lo)
  <1>1. UuidToHugeInt(Uuid(hi, lo)) = <<lo, hi - Half>>
    BY FlippedWord DEF UuidToHugeInt, Uuid
  <1>2. ToUint(ToUint(hi - Half) + Half) = hi
    <2>1. hi \in Int /\ hi - Half \in Int  BY Words
    <2>2. CASE hi < Half
      <3>1. hi - Half = (-1) * Word + (hi + Half) /\ hi + Half \in 0 .. Word - 1
        BY <2>1, <2>2, Words
      <3>2. ToUint(hi - Half) = hi + Half  BY <3>1, Words, DivModUnique DEF ToUint
      <3>3. hi + Half + Half = 1 * Word + hi  BY <2>1, Words
      <3>4. (hi + Half + Half) % Word = hi  BY <3>3, Words, DivModUnique
      <3> QED  BY <3>2, <3>4 DEF ToUint
    <2>3. CASE hi >= Half
      <3>1. hi - Half = 0 * Word + (hi - Half) /\ hi - Half \in 0 .. Word - 1
        BY <2>1, <2>3, Words
      <3>2. ToUint(hi - Half) = hi - Half  BY <3>1, Words, DivModUnique DEF ToUint
      <3>3. hi - Half + Half = 0 * Word + hi  BY <2>1, Words
      <3>4. (hi - Half + Half) % Word = hi  BY <3>3, Words, DivModUnique
      <3> QED  BY <3>2, <3>4 DEF ToUint
    <2> QED  BY <2>1, <2>2, <2>3, Words
  <1> QED  BY <1>1, <1>2 DEF HugeIntToUuid

\* uuidToHugeInt: UUIDs sort by their bytes as the HUGEINTs they are stored as
\* sort by number, which is what the flip is for.
THEOREM UuidOrder ==
  ASSUME NEW h1 \in 0 .. Word - 1, NEW l1 \in 0 .. Word - 1,
         NEW h2 \in 0 .. Word - 1, NEW l2 \in 0 .. Word - 1
  PROVE  (h1 < h2 \/ (h1 = h2 /\ l1 < l2)) <=>
           HugeIntToNative(UuidToHugeInt(Uuid(h1, l1)))
             < HugeIntToNative(UuidToHugeInt(Uuid(h2, l2)))
  <1>1. /\ HugeIntToNative(UuidToHugeInt(Uuid(h1, l1))) = (h1 - Half) * Word + l1
        /\ HugeIntToNative(UuidToHugeInt(Uuid(h2, l2))) = (h2 - Half) * Word + l2
    BY FlippedWord DEF UuidToHugeInt, Uuid, HugeIntToNative
  <1>2. h1 \in Int /\ h2 \in Int /\ l1 \in Int /\ l2 \in Int  OBVIOUS
  <1> DEFINE a == (h1 - Half) * Word
             b == (h2 - Half) * Word
  <1>3. CASE h1 = h2
    BY <1>1, <1>2, <1>3, Words
  <1>4. CASE h1 < h2
    <2>1. a \in Int /\ b \in Int /\ a + Word <= b  BY <1>2, <1>4, Words
    <2> HIDE DEF a, b
    <2>2. a + l1 < b + l2  BY <1>2, <2>1, Words
    <2>3. HugeIntToNative(UuidToHugeInt(Uuid(h1, l1)))
            < HugeIntToNative(UuidToHugeInt(Uuid(h2, l2)))
      BY <1>1, <2>2 DEF a, b
    <2> QED  BY <1>4, <2>3
  <1>5. CASE h1 > h2
    <2>1. a \in Int /\ b \in Int /\ b + Word <= a  BY <1>2, <1>5, Words
    <2> HIDE DEF a, b
    <2>2. ~(a + l1 < b + l2)  BY <1>2, <2>1, Words
    <2> QED  BY <1>1, <1>2, <1>5, <2>2 DEF a, b
  <1> QED  BY <1>2, <1>3, <1>4, <1>5

-----------------------------------------------------------------------------
\* Rounding down to whole units keeps them all and loses less than one.
LEMMA DownIsTicks ==
  ASSUME NEW n \in Int, NEW d \in Nat \ {0}
  PROVE  (n \div d) * d = Down(n, d)
  BY DivMod DEF Down

\* getTSTicks and the getters: an instant comes back rounded down to the unit of
\* the column.
THEOREM TimestampRoundTrip ==
  ASSUME NEW t, NEW unit \in {"us", "ms", "s"}, t.ns \in Int
  PROVE  TimeOfTicks(unit, GetTSTicks(unit, t)) = Time(Down(t.ns, Unit[unit]), 0)
  <1>1. Unit[unit] \in Nat \ {0}  BY ConversionAssumption
  <1> QED  BY <1>1, DownIsTicks DEF TimeOfTicks, GetTSTicks, UnixIn

\* In nanoseconds this takes an instant that int64 can count: the years that
\* getTSTicks lets pass reach further.
THEOREM NanoRoundTrip ==
  ASSUME NEW t, t.ns \in -NanoLimit .. NanoLimit - 1
  PROVE  TimeOfTicks("ns", GetTSTicks("ns", t)) = Time(t.ns, 0)
  <1>1. /\ NanoLimit \in Nat \ {0} /\ 2 * NanoLimit \in Nat \ {0}
        /\ Unit["ns"] = 1 /\ t.ns \in Int
    BY ConversionAssumption
  <1> DEFINE w == 2 * NanoLimit
             n == t.ns + NanoLimit
  <1>2. w \in Nat \ {0} /\ n \in 0 .. w - 1 /\ n = 0 * w + n  BY <1>1
  <1>3. n % w = n
    <2> HIDE DEF n, w
    <2> QED  BY <1>2, DivModUnique
  <1>4. WrapNano(t.ns) = t.ns  BY <1>1, <1>3 DEF WrapNano
  <1> QED  BY <1>1, <1>4 DEF TimeOfTicks, GetTSTicks

\* inferDate gives the day of an instant from 1970 on.  Before, it gives the day
\* after, unless the instant is midnight.
THEOREM DateRoundTrip ==
  ASSUME NEW t, t.ns \in Nat
  PROVE  TimeOfDate(InferDate(t)) = Time(Down(t.ns, Day), 0)
  <1> DEFINE s == Unit["s"]
             k == Day \div s
  <1>1. s \in Nat \ {0} /\ Day \in Nat \ {0} /\ Day % s = 0  BY ConversionAssumption
  <1> HIDE DEF s
  <1>2. k \in Nat \ {0} /\ Day = k * s
    <2>1. k \in Int /\ Day = k * s  BY <1>1, DivMod
    <2> QED  BY <1>1, <2>1
  <1> HIDE DEF k
  <1> DEFINE q == t.ns \div s
             r == t.ns % s
             d == q \div k
             m == q % k
  <1>3. q \in Int /\ r \in 0 .. s - 1 /\ t.ns = q * s + r
    <2>1. t.ns \in Int  OBVIOUS
    <2> QED  BY <1>1, <2>1, DivMod
  <1>4. q >= 0
    <2> HIDE DEF q, r
    <2>1. CASE q < 0
      <3>1. q * s <= (-1) * s  BY <1>1, <1>3, <2>1
      <3> QED  BY <1>1, <1>3, <3>1
    <2> QED  BY <1>3, <2>1
  <1>5. d \in Int /\ m \in 0 .. k - 1 /\ q = d * k + m  BY <1>2, <1>3, DivMod
  <1> HIDE DEF q, r, d, m
  <1>6. t.ns = d * Day + (m * s + r)
    <2>1. q * s = (d * k) * s + m * s  BY <1>1, <1>2, <1>3, <1>5
    <2>2. (d * k) * s = d * Day  BY <1>1, <1>2, <1>5
    <2> QED  BY <1>1, <1>2, <1>3, <1>5, <2>1, <2>2
  <1>7. m * s + r \in 0 .. Day - 1
    <2>1. m * s <= (k - 1) * s /\ m * s >= 0  BY <1>1, <1>2, <1>5
    <2>2. (k - 1) * s = Day - s  BY <1>1, <1>2
    <2> QED  BY <1>1, <1>2, <1>3, <1>5, <2>1, <2>2
  <1>8. t.ns % Day = m * s + r  BY <1>1, <1>5, <1>6, <1>7, DivModUnique
  <1>9. InferDate(t) = d  BY <1>3, <1>4 DEF InferDate, GoDiv, UnixIn, q, d, k, s
  <1> QED  BY <1>1, <1>5, <1>6, <1>7, <1>8, <1>9 DEF TimeOfDate, Down

\* A midnight before 1970 is a whole number of days back, which inferDate counts
\* from the other side.
LEMMA DateOfMidnight ==
  ASSUME NEW t, t.ns \in Int, t.ns < 0, t.ns % Day = 0
  PROVE  TimeOfDate(InferDate(t)) = Time(t.ns, 0)
  <1> DEFINE s == Unit["s"]
             k == Day \div s
             d == t.ns \div Day
  <1>1. s \in Nat \ {0} /\ Day \in Nat \ {0} /\ Day % s = 0  BY ConversionAssumption
  <1> HIDE DEF s
  <1>2. k \in Nat \ {0} /\ Day = k * s
    <2>1. k \in Int /\ Day = k * s  BY <1>1, DivMod
    <2> QED  BY <1>1, <2>1
  <1> HIDE DEF k
  <1>3. d \in Int /\ t.ns = d * Day
    <2>1. d \in Int /\ t.ns = d * Day + (t.ns % Day)  BY <1>1, DivMod
    <2> HIDE DEF d
    <2>2. d * Day \in Int  BY <1>1, <2>1
    <2> QED  BY <2>1, <2>2
  <1> HIDE DEF d
  <1>4. t.ns = (d * k) * s + 0 /\ d * k \in Int  BY <1>1, <1>2, <1>3
  <1>5. t.ns \div s = d * k
    <2> DEFINE q == d * k
    <2>1. q \in Int /\ 0 \in 0 .. s - 1 /\ t.ns = q * s + 0  BY <1>1, <1>4
    <2> HIDE DEF q
    <2>2. t.ns \div s = q  BY <1>1, <2>1, DivModUnique
    <2> QED  BY <2>2 DEF q
  <1>6. d < 0
    <2>1. CASE d >= 0
      <3>1. d * Day >= 0  BY <1>1, <1>3, <2>1
      <3> QED  BY <1>3, <3>1
    <2> QED  BY <1>3, <2>1
  <1>7. d * k < 0 /\ -(d * k) = (-d) * k + 0
    <2>1. d * k <= (-1) * k  BY <1>2, <1>3, <1>6
    <2> QED  BY <1>2, <1>3, <2>1
  <1>8. (-(d * k)) \div k = -d
    <2> DEFINE e == -d
    <2>1. e \in Int /\ 0 \in 0 .. k - 1 /\ -(d * k) = e * k + 0  BY <1>2, <1>3, <1>7
    <2> HIDE DEF e
    <2>2. (e * k + 0) \div k = e  BY <1>2, <2>1, DivModUnique
    <2> QED  BY <2>1, <2>2 DEF e
  <1>9. InferDate(t) = d
    <2>1. InferDate(t) = GoDiv(d * k, k)  BY <1>5 DEF InferDate, UnixIn, k, s
    <2>2. ~ (d * k >= 0)  BY <1>4, <1>7
    <2>3. GoDiv(d * k, k) = -((-(d * k)) \div k)  BY <2>2 DEF GoDiv
    <2> QED  BY <1>3, <1>8, <2>1, <2>3
  <1> QED  BY <1>3, <1>9 DEF TimeOfDate

\* getTimeTicks and the getter: a clock time comes back rounded down to
\* microseconds.
LEMMA ClockRoundTrip ==
  ASSUME NEW v, v.ns \in Int, v.off \in Int
  PROVE  GetTimeTicks(v) * Unit["us"] = Down((v.ns + v.off) % Day, Unit["us"])
  <1>1. Unit["us"] \in Nat \ {0} /\ Day \in Nat \ {0}  BY ConversionAssumption
  <1>2. (v.ns + v.off) % Day \in Int
    <2>1. v.ns + v.off \in Int  OBVIOUS
    <2> QED  BY <1>1, <2>1, DivMod
  <1> QED  BY <1>1, <1>2, DownIsTicks DEF GetTimeTicks

\* A number inside of a DECIMAL's width is stored as it is.
LEMMA DecimalKept ==
  ASSUME NEW limit \in Nat \ {0}, NEW n \in -limit .. limit - 1
  PROVE  ((n + limit) % (2 * limit)) - limit = n
  <1> DEFINE w == 2 * limit
             m == n + limit
  <1>1. w \in Nat \ {0} /\ m \in 0 .. w - 1 /\ m = 0 * w + m  OBVIOUS
  <1>2. m % w = m
    <2> HIDE DEF m, w
    <2> QED  BY <1>1, DivModUnique
  <1> QED  BY <1>2

\* A number in a column of two words is read as it was given, whichever way it went.
LEMMA HugeStored ==
  ASSUME NEW t, t.kind \in {"huge", "hugedecimal", "uhuge"}, NEW v, v.num \in Int,
         t.kind \in {"huge", "hugedecimal"} /\ v.go = "num" => IsInt64(v.num) \/ IsUint64(v.num)
  PROVE  HugeIntToNative(LeafStored(t, v)) = v.num
<1>1. LeafStored(t, v) = HugeIntFromNative(v.num)
  <2>1. CASE t.kind \in {"huge", "hugedecimal"} /\ v.go = "num"
    BY <2>1, HugeOfIntAgrees DEF LeafStored
  <2> QED BY <2>1 DEF LeafStored
<1> QED BY <1>1, HugeRoundTrip

\* setDecimal (vector_setters.go:240-252) stores the digits of a number it takes and
\* never looks at its scale: read back, they are in the column's own, and say what the
\* number said exactly if its digits are the same in that scale.
THEOREM ScaleDropped ==
  ASSUME NEW t, IsType(t), t.kind \in {"decimal", "hugedecimal"}, NEW v, LeafTakes(t, v),
         t.kind = "decimal" => v.num \in -t.limit .. t.limit - 1,
         t.kind = "hugedecimal" =>
           v.num \in Int /\ (v.go = "num" => IsInt64(v.num) \/ IsUint64(v.num))
  PROVE  /\ LeafRead(t, LeafStored(t, v)) = Dec(v.num, t.scale)
         /\ LeafRead(t, LeafStored(t, v)) = LeafMeaning(t, v) <=> Digits(t, v) = v.num
<1>1. LeafRead(t, LeafStored(t, v)) = Dec(v.num, t.scale)
  <2>1. CASE t.kind = "decimal"
    <3>1. LeafStored(t, v) = v.num  BY <2>1, DecimalKept DEF LeafStored, IsType
    <3> QED BY <2>1, <3>1 DEF LeafRead
  <2>2. CASE t.kind = "hugedecimal"
    BY <2>2, HugeStored DEF LeafRead
  <2> QED BY <2>1, <2>2
<1>2. LeafMeaning(t, v) = Dec(Digits(t, v), t.scale)
  BY DEF LeafMeaning
<1> QED BY <1>1, <1>2 DEF Dec

\* The setters and getters of leaf types agree: a leaf column that takes a value in
\* range and of its own scale reads as what it should make of it.  (What setNumeric and
\* setDecimal make of another scale, ScaleDropped says.)
THEOREM LeavesReadBack ==
  ASSUME NEW t, IsType(t), t.kind \in Leaves, NEW v, LeafTakes(t, v) => Convertible(t, v)
  PROVE  LeafReadsBack(t, v)
<1> SUFFICES ASSUME LeafTakes(t, v), Convertible(t, v)
             PROVE  LeafFits(t, v) /\ LeafRead(t, LeafStored(t, v)) = LeafMeaning(t, v)
  BY DEF LeafReadsBack
<1>0. t.kind \in Numbers => Digits(t, v) = v.num
  BY DEF Convertible
<1>1. CASE t.kind = "num"
  BY <1>0, <1>1 DEF LeafFits, LeafRead, LeafStored, LeafMeaning, Numbers
<1>2. CASE t.kind = "decimal"
  <2>1. v.num \in -t.limit .. t.limit - 1 /\ t.limit \in Nat \ {0}
    BY <1>2 DEF Convertible, IsType
  <2>2. LeafStored(t, v) = v.num  BY <1>2, <2>1, DecimalKept DEF LeafStored
  <2> QED BY <1>0, <1>2, <2>2 DEF LeafFits, LeafRead, LeafMeaning, Numbers
<1>3. CASE t.kind \in {"huge", "hugedecimal", "uhuge"}
  <2>1. v.num \in Int  BY <1>3 DEF Convertible
  <2>2. HugeIntToNative(LeafStored(t, v)) = v.num
    BY <1>3, <2>1, HugeStored DEF Convertible
  <2>3. LeafRead(t, LeafStored(t, v)) = LeafMeaning(t, v)
    BY <1>0, <1>3, <2>2 DEF LeafRead, LeafMeaning, Numbers
  <2>4. LeafFits(t, v)
    <3>1. CASE t.kind \in {"huge", "hugedecimal"}
      BY <2>1, <3>1, HugeRoundTrip DEF LeafTakes, LeafFits
    <3>2. CASE t.kind = "uhuge"
      BY <2>1, <3>2, UhugeRange DEF LeafTakes, LeafFits
    <3> QED BY <1>3, <3>1, <3>2
  <2> QED BY <2>3, <2>4
<1>4. CASE t.kind = "bignum"
  BY <1>4 DEF Convertible, LeafReadsBack
<1>5. CASE t.kind = "uuid"
  <2>1. HugeIntToUuid(UuidToHugeInt(v)) = v  BY <1>5, UuidRoundTrip DEF Convertible
  <2> QED BY <1>5, <2>1 DEF LeafFits, LeafRead, LeafStored, LeafMeaning
<1>6. CASE t.kind = "timestamp"
  <2>1. t.unit \in {"ns", "us", "ms", "s"}  BY <1>6, ConversionAssumption DEF IsType
  <2>2. TimeOfTicks(t.unit, GetTSTicks(t.unit, v)) = Time(Down(v.ns, Unit[t.unit]), 0)
    <3>1. CASE t.unit = "ns"
      <4>1. v.ns \in -NanoLimit .. NanoLimit - 1  BY <1>6, <3>1 DEF Convertible
      <4>2. NanoLimit \in Nat \ {0} /\ Unit["ns"] = 1  BY ConversionAssumption
      <4>3. v.ns \in Int  BY <4>1, <4>2
      <4>4. Down(v.ns, 1) = v.ns  BY <4>3 DEF Down
      <4> QED BY <3>1, <4>1, <4>2, <4>4, NanoRoundTrip
    <3>2. CASE t.unit # "ns"
      <4>1. v.ns \in Int  BY <1>6, <3>2 DEF Convertible
      <4> QED BY <2>1, <3>2, <4>1, TimestampRoundTrip
    <3> QED BY <3>1, <3>2
  <2> QED BY <1>6, <2>2 DEF LeafFits, LeafRead, LeafStored, LeafMeaning
<1>7. CASE t.kind = "date"
  <2>1. v.ns \in Int /\ (v.ns >= 0 \/ v.ns % Day = 0)  BY <1>7 DEF Convertible
  <2>2. TimeOfDate(InferDate(v)) = Time(Down(v.ns, Day), 0)
    <3>1. CASE v.ns >= 0
      BY <2>1, <3>1, DateRoundTrip
    <3>2. CASE v.ns < 0
      <4>1. Down(v.ns, Day) = v.ns  BY <2>1, <3>2 DEF Down
      <4> QED BY <2>1, <3>2, <4>1, DateOfMidnight
    <3> QED BY <2>1, <3>1, <3>2
  <2> QED BY <1>7, <2>2 DEF LeafFits, LeafRead, LeafStored, LeafMeaning
<1>8. CASE t.kind \in {"time", "timetz"}
  <2>1. v.ns \in Int /\ v.off \in Int  BY <1>8 DEF Convertible
  <2>2. GetTimeTicks(v) * Unit["us"] = Down((v.ns + v.off) % Day, Unit["us"])
    BY <2>1, ClockRoundTrip
  <2> QED BY <1>8, <2>2 DEF LeafFits, LeafRead, LeafStored, LeafMeaning
<1> QED BY <1>1, <1>2, <1>3, <1>4, <1>5, <1>6, <1>7, <1>8 DEF Leaves

-----------------------------------------------------------------------------
CONSTANT Clean(_, _)

\* Every type that occurs in a chunk.
AnyType == UNION {AllTypes(s) : s \in Chunks}

\* A vector is a record with these fields.
IsRecord(w) == w = [type |-> w.type, data |-> w.data, null |-> w.null, size |-> w.size,
                    fresh |-> w.fresh, kids |-> w.kids]

\* What the recursion descends along: the children of a vector have the types its
\* own type is made of, whose depth is smaller.
IsVector(vec) ==
  /\ IsRecord(vec) /\ vec.type \in AnyType /\ DOMAIN vec.kids = DOMAIN vec.type.kids
  /\ \A i \in DOMAIN vec.kids : IsRecord(vec.kids[i]) /\ vec.kids[i].type = vec.type.kids[i]

\* The rows of the children that make up a row of a vector; of a list, which may
\* take any of them, all that are in use.
Places(vec, row) ==
  CASE vec.type.kind = "array" -> {First(vec, row) + i - 1 : i \in 1..vec.type.length}
    [] vec.type.kind \in {"struct", "union"} -> {row}
    [] vec.type.kind \in {"list", "map"} -> 0..(vec.size - 1)
    [] OTHER -> {}

\* A row of which no part was set to NULL, or written, since it was new.
CleanDef(vec, row) ==
  /\ row \notin vec.null
  /\ vec.type.kind \in {"array", "struct", "union"} =>
       \A i \in DOMAIN vec.kids : \A e \in Places(vec, row) : Clean(vec.kids[i], e)

\* What the code keeps true of a vector: its children have a row for each of its
\* rows, a list's child has room for what the lists hold, and the rows of the
\* child that no list uses yet are clean.
LocallyFormed(s, w) ==
  /\ w = [type |-> w.type, data |-> w.data, null |-> w.null, size |-> w.size,
          fresh |-> w.fresh, kids |-> w.kids]
  /\ w.type \in AllTypes(s)
  /\ w.kids = [i \in DOMAIN w.type.kids |-> w.kids[i]]
  /\ w.data = [r \in 0..(Rows(w) - 1) |-> w.data[r]] /\ Rows(w) \in Nat
  /\ w.null \subseteq DOMAIN w.data /\ w.size \in Nat
  /\ \A i \in DOMAIN w.kids :
       /\ w.kids[i].type = w.type.kids[i]
       /\ IF w.type.kind \in {"list", "map"}
            THEN /\ Rows(w.kids[i]) >= Capacity /\ Rows(w.kids[i]) >= w.size
                 /\ \A e \in DOMAIN w.kids[i].data : e >= w.size => Clean(w.kids[i], e)
            ELSE Rows(w.kids[i]) = KidRows(w.type, Rows(w))

\* Every vector of the tree is.
Formed(s, vec) == \A w \in Tree(vec) : LocallyFormed(s, w)

\* Writes to the children of a vector that lie inside of them.
AreWrites(s, vec, ws) ==
  /\ ws \in Seq([kid : DOMAIN vec.kids, row : Nat, val : AllValues(s)])
  /\ \A j \in DOMAIN ws :
       /\ ws[j].row \in DOMAIN vec.kids[ws[j].kid].data
       /\ vec.type.kind \in {"list", "map"} => ws[j].row < vec.size

\* The equations: of the functions on types,
OfTypes ==
  \A t \in AnyType :
    /\ \A rows : NewVector(t, rows) = NewVectorDef(t, rows)
    /\ \A v : /\ Takes(t, v) <=> TakesDef(t, v)
              /\ Takes(t, v) => Meaning(t, v) = MeaningDef(t, v)

\* of those on vectors, along their types (the tag of a row that is read must be
\* one of a member),
OfVectors ==
  \A vec : IsVector(vec) =>
    /\ ResetChildData(vec) = ResetChildDataDef(vec)
    /\ \A n : /\ Grow(vec, n) = GrowDef(vec, n)
              /\ Shrink(vec, n) = ShrinkDef(vec, n)
              /\ SetNull(vec, n) = SetNullDef(vec, n)
              /\ Clean(vec, n) <=> CleanDef(vec, n)
              /\ (vec.type.kind = "union" /\ n \notin vec.null => Tag(vec, n) \in Members(vec)) =>
                   Get(vec, n) = GetDef(vec, n)

\* of writing, where setFn is called inside of a well formed vector,
OfWrites ==
  \A s \in Chunks : \A vec : Formed(s, vec) =>
    /\ \A row \in DOMAIN vec.data : \A v \in AllValues(s) :
         /\ Set(vec, row, v) = SetDef(vec, row, v)
         /\ vec.type.kind = "union" =>
              \A i \in Nat \ {0} : FirstMatch(vec, row, v, i) = FirstMatchDef(vec, row, v, i)
    /\ \A ws : AreWrites(s, vec, ws) => WriteKids(vec, ws) = WriteKidsDef(vec, ws)

\* and of what the properties are stated with.
OfParts ==
  /\ \A vec : Tree(vec) = TreeDef(vec) /\ \A row : Parts(vec, row) = PartsDef(vec, row)
  /\ \A a, b : LostToNull(a, b) <=> LostToNullDef(a, b)

\* All of them: what the theorems below assume of the constants.
Recursion == OfTypes /\ OfVectors /\ OfWrites /\ OfParts

-----------------------------------------------------------------------------
\* A tree is formed when its root is and the trees below it are.
LEMMA FormedEq ==
  ASSUME Recursion, NEW s, NEW vec
  PROVE  Formed(s, vec) <=> LocallyFormed(s, vec) /\ \A i \in DOMAIN vec.kids : Formed(s, vec.kids[i])
<1>1. Tree(vec) = {vec} \cup UNION {Tree(vec.kids[i]) : i \in DOMAIN vec.kids}
  BY DEF Recursion, OfParts, TreeDef
<1> QED BY <1>1 DEF Formed

\* What is assumed of types, in the form in which it is used.
LEMMA TypeFacts ==
  ASSUME NEW s \in Chunks, NEW t \in AllTypes(s)
  PROVE  /\ IsType(t) /\ t \in AnyType /\ t.kids \in Seq(AllTypes(s)) /\ Depth(t) \in Nat
         /\ DOMAIN t.kids = 1..Len(t.kids) /\ Len(t.kids) \in Nat
         /\ \A i \in DOMAIN t.kids : t.kids[i] \in AllTypes(s) /\ Depth(t.kids[i]) < Depth(t)
<1>1. t.kids \in Seq(AllTypes(s))  BY TypesAssumption
<1> QED BY <1>1, TypesAssumption DEF AnyType

\* The number of rows of a vector.
LEMMA RowsIs ==
  ASSUME NEW vec, NEW n \in Nat, DOMAIN vec.data = 0..(n - 1)
  PROVE  Rows(vec) = n
BY FS_Interval DEF Rows

\* The equations hold of well formed vectors.
LEMMA FormedIsVector ==
  ASSUME NEW s \in Chunks, NEW vec, LocallyFormed(s, vec),
         \A i \in DOMAIN vec.kids : LocallyFormed(s, vec.kids[i])
  PROVE  IsVector(vec)
BY TypeFacts DEF LocallyFormed, IsVector, IsRecord

\* The equations of a vector.
LEMMA VectorEq ==
  ASSUME Recursion, NEW vec, IsVector(vec), NEW n
  PROVE  /\ ResetChildData(vec) = ResetChildDataDef(vec)
         /\ Grow(vec, n) = GrowDef(vec, n) /\ Shrink(vec, n) = ShrinkDef(vec, n)
         /\ SetNull(vec, n) = SetNullDef(vec, n) /\ (Clean(vec, n) <=> CleanDef(vec, n))
         /\ (vec.type.kind = "union" /\ n \notin vec.null => Tag(vec, n) \in Members(vec)) =>
                   Get(vec, n) = GetDef(vec, n)
BY DEF Recursion, OfVectors

-----------------------------------------------------------------------------
\* A set of numbers has a least one.
LEMMA LeastNat ==
  ASSUME NEW B, B \subseteq Nat, B # {}
  PROVE  \E m \in B : \A d \in B : m <= d
<1> DEFINE less == {ss \in Nat \X Nat : ss[1] < ss[2]}
<1>1. IsWellFoundedOn(less, Nat)  BY NatLessThanWellFounded, Zenon DEF OpToRel
<1>2. PICK x \in B : \A y \in B : <<y, x>> \notin less
  <2> HIDE DEF less
  <2> QED BY <1>1, WFMin
<1>3. ASSUME NEW y \in B PROVE x <= y
  <2>1. ~ (y < x)  BY <1>2
  <2> QED BY <2>1
<1> QED BY <1>3

\* What holds of a type when it holds of the types it is made of holds of all.
LEMMA TypeInduction ==
  ASSUME NEW s \in Chunks, NEW G,
         \A t \in AllTypes(s) : (\A i \in DOMAIN t.kids : t.kids[i] \in G) => t \in G
  PROVE  \A t \in AllTypes(s) : t \in G
<1> DEFINE B == {Depth(t) : t \in {u \in AllTypes(s) : u \notin G}}
<1>1. SUFFICES ASSUME B # {} PROVE FALSE  OBVIOUS
<1>2. B \subseteq Nat  BY TypeFacts
<1>3. PICK m \in B : \A d \in B : m <= d
  <2> HIDE DEF B
  <2> QED BY <1>1, <1>2, LeastNat
<1>4. PICK t \in AllTypes(s) : t \notin G /\ m = Depth(t)  BY <1>3
<1>5. ASSUME NEW i \in DOMAIN t.kids PROVE t.kids[i] \in G
  <2>1. t.kids[i] \in AllTypes(s) /\ Depth(t.kids[i]) < Depth(t) /\ Depth(t.kids[i]) \in Nat /\ Depth(t) \in Nat
    BY TypeFacts
  <2>2. CASE t.kids[i] \notin G
    <3>1. Depth(t.kids[i]) \in B  BY <2>1, <2>2
    <3> QED BY <3>1, <2>1, <1>3, <1>4
  <2> QED BY <2>2
<1> QED BY <1>4, <1>5

\* The rows of two places of an ARRAY do not meet.
LEMMA ArrayPlaces ==
  ASSUME NEW n \in Nat, NEW r \in Nat, NEW i \in 1..n
  PROVE  /\ r * n + i - 1 \in Nat
         /\ \A m \in Nat : r < m => r * n + i - 1 < m * n
         /\ \A q \in Nat : \A j \in 1..n : q * n + j - 1 = r * n + i - 1 => q = r
<1>1. r * n \in Nat  OBVIOUS
<1>2. ASSUME NEW m \in Nat, NEW q \in Nat, q < m PROVE q * n + n <= m * n
  <2>1. PICK k \in Nat : m = q + 1 + k  
    <3>1. m - q - 1 \in Nat /\ m = q + 1 + (m - q - 1)  BY <1>2
    <3> QED BY <3>1
  <2>2. m * n = q * n + n + k * n  BY <2>1
  <2>3. k * n \in Nat /\ q * n \in Nat OBVIOUS
  <2> QED BY <2>2, <2>3
<1>3. ASSUME NEW m \in Nat, r < m PROVE r * n + i - 1 < m * n
  <2>1. r * n + n <= m * n  BY <1>2, <1>3
  <2>2. m * n \in Nat  OBVIOUS
  <2> QED BY <1>1, <2>1, <2>2
<1>4. ASSUME NEW q \in Nat, NEW j \in 1..n, q * n + j - 1 = r * n + i - 1 PROVE q = r
  <2>0. q * n \in Nat  OBVIOUS
  <2>1. CASE q < r
    <3>1. q * n + n <= r * n  BY <1>2, <2>1
    <3> QED BY <3>1, <1>4, <1>1, <2>0
  <2>2. CASE r < q
    <3>1. r * n + n <= q * n  BY <1>2, <2>2
    <3> QED BY <3>1, <1>4, <1>1, <2>0
  <2> QED BY <2>1, <2>2
<1> QED BY <1>1, <1>3, <1>4

\* Every vector of the tree has current addresses.
Fresh(vec) == \A w \in Tree(vec) : w.fresh

\* A tree is fresh when its root is and the trees below it are.
LEMMA FreshEq ==
  ASSUME Recursion, NEW vec
  PROVE  Fresh(vec) <=> vec.fresh /\ \A i \in DOMAIN vec.kids : Fresh(vec.kids[i])
<1>1. Tree(vec) = {vec} \cup UNION {Tree(vec.kids[i]) : i \in DOMAIN vec.kids}
  BY DEF Recursion, OfParts, TreeDef
<1> QED BY <1>1 DEF Fresh

\* A vector as it was created: of its type and size, and clean.
AsNew(s, vec, t, rows) ==
  /\ Formed(s, vec) /\ vec.type = t /\ Rows(vec) = rows
  /\ \A r \in 0..(rows - 1) : Clean(vec, r)

\* The size of a child is a number.
LEMMA KidRowsIsNat ==
  ASSUME NEW s \in Chunks, NEW t \in AllTypes(s), NEW rows \in Nat
  PROVE  KidRows(t, rows) \in Nat
<1>1. t.kind = "array" => t.length \in Nat  BY TypeFacts DEF IsType
<1> QED BY <1>1, CapacityAssumption DEF KidRows

\* The rows of a vector are clean when its children's are.
LEMMA CleanRow ==
  ASSUME Recursion, NEW s \in Chunks, NEW vec, LocallyFormed(s, vec),
         \A i \in DOMAIN vec.kids : LocallyFormed(s, vec.kids[i]),
         NEW r \in 0..(Rows(vec) - 1), r \notin vec.null,
         \A i \in DOMAIN vec.kids : \A e \in 0..(Rows(vec.kids[i]) - 1) :
           vec.type.kind \in {"array", "struct", "union"} => Clean(vec.kids[i], e)
  PROVE  Clean(vec, r)
<1>0. IsType(vec.type)  BY TypeFacts DEF LocallyFormed
<1>1. ASSUME vec.type.kind \in {"array", "struct", "union"},
             NEW i \in DOMAIN vec.kids, NEW e \in Places(vec, r)
      PROVE  Clean(vec.kids[i], e)
  <2>1. CASE vec.type.kind = "array"
    <3>1. Rows(vec.kids[i]) = Rows(vec) * vec.type.length /\ vec.type.length \in Nat /\ Rows(vec) \in Nat
      BY <2>1, <1>0 DEF LocallyFormed, KidRows, IsType
    <3>2. PICK j \in 1..vec.type.length : e = r * vec.type.length + j - 1
      BY <2>1, <1>1 DEF Places, First
    <3>3. e \in Nat /\ e < Rows(vec.kids[i])
      BY <3>1, <3>2, ArrayPlaces
    <3>4. e \in 0..(Rows(vec.kids[i]) - 1)
      <4>1. Rows(vec.kids[i]) \in Nat  BY <3>1
      <4> QED BY <3>3, <4>1
    <3> QED BY <3>4, <1>1
  <2>2. CASE vec.type.kind \in {"struct", "union"}
    <3>1. Rows(vec.kids[i]) = Rows(vec) /\ e = r
      BY <2>2, <1>1 DEF LocallyFormed, KidRows, Places
    <3> QED BY <3>1, <1>1
  <2> QED BY <1>1, <2>1, <2>2
<1>2. Clean(vec, r) <=> CleanDef(vec, r)  BY FormedIsVector, VectorEq
<1> QED BY <1>1, <1>2 DEF CleanDef

\* vector.init and DuckDB give well formed, clean and fresh vectors.
LEMMA NewVectorAsNew ==
  ASSUME Recursion, NEW s \in Chunks
  PROVE  \A t \in AllTypes(s), rows \in Nat :
           AsNew(s, NewVector(t, rows), t, rows) /\ Fresh(NewVector(t, rows))
<1> DEFINE G == {t \in AllTypes(s) : \A rows \in Nat :
                   AsNew(s, NewVector(t, rows), t, rows) /\ Fresh(NewVector(t, rows))}
<1>1. ASSUME NEW t \in AllTypes(s), \A i \in DOMAIN t.kids : t.kids[i] \in G, NEW rows \in Nat
      PROVE  AsNew(s, NewVector(t, rows), t, rows) /\ Fresh(NewVector(t, rows))
  <2> DEFINE n == NewVector(t, rows)
  <2>1. n = NewVectorDef(t, rows)
    <3>1. t \in AnyType  BY TypeFacts
    <3> QED BY <3>1 DEF Recursion, OfTypes
  <2>2. /\ n.type = t /\ n.data = [r \in 0..(rows - 1) |-> Zero(t)] /\ n.null = {} /\ n.size = 0
        /\ n.fresh = TRUE /\ n.kids = [i \in DOMAIN t.kids |-> NewVector(t.kids[i], KidRows(t, rows))]
        /\ n = [type |-> n.type, data |-> n.data, null |-> n.null, size |-> n.size,
                fresh |-> n.fresh, kids |-> n.kids]
    BY <2>1 DEF NewVectorDef
  <2> HIDE DEF n
  <2>3. Rows(n) = rows /\ KidRows(t, rows) \in Nat  BY <2>2, RowsIs, KidRowsIsNat
  <2>4. ASSUME NEW i \in DOMAIN n.kids
        PROVE  AsNew(s, n.kids[i], t.kids[i], KidRows(t, rows)) /\ Fresh(n.kids[i])
    BY <1>1, <2>2, <2>3, <2>4
  <2>5. ASSUME NEW i \in DOMAIN n.kids
        PROVE  /\ LocallyFormed(s, n.kids[i])
               /\ n.kids[i].type = t.kids[i] /\ Rows(n.kids[i]) = KidRows(t, rows)
               /\ \A e \in DOMAIN n.kids[i].data : Clean(n.kids[i], e)
    <3>1. LocallyFormed(s, n.kids[i])  BY <2>4, FormedEq DEF AsNew
    <3>2. DOMAIN n.kids[i].data = 0..(Rows(n.kids[i]) - 1)  BY <3>1 DEF LocallyFormed
    <3> QED BY <2>4, <3>1, <3>2 DEF AsNew
  <2>6. LocallyFormed(s, n)
    <3>1. t.kind \in {"list", "map"} => KidRows(t, rows) = Capacity  BY DEF KidRows
    <3>2. /\ n = [type |-> n.type, data |-> n.data, null |-> n.null, size |-> n.size,
                  fresh |-> n.fresh, kids |-> n.kids]
          /\ n.type \in AllTypes(s) /\ n.null \subseteq DOMAIN n.data /\ n.size \in Nat
          /\ n.kids = [i \in DOMAIN n.type.kids |-> n.kids[i]]
          /\ n.data = [r \in 0..(Rows(n) - 1) |-> n.data[r]] /\ Rows(n) \in Nat
      BY <2>2, <2>3
    <3>3. ASSUME NEW i \in DOMAIN n.kids
          PROVE  /\ n.kids[i].type = n.type.kids[i]
                 /\ IF n.type.kind \in {"list", "map"}
                      THEN /\ Rows(n.kids[i]) >= Capacity /\ Rows(n.kids[i]) >= n.size
                           /\ \A e \in DOMAIN n.kids[i].data : e >= n.size => Clean(n.kids[i], e)
                      ELSE Rows(n.kids[i]) = KidRows(n.type, Rows(n))
      <4>1. n.type = t /\ n.size = 0 /\ Rows(n) = rows /\ i \in DOMAIN t.kids  BY <2>2, <2>3, <3>3
      <4>2. /\ n.kids[i].type = t.kids[i] /\ Rows(n.kids[i]) = KidRows(t, rows)
            /\ \A e \in DOMAIN n.kids[i].data : Clean(n.kids[i], e)
        BY <2>5, <3>3
      <4>3. CASE t.kind \in {"list", "map"}
        BY <4>1, <4>2, <4>3, <3>1, CapacityAssumption
      <4>4. CASE t.kind \notin {"list", "map"}
        BY <4>1, <4>2, <4>4
      <4> QED BY <4>3, <4>4
    <3> QED BY <3>2, <3>3 DEF LocallyFormed
  <2>7. Formed(s, n) /\ Fresh(n)
    BY <2>2, <2>4, <2>6, FormedEq, FreshEq DEF AsNew
  <2>8. ASSUME NEW r \in 0..(rows - 1) PROVE Clean(n, r)
    <3>1. \A i \in DOMAIN n.kids : \A e \in 0..(Rows(n.kids[i]) - 1) : Clean(n.kids[i], e)
      BY <2>4, <2>5 DEF AsNew
    <3> QED BY <3>1, <2>2, <2>3, <2>5, <2>6, CleanRow
  <2> QED BY <2>2, <2>3, <2>7, <2>8 DEF AsNew, n
<1>2. \A t \in AllTypes(s) : t \in G
  <2>1. \A t \in AllTypes(s) : (\A i \in DOMAIN t.kids : t.kids[i] \in G) => t \in G  BY <1>1
  <2> HIDE DEF G
  <2> QED BY <2>1, TypeInduction
<1> QED BY <1>2

-----------------------------------------------------------------------------
\* What ListsInBounds and OneMember say of one vector's row.
Here(vec, row) ==
  /\ vec.type.kind \in {"list", "map"} =>
       \E o, n \in Nat : vec.data[row] = <<o, n>> /\ o + n <= vec.size
  /\ vec.type.kind = "union" =>
       /\ Tag(vec, row) \in Members(vec)
       /\ \A j \in Members(vec) : j # Tag(vec, row) => row \in vec.kids[j + 1].null

\* And of all the parts of it.
Sound(vec, row) == \A p \in Parts(vec, row) : Here(p.vec, p.row)

\* A row is sound when it is NULL, or in order itself and its parts are sound.
LEMMA SoundEq ==
  ASSUME Recursion, NEW vec, NEW row
  PROVE  /\ row \in vec.null => Sound(vec, row)
         /\ row \notin vec.null =>
              (Sound(vec, row) <=> Here(vec, row) /\ \A b \in Below(vec, row) : Sound(b.kid, b.row))
<1>1. Parts(vec, row) = IF row \in vec.null THEN {}
        ELSE {[vec |-> vec, row |-> row]} \cup UNION {Parts(b.kid, b.row) : b \in Below(vec, row)}
  BY DEF Recursion, OfParts, PartsDef
<1>2. row \in vec.null => Sound(vec, row)  BY <1>1 DEF Sound
<1>3. CASE row \notin vec.null
  <2> DEFINE root == [vec |-> vec, row |-> row]
             below == UNION {Parts(b.kid, b.row) : b \in Below(vec, row)}
  <2>1. Parts(vec, row) = {root} \cup below  BY <1>1, <1>3
  <2>2. root.vec = vec /\ root.row = row  OBVIOUS
  <2>3. (\A p \in below : Here(p.vec, p.row)) <=> \A b \in Below(vec, row) : Sound(b.kid, b.row)
    BY DEF Sound
  <2> HIDE DEF root, below
  <2>4. Sound(vec, row) <=> Here(root.vec, root.row) /\ \A p \in below : Here(p.vec, p.row)
    BY <2>1 DEF Sound
  <2> QED BY <1>3, <2>2, <2>3, <2>4
<1> QED BY <1>2, <1>3

\* A quantifier over the rows that exist.
LEMMA BelowAll ==
  ASSUME NEW all
  PROVE  (\A b \in {x \in all : x.row \in DOMAIN x.kid.data} : Sound(b.kid, b.row))
           <=> \A x \in all : x.row \in DOMAIN x.kid.data => Sound(x.kid, x.row)
OBVIOUS

\* The parts of a row of a list, a map or an array are its elements.
LEMMA SoundElements ==
  ASSUME Recursion, NEW vec, NEW row, row \notin vec.null, vec.type.kind \in {"list", "map", "array"}
  PROVE  Sound(vec, row) <=>
           /\ Here(vec, row)
           /\ \A i \in 1..Count(vec, row) :
                LET e == First(vec, row) + i - 1
                IN e \in DOMAIN vec.kids[1].data => Sound(vec.kids[1], e)
<1> DEFINE all == {[kid |-> vec.kids[1], row |-> First(vec, row) + i - 1] : i \in 1..Count(vec, row)}
<1>1. Below(vec, row) = {b \in all : b.row \in DOMAIN b.kid.data}  BY DEF Below
<1>2. (\A b \in Below(vec, row) : Sound(b.kid, b.row)) <=>
        \A i \in 1..Count(vec, row) : LET e == First(vec, row) + i - 1
                IN e \in DOMAIN vec.kids[1].data => Sound(vec.kids[1], e)
  <2>1. (\A b \in Below(vec, row) : Sound(b.kid, b.row))
          <=> \A x \in all : x.row \in DOMAIN x.kid.data => Sound(x.kid, x.row)
    <3> HIDE DEF all
    <3> QED BY <1>1, BelowAll
  <2>2. \A i \in 1..Count(vec, row) : /\ [kid |-> vec.kids[1], row |-> First(vec, row) + i - 1] \in all
                       /\ [kid |-> vec.kids[1], row |-> First(vec, row) + i - 1].kid = vec.kids[1]
                       /\ [kid |-> vec.kids[1], row |-> First(vec, row) + i - 1].row = First(vec, row) + i - 1
    OBVIOUS
  <2>3. \A x \in all : \E i \in 1..Count(vec, row) : x = [kid |-> vec.kids[1], row |-> First(vec, row) + i - 1]
    OBVIOUS
  <2> HIDE DEF all
  <2> QED BY <2>1, <2>2, <2>3
<1> QED BY <1>2, SoundEq

\* Those of a struct are its fields.
LEMMA SoundStruct ==
  ASSUME Recursion, NEW vec, NEW row, row \notin vec.null, vec.type.kind = "struct"
  PROVE  Sound(vec, row) <=>
           \A i \in DOMAIN vec.kids : row \in DOMAIN vec.kids[i].data => Sound(vec.kids[i], row)
<1> DEFINE all == {[kid |-> vec.kids[i], row |-> row] : i \in DOMAIN vec.kids}
<1>1. Below(vec, row) = {b \in all : b.row \in DOMAIN b.kid.data}  BY DEF Below
<1>2. (\A b \in Below(vec, row) : Sound(b.kid, b.row)) <=>
        \A i \in DOMAIN vec.kids : row \in DOMAIN vec.kids[i].data => Sound(vec.kids[i], row)
  <2>1. (\A b \in Below(vec, row) : Sound(b.kid, b.row))
          <=> \A x \in all : x.row \in DOMAIN x.kid.data => Sound(x.kid, x.row)
    <3> HIDE DEF all
    <3> QED BY <1>1, BelowAll
  <2>2. \A i \in DOMAIN vec.kids : /\ [kid |-> vec.kids[i], row |-> row] \in all
                       /\ [kid |-> vec.kids[i], row |-> row].kid = vec.kids[i]
                       /\ [kid |-> vec.kids[i], row |-> row].row = row
    OBVIOUS
  <2>3. \A x \in all : \E i \in DOMAIN vec.kids : x = [kid |-> vec.kids[i], row |-> row]
    OBVIOUS
  <2> HIDE DEF all
  <2> QED BY <2>1, <2>2, <2>3
<1> QED BY <1>2, SoundEq DEF Here

\* That of a union is the member that its tag names.
LEMMA SoundUnion ==
  ASSUME Recursion, NEW vec, NEW row, row \notin vec.null, vec.type.kind = "union"
  PROVE  Sound(vec, row) <=>
           /\ Here(vec, row)
           /\ LET kid == vec.kids[Tag(vec, row) + 1] IN row \in DOMAIN kid.data => Sound(kid, row)
<1> DEFINE all == {[kid |-> vec.kids[Tag(vec, row) + 1], row |-> row]}
<1>1. Below(vec, row) = {b \in all : b.row \in DOMAIN b.kid.data}  BY DEF Below
<1>2. (\A b \in Below(vec, row) : Sound(b.kid, b.row)) <=>
        LET kid == vec.kids[Tag(vec, row) + 1] IN row \in DOMAIN kid.data => Sound(kid, row)
  <2>1. (\A b \in Below(vec, row) : Sound(b.kid, b.row))
          <=> \A x \in all : x.row \in DOMAIN x.kid.data => Sound(x.kid, x.row)
    <3> HIDE DEF all
    <3> QED BY <1>1, BelowAll
  <2> QED BY <2>1
<1> QED BY <1>2, SoundEq

\* The other types have no parts.
LEMMA SoundLeaf ==
  ASSUME Recursion, NEW vec, NEW row, vec.type.kind \notin Nested
  PROVE  Sound(vec, row)
<1>1. Below(vec, row) = {}  BY DEF Below, Nested
<1> QED BY <1>1, SoundEq DEF Here, Nested

\* Row r of b is what it is in a: it reads the same and is as sound and as clean.
Keeps(a, b, r) ==
  /\ b.data[r] = a.data[r] /\ (r \in b.null <=> r \in a.null)
  /\ Sound(a, r) => Sound(b, r) /\ Get(b, r) = Get(a, r)
  /\ Clean(a, r) => Clean(b, r)

\* Keeping is transitive,
LEMMA KeepsTrans ==
  ASSUME NEW a, NEW b, NEW c, NEW r, Keeps(a, b, r), Keeps(b, c, r)
  PROVE  Keeps(a, c, r)
BY DEF Keeps

\* and a vector keeps its own rows.
LEMMA KeepsSelf == \A a, r : Keeps(a, a, r)
BY DEF Keeps

\* What a well formed vector is, one level down.
LEMMA FormedFacts ==
  ASSUME Recursion, NEW s \in Chunks, NEW vec, Formed(s, vec)
  PROVE  /\ LocallyFormed(s, vec) /\ IsVector(vec) /\ IsType(vec.type) /\ Rows(vec) \in Nat
         /\ DOMAIN vec.data = 0..(Rows(vec) - 1)
         /\ DOMAIN vec.kids = 1..Len(vec.type.kids) /\ Len(vec.type.kids) \in Nat
         /\ \A i \in DOMAIN vec.kids :
              /\ Formed(s, vec.kids[i]) /\ vec.kids[i].type = vec.type.kids[i]
              /\ Rows(vec.kids[i]) \in Nat
              /\ DOMAIN vec.kids[i].data = 0..(Rows(vec.kids[i]) - 1)
<1>1. LocallyFormed(s, vec) /\ \A i \in DOMAIN vec.kids : Formed(s, vec.kids[i])  BY FormedEq
<1>2. \A i \in DOMAIN vec.kids : LocallyFormed(s, vec.kids[i])  BY <1>1, FormedEq
<1>3. IsType(vec.type) /\ DOMAIN vec.type.kids = 1..Len(vec.type.kids) /\ Len(vec.type.kids) \in Nat
  BY <1>1, TypeFacts DEF LocallyFormed
<1>4. DOMAIN vec.kids = DOMAIN vec.type.kids /\ Rows(vec) \in Nat /\ DOMAIN vec.data = 0..(Rows(vec) - 1)
      /\ \A i \in DOMAIN vec.kids : vec.kids[i].type = vec.type.kids[i]
  BY <1>1 DEF LocallyFormed
<1>5. \A i \in DOMAIN vec.kids : /\ Rows(vec.kids[i]) \in Nat
                                /\ DOMAIN vec.kids[i].data = 0..(Rows(vec.kids[i]) - 1)
  BY <1>2 DEF LocallyFormed
<1>6. IsVector(vec)  BY <1>1, <1>2, FormedIsVector
<1> QED BY <1>1, <1>3, <1>4, <1>5, <1>6

\* Where a row's elements are.
LEMMA ElementPlaces ==
  ASSUME Recursion, NEW s \in Chunks, NEW vec, Formed(s, vec), NEW r \in 0..(Rows(vec) - 1),
         vec.type.kind \in {"list", "map", "array"}, Here(vec, r)
  PROVE  /\ 1 \in DOMAIN vec.kids /\ Count(vec, r) \in Nat
         /\ \A i \in 1..Count(vec, r) : /\ First(vec, r) + i - 1 \in Places(vec, r)
                                        /\ First(vec, r) + i - 1 \in DOMAIN vec.kids[1].data
<1>1. IsType(vec.type) /\ 1 \in DOMAIN vec.kids  BY FormedFacts DEF IsType
<1>2. DOMAIN vec.kids[1].data = 0..(Rows(vec.kids[1]) - 1)  BY <1>1, FormedFacts
<1>3. CASE vec.type.kind = "array"
  <2>1. Rows(vec) \in Nat /\ vec.type.length \in Nat /\ Rows(vec.kids[1]) = Rows(vec) * vec.type.length
    BY <1>1, <1>3, FormedFacts DEF LocallyFormed, KidRows, IsType
  <2>2. ASSUME NEW i \in 1..Count(vec, r)
        PROVE  First(vec, r) + i - 1 \in Places(vec, r) /\ First(vec, r) + i - 1 \in 0..(Rows(vec.kids[1]) - 1)
    <3>1. i \in 1..vec.type.length /\ First(vec, r) = r * vec.type.length  BY <1>3, <2>2 DEF Count, First
    <3>2. r * vec.type.length + i - 1 \in Nat /\ r * vec.type.length + i - 1 < Rows(vec) * vec.type.length
      BY <2>1, <3>1, ArrayPlaces
    <3>3. Rows(vec) * vec.type.length \in Nat  BY <2>1
    <3> QED BY <1>3, <2>1, <3>1, <3>2, <3>3 DEF Places
  <2>3. Count(vec, r) \in Nat  BY <1>3, <2>1 DEF Count
  <2> QED BY <1>1, <1>2, <2>2, <2>3
<1>4. CASE vec.type.kind \in {"list", "map"}
  <2>1. PICK o \in Nat, n \in Nat : vec.data[r] = <<o, n>> /\ o + n <= vec.size  BY <1>4 DEF Here
  <2>2. First(vec, r) = o /\ Count(vec, r) = n  BY <1>4, <2>1 DEF First, Count
  <2>3. Rows(vec.kids[1]) >= vec.size /\ vec.size \in Nat /\ Rows(vec.kids[1]) \in Nat
    BY <1>1, <1>4, FormedFacts DEF LocallyFormed
  <2>4. Places(vec, r) = 0..(vec.size - 1)  BY <1>4 DEF Places
  <2> QED BY <1>1, <1>2, <2>1, <2>2, <2>3, <2>4
<1> QED BY <1>3, <1>4

-----------------------------------------------------------------------------
\* What getFn reads of the elements of a list, a map or an array.
ReadElements(vec, row) == [i \in 1..Count(vec, row) |-> Get(vec.kids[1], First(vec, row) + i - 1)]

\* getFn, for each kind of type.
LEMMA GetEq ==
  ASSUME Recursion, NEW vec, IsVector(vec), NEW row,
         vec.type.kind = "union" /\ row \notin vec.null => Tag(vec, row) \in Members(vec)
  PROVE  LET k == vec.type.kind  read == ReadElements(vec, row) IN
         /\ row \in vec.null => Get(vec, row) = Nil
         /\ row \notin vec.null =>
              /\ k \in Leaves => Get(vec, row) = LeafRead(vec.type, vec.data[row])
              /\ k = "enum" => Get(vec, row) = Str(vec.type.dict[vec.data[row] + 1])
              /\ k \in {"list", "array"} => Get(vec, row) = Slice(read)
              /\ k = "struct" =>
                   Get(vec, row) = Fields([n \in Range(vec.type.names) |-> Get(Field(vec, n), row)])
              /\ k = "map" =>
                   Get(vec, row) = MapOf(PairsOf(read))
              /\ k = "union" =>
                   Get(vec, row) = Union(Tag(vec, row), Get(vec.kids[Tag(vec, row) + 1], row))
<1>1. Get(vec, row) = GetDef(vec, row)  BY VectorEq
<1>2. CASE row \in vec.null  BY <1>1, <1>2 DEF GetDef
<1>3. ASSUME row \notin vec.null, vec.type.kind \in Leaves
      PROVE  Get(vec, row) = LeafRead(vec.type, vec.data[row])
  BY <1>1, <1>3 DEF GetDef, Leaves
<1>4. ASSUME row \notin vec.null, vec.type.kind = "enum"
      PROVE  Get(vec, row) = Str(vec.type.dict[vec.data[row] + 1])
  BY <1>1, <1>4 DEF GetDef, Leaves
<1>5. ASSUME row \notin vec.null, vec.type.kind \in {"list", "array"}
      PROVE  Get(vec, row) = Slice(ReadElements(vec, row))
  BY <1>1, <1>5 DEF GetDef, Leaves, ReadElements
<1>6. ASSUME row \notin vec.null, vec.type.kind = "struct"
      PROVE  Get(vec, row) = Fields([n \in Range(vec.type.names) |-> Get(Field(vec, n), row)])
  BY <1>1, <1>6 DEF GetDef, Leaves
<1>7. ASSUME row \notin vec.null, vec.type.kind = "map"
      PROVE  Get(vec, row) = MapOf(PairsOf(ReadElements(vec, row)))
  BY <1>1, <1>7 DEF GetDef, Leaves, ReadElements
<1>8. ASSUME row \notin vec.null, vec.type.kind = "union"
      PROVE  Get(vec, row) = Union(Tag(vec, row), Get(vec.kids[Tag(vec, row) + 1], row))
  BY <1>1, <1>8 DEF GetDef, Leaves
<1> QED BY <1>2, <1>3, <1>4, <1>5, <1>6, <1>7, <1>8

\* The names of a struct's fields determine them.
LEMMA FieldIs ==
  ASSUME NEW t, IsType(t), t.kind = "struct"
  PROVE  /\ DOMAIN t.names = 1..Len(t.kids)
         /\ \A n \in Range(t.names) : IndexIn(t.names, n) \in 1..Len(t.kids) /\ t.names[IndexIn(t.names, n)] = n
         /\ \A i \in DOMAIN t.names : IndexIn(t.names, t.names[i]) = i /\ t.names[i] \in Range(t.names)
<1>1. t.names \in Seq(STRING) /\ Len(t.names) = Len(t.kids) /\ IsInjective(t.names)  BY DEF IsType
<1>2. ASSUME NEW n \in Range(t.names)
      PROVE  IndexIn(t.names, n) \in DOMAIN t.names /\ t.names[IndexIn(t.names, n)] = n
  BY <1>2 DEF IndexIn, Range
<1>3. ASSUME NEW i \in DOMAIN t.names PROVE t.names[i] \in Range(t.names) /\ IndexIn(t.names, t.names[i]) = i
  <2>1. t.names[i] \in Range(t.names)  BY DEF Range
  <2> QED BY <2>1, <1>1, <1>2 DEF IsInjective
<1> QED BY <1>1, <1>2, <1>3

\* A row is kept when the rows of the children are that it reads.
LEMMA KidsKeep ==
  ASSUME Recursion, NEW s \in Chunks, NEW a, NEW b, Formed(s, a), Formed(s, b), b.type = a.type,
         NEW r \in 0..(Rows(a) - 1),
         b.data[r] = a.data[r], r \in b.null <=> r \in a.null, a.size <= b.size,
         \A i \in DOMAIN a.kids : \A e \in Places(a, r) :
           e \in DOMAIN a.kids[i].data => e \in DOMAIN b.kids[i].data /\ Keeps(a.kids[i], b.kids[i], e)
  PROVE  Keeps(a, b, r)
<1> DEFINE k == a.type.kind
<1>1. /\ IsVector(a) /\ IsVector(b) /\ IsType(a.type) /\ DOMAIN b.kids = DOMAIN a.kids
      /\ k \in Leaves \cup {"enum"} \cup Nested
      /\ First(b, r) = First(a, r) /\ Count(b, r) = Count(a, r)
      /\ a.size \in Nat /\ b.size \in Nat
  <2>1. IsType(a.type) /\ IsVector(a) /\ IsVector(b) /\ DOMAIN b.kids = DOMAIN a.kids  BY FormedFacts
  <2>2. a.size \in Nat /\ b.size \in Nat  BY FormedFacts DEF LocallyFormed
  <2> QED BY <2>1, <2>2 DEF First, Count, IsType
<1>2. ASSUME r \notin a.null, k \in {"list", "map", "array"}, Sound(a, r)
      PROVE  Sound(b, r) /\ Get(b, r) = Get(a, r)
  <2>1. Here(a, r)  BY <1>2, SoundElements
  <2>2. Here(b, r)
    BY <2>1, <1>1, <1>2 DEF Here
  <2>3. ASSUME NEW i \in 1..Count(a, r)
        PROVE  LET e == First(a, r) + i - 1
               IN Sound(b.kids[1], e) /\ Get(b.kids[1], e) = Get(a.kids[1], e)
    <3> DEFINE e == First(a, r) + i - 1
    <3>1. 1 \in DOMAIN a.kids /\ e \in Places(a, r) /\ e \in DOMAIN a.kids[1].data
      BY <2>1, <1>2, ElementPlaces
    <3>2. Sound(a.kids[1], e)  BY <1>2, <3>1, SoundElements
    <3> QED BY <3>1, <3>2 DEF Keeps
  <2>4. Sound(b, r)  BY <1>1, <1>2, <2>2, <2>3, SoundElements
  <2>5. ReadElements(b, r) = ReadElements(a, r)  BY <1>1, <2>3 DEF ReadElements
  <2>6. Get(b, r) = Get(a, r)
    <3>1. CASE k = "map"
      <4>0. b.type.kind = "map" /\ a.type.kind = "map" /\ r \notin b.null /\ r \notin a.null /\ IsVector(a) /\ IsVector(b)
        BY <1>1, <1>2, <3>1
      <4>1. Get(a, r) = MapOf(PairsOf(ReadElements(a, r)))  BY <4>0, GetEq
      <4>2. Get(b, r) = MapOf(PairsOf(ReadElements(b, r)))  BY <4>0, GetEq
      <4> QED BY <4>1, <4>2, <2>5
    <3>2. CASE k \in {"list", "array"}  BY <3>2, <1>1, <1>2, <2>5, GetEq
    <3> QED BY <1>2, <3>1, <3>2
  <2> QED BY <2>4, <2>6
<1>3. ASSUME r \notin a.null, k = "struct", Sound(a, r)
      PROVE  Sound(b, r) /\ Get(b, r) = Get(a, r)
  <2>1. ASSUME NEW i \in DOMAIN a.kids
        PROVE  Sound(b.kids[i], r) /\ Get(b.kids[i], r) = Get(a.kids[i], r)
    <3>1. r \in Places(a, r)  BY <1>3 DEF Places
    <3>2. Rows(a.kids[i]) = Rows(a)  BY <1>3, FormedFacts DEF LocallyFormed, KidRows
    <3>3. r \in DOMAIN a.kids[i].data  BY <3>2, FormedFacts
    <3>4. Sound(a.kids[i], r)  BY <1>3, <3>3, SoundStruct
    <3> QED BY <3>1, <3>3, <3>4 DEF Keeps
  <2>2. Sound(b, r)  BY <1>1, <1>3, <2>1, SoundStruct
  <2>3. \A n \in Range(a.type.names) : Get(Field(b, n), r) = Get(Field(a, n), r)
    <3>1. \A n \in Range(a.type.names) : IndexIn(a.type.names, n) \in DOMAIN a.kids
      BY <1>1, <1>3, FieldIs, FormedFacts
    <3> QED BY <3>1, <2>1 DEF Field
  <2>4. Get(b, r) = Get(a, r)
    <3>1. [n \in Range(a.type.names) |-> Get(Field(b, n), r)]
            = [n \in Range(a.type.names) |-> Get(Field(a, n), r)]
      BY <2>3
    <3>2. /\ Get(a, r) = Fields([n \in Range(a.type.names) |-> Get(Field(a, n), r)])
          /\ Get(b, r) = Fields([n \in Range(a.type.names) |-> Get(Field(b, n), r)])
      BY <1>1, <1>3, GetEq
    <3> QED BY <3>1, <3>2
  <2> QED BY <2>2, <2>4
<1>4. ASSUME r \notin a.null, k = "union", Sound(a, r)
      PROVE  Sound(b, r) /\ Get(b, r) = Get(a, r)
  <2>1. Here(a, r) /\ Tag(a, r) \in Members(a)  BY <1>4, SoundUnion DEF Here
  <2>2. ASSUME NEW i \in DOMAIN a.kids
        PROVE  r \in DOMAIN a.kids[i].data /\ Keeps(a.kids[i], b.kids[i], r)
    <3>1. r \in Places(a, r)  BY <1>4 DEF Places
    <3>2. Rows(a.kids[i]) = Rows(a)  BY <1>4, FormedFacts DEF LocallyFormed, KidRows
    <3>3. r \in DOMAIN a.kids[i].data  BY <3>2, FormedFacts
    <3> QED BY <3>1, <3>3
  <2>3. 1 \in DOMAIN a.kids /\ \A j \in Members(a) : j + 1 \in DOMAIN a.kids
    BY <1>1, <1>4, FormedFacts DEF IsType, Members
  <2>4. Tag(b, r) = Tag(a, r) /\ Members(b) = Members(a)
    BY <2>2, <2>3 DEF Tag, Members, Keeps
  <2>5. Here(b, r)
    <3>1. \A j \in Members(a) : j # Tag(a, r) => r \in b.kids[j + 1].null
      BY <1>4, <2>1, <2>2, <2>3 DEF Here, Keeps
    <3> QED BY <1>4, <2>1, <2>4, <3>1 DEF Here
  <2>6. LET i == Tag(a, r) + 1 IN Sound(b.kids[i], r) /\ Get(b.kids[i], r) = Get(a.kids[i], r)
    <3>1. Sound(a.kids[Tag(a, r) + 1], r)  BY <1>4, <2>1, <2>2, <2>3, SoundUnion
    <3> QED BY <3>1, <2>1, <2>2, <2>3 DEF Keeps
  <2>7. Sound(b, r)  BY <1>1, <1>4, <2>4, <2>5, <2>6, SoundUnion
  <2>8. Get(b, r) = Get(a, r)
    <3>1. /\ Get(a, r) = Union(Tag(a, r), Get(a.kids[Tag(a, r) + 1], r))
          /\ Get(b, r) = Union(Tag(b, r), Get(b.kids[Tag(b, r) + 1], r))
      BY <1>1, <1>4, <2>1, <2>4, GetEq
    <3> QED BY <2>4, <2>6, <3>1
  <2> QED BY <2>7, <2>8
<1>5. ASSUME r \notin a.null, k \in Leaves \cup {"enum"}
      PROVE  Sound(b, r) /\ Get(b, r) = Get(a, r)
  <2>1. Sound(b, r)  BY <1>1, <1>5, SoundLeaf DEF Leaves, Nested
  <2>2. Get(b, r) = Get(a, r)
    <3>1. CASE k = "enum"  BY <1>1, <1>5, <3>1, GetEq
    <3>2. CASE k \in Leaves
      <4>1. a.type.kind # "union" /\ b.type.kind # "union"  BY <3>2 DEF Leaves
      <4> QED BY <1>1, <1>5, <3>2, <4>1, GetEq
    <3> QED BY <1>5, <3>1, <3>2
  <2> QED BY <2>1, <2>2
<1>6. ASSUME r \in a.null PROVE Sound(b, r) /\ Get(b, r) = Get(a, r)
  BY <1>1, <1>6, SoundEq, GetEq
<1>7. ASSUME Clean(a, r) PROVE Clean(b, r)
  <2>1. CleanDef(a, r)  BY <1>1, <1>7, VectorEq
  <2>2. Clean(b, r) <=> CleanDef(b, r)  BY <1>1, VectorEq
  <2>3. ASSUME k \in {"array", "struct", "union"}, NEW i \in DOMAIN a.kids, NEW e \in Places(a, r)
        PROVE  e \in DOMAIN a.kids[i].data
    <3>1. CASE k = "array"
      <4>1. Here(a, r) /\ Len(a.type.kids) = 1  BY <3>1, <1>1 DEF Here, IsType
      <4>2. i = 1  BY <4>1, FormedFacts
      <4>3. PICK j \in 1..Count(a, r) : e = First(a, r) + j - 1  BY <3>1, <2>3 DEF Places, Count
      <4> QED BY <3>1, <4>1, <4>2, <4>3, ElementPlaces
    <3>2. CASE k \in {"struct", "union"}
      <4>1. Rows(a.kids[i]) = Rows(a) /\ e = r  BY <3>2, <2>3, FormedFacts DEF LocallyFormed, KidRows, Places
      <4> QED BY <4>1, FormedFacts
    <3> QED BY <2>3, <3>1, <3>2
  <2>4. k \in {"array", "struct", "union"} => Places(b, r) = Places(a, r)  BY <1>1 DEF Places
  <2> QED BY <1>1, <2>1, <2>2, <2>3, <2>4 DEF CleanDef, Keeps
<1>8. ASSUME Sound(a, r) PROVE Sound(b, r) /\ Get(b, r) = Get(a, r)
  <2>1. k \in Leaves \cup {"enum"} \/ k \in {"list", "map", "array"} \/ k = "struct" \/ k = "union"
    BY <1>1 DEF Nested
  <2> QED BY <1>8, <2>1, <1>2, <1>3, <1>4, <1>5, <1>6
<1> QED BY <1>7, <1>8 DEF Keeps

-----------------------------------------------------------------------------
\* The same vector but for its children and addresses.
Alike(a, b) == b.type = a.type /\ b.data = a.data /\ b.null = a.null /\ b.size = a.size

\* All rows are kept.
KeepsAll(a, b) == \A r \in DOMAIN a.data : Keeps(a, b, r)

\* A vector whose children keep their rows.
LEMMA AlikeFormed ==
  ASSUME Recursion, NEW s \in Chunks, NEW a, NEW b, Formed(s, a), IsRecord(b), Alike(a, b),
         b.kids = [i \in DOMAIN a.kids |-> b.kids[i]],
         \A i \in DOMAIN a.kids : /\ Formed(s, b.kids[i]) /\ b.kids[i].type = a.kids[i].type
                                  /\ Rows(b.kids[i]) = Rows(a.kids[i])
                                  /\ KeepsAll(a.kids[i], b.kids[i])
  PROVE  Formed(s, b) /\ KeepsAll(a, b)
<1>1. LocallyFormed(s, a) /\ DOMAIN b.kids = DOMAIN a.kids /\ Rows(b) = Rows(a)
  BY FormedFacts DEF Alike, Rows
<1>2. ASSUME NEW i \in DOMAIN a.kids, NEW e, Clean(a.kids[i], e), e \in DOMAIN a.kids[i].data
      PROVE  Clean(b.kids[i], e)
  BY <1>2 DEF KeepsAll, Keeps
<1>3. \A i \in DOMAIN a.kids : DOMAIN b.kids[i].data = DOMAIN a.kids[i].data
  BY FormedFacts
<1>4. LocallyFormed(s, b)
  <2>1. ASSUME NEW i \in DOMAIN b.kids
        PROVE  /\ b.kids[i].type = b.type.kids[i]
               /\ IF b.type.kind \in {"list", "map"}
                    THEN /\ Rows(b.kids[i]) >= Capacity /\ Rows(b.kids[i]) >= b.size
                         /\ \A e \in DOMAIN b.kids[i].data : e >= b.size => Clean(b.kids[i], e)
                    ELSE Rows(b.kids[i]) = KidRows(b.type, Rows(b))
    BY <1>1, <1>2, <1>3 DEF LocallyFormed, Alike
  <2> QED BY <1>1, <2>1 DEF LocallyFormed, Alike, IsRecord
<1>5. Formed(s, b)  BY <1>1, <1>4, FormedEq
<1>6. ASSUME NEW r \in DOMAIN a.data PROVE Keeps(a, b, r)
  <2>1. r \in 0..(Rows(a) - 1)  BY FormedFacts
  <2>2. b.data[r] = a.data[r] /\ (r \in b.null <=> r \in a.null) /\ a.size <= b.size
    BY <1>1 DEF Alike, LocallyFormed
  <2>3. \A i \in DOMAIN a.kids : \A e \in DOMAIN a.kids[i].data :
          e \in DOMAIN b.kids[i].data /\ Keeps(a.kids[i], b.kids[i], e)
    BY <1>3 DEF KeepsAll
  <2> QED BY <1>5, <2>1, <2>2, <2>3, KidsKeep DEF Alike
<1> QED BY <1>5, <1>6 DEF KeepsAll

\* Keeping all rows is transitive.
LEMMA KeepsAllTrans ==
  ASSUME NEW a, NEW b, NEW c, KeepsAll(a, b), KeepsAll(b, c), DOMAIN a.data \subseteq DOMAIN b.data
  PROVE  KeepsAll(a, c)
BY KeepsTrans DEF KeepsAll

\* A vector with the address looked up again.
LEMMA FreshIs ==
  ASSUME NEW a, IsRecord(a), NEW x
  PROVE  [a EXCEPT !.fresh = x] = [type |-> a.type, data |-> a.data, null |-> a.null, size |-> a.size,
                                   fresh |-> x, kids |-> a.kids]
BY DEF IsRecord

\* Looking the buffers up changes nothing else.
LEMMA LookedUp ==
  ASSUME Recursion, NEW s \in Chunks, NEW a, Formed(s, a)
  PROVE  LET b == [a EXCEPT !.fresh = TRUE]
         IN Formed(s, b) /\ Alike(a, b) /\ KeepsAll(a, b) /\ b.fresh /\ b.kids = a.kids
<1> DEFINE b == [a EXCEPT !.fresh = TRUE]
<1>1. a = [type |-> a.type, data |-> a.data, null |-> a.null, size |-> a.size,
           fresh |-> a.fresh, kids |-> a.kids]
  BY FormedFacts DEF LocallyFormed
<1>2. IsRecord(b) /\ Alike(a, b) /\ b.kids = a.kids /\ b.fresh
  <2>1. b = [type |-> a.type, data |-> a.data, null |-> a.null, size |-> a.size,
             fresh |-> TRUE, kids |-> a.kids]
    BY <1>1, FreshIs DEF IsRecord
  <2> HIDE DEF b
  <2>2. /\ b.type = a.type /\ b.data = a.data /\ b.null = a.null /\ b.size = a.size
        /\ b.fresh = TRUE /\ b.kids = a.kids
    BY <2>1
  <2> QED BY <2>1, <2>2 DEF IsRecord, Alike
<1> HIDE DEF b
<1>3. a.kids = [i \in DOMAIN a.kids |-> a.kids[i]]
  <2>1. a.kids = [i \in DOMAIN a.type.kids |-> a.kids[i]]  BY FormedFacts DEF LocallyFormed
  <2> QED BY <2>1
<1>4. \A i \in DOMAIN a.kids : Formed(s, a.kids[i]) /\ KeepsAll(a.kids[i], a.kids[i])
  BY FormedFacts, KeepsSelf DEF KeepsAll
<1>5. Formed(s, b) /\ KeepsAll(a, b)  BY <1>2, <1>3, <1>4, AlikeFormed
<1> QED BY <1>2, <1>5 DEF b

\* What resetChildData should do.
ResetRight(s, a, b) ==
  /\ Formed(s, b) /\ Alike(a, b) /\ KeepsAll(a, b) /\ b.fresh = a.fresh
  /\ \A i \in DOMAIN b.kids : /\ Fresh(b.kids[i]) /\ Rows(b.kids[i]) = Rows(a.kids[i])
                              /\ KeepsAll(a.kids[i], b.kids[i])

\* resetChildData
LEMMA ResetChildDataIsRight ==
  ASSUME Recursion, NEW s \in Chunks
  PROVE  \A a : Formed(s, a) => ResetRight(s, a, ResetChildData(a))
<1> DEFINE G == {t \in AllTypes(s) : \A a : Formed(s, a) /\ a.type = t => ResetRight(s, a, ResetChildData(a))}
<1>1. ASSUME NEW a, Formed(s, a), \A i \in DOMAIN a.type.kids : a.type.kids[i] \in G
      PROVE  ResetRight(s, a, ResetChildData(a))
  <2> DEFINE b == ResetChildData(a)
             kid(i) == [a.kids[i] EXCEPT !.fresh = TRUE]
  <2>1. b = ResetChildDataDef(a)  BY <1>1, FormedFacts, VectorEq
  <2>2. a = [type |-> a.type, data |-> a.data, null |-> a.null, size |-> a.size,
             fresh |-> a.fresh, kids |-> a.kids]
    BY <1>1, FormedFacts DEF LocallyFormed
  <2>3. /\ IsRecord(b) /\ Alike(a, b) /\ b.fresh = a.fresh
        /\ b.kids = [i \in DOMAIN a.kids |-> ResetChildData(kid(i))]
    BY <2>1, <2>2 DEF ResetChildDataDef, IsRecord, Alike
  <2> HIDE DEF b
  <2>4. ASSUME NEW i \in DOMAIN a.kids
        PROVE  /\ Formed(s, b.kids[i]) /\ b.kids[i].type = a.kids[i].type
               /\ Rows(b.kids[i]) = Rows(a.kids[i])
               /\ KeepsAll(a.kids[i], b.kids[i])
               /\ Fresh(b.kids[i])
    <3>0. DOMAIN a.kids = DOMAIN a.type.kids
      <4>1. LocallyFormed(s, a)  BY <1>1, FormedFacts
      <4> QED BY <4>1 DEF LocallyFormed
    <3>1. Formed(s, a.kids[i]) /\ a.kids[i].type = a.type.kids[i] /\ i \in DOMAIN a.type.kids
      BY <1>1, <3>0, FormedFacts
    <3>2. Formed(s, kid(i)) /\ Alike(a.kids[i], kid(i)) /\ KeepsAll(a.kids[i], kid(i)) /\ kid(i).fresh
      BY <3>1, LookedUp
    <3> HIDE DEF kid
    <3>3. kid(i).type \in G  BY <1>1, <3>1, <3>2 DEF Alike
    <3>4. ResetRight(s, kid(i), ResetChildData(kid(i)))  BY <3>2, <3>3
    <3>5. b.kids[i] = ResetChildData(kid(i))  BY <2>3
    <3>6. ResetRight(s, kid(i), b.kids[i])  BY <3>4, <3>5
    <3>7. KeepsAll(a.kids[i], b.kids[i])  BY <3>2, <3>6, KeepsAllTrans DEF ResetRight, Alike
    <3>8. Fresh(b.kids[i])  BY <3>2, <3>6, FreshEq DEF ResetRight
    <3> QED BY <3>2, <3>6, <3>7, <3>8 DEF ResetRight, Alike, Rows
  <2>5. b.kids = [i \in DOMAIN a.kids |-> b.kids[i]]  BY <2>3
  <2>6. Formed(s, b) /\ KeepsAll(a, b)  BY <1>1, <2>3, <2>4, <2>5, AlikeFormed
  <2>7. DOMAIN b.kids = DOMAIN a.kids  BY <2>3
  <2> QED BY <2>3, <2>4, <2>6, <2>7 DEF ResetRight, b
<1>2. \A t \in AllTypes(s) : t \in G
  <2>1. ASSUME NEW t \in AllTypes(s), \A i \in DOMAIN t.kids : t.kids[i] \in G PROVE t \in G
    <3>1. \A a : Formed(s, a) /\ a.type = t => ResetRight(s, a, ResetChildData(a))
      BY <1>1, <2>1
    <3> QED BY <3>1
  <2> HIDE DEF G
  <2> QED BY <2>1, TypeInduction
<1> QED BY <1>2, FormedFacts DEF LocallyFormed

-----------------------------------------------------------------------------
\* The fields of a well formed vector.
LEMMA KidDomain ==
  ASSUME Recursion, NEW s \in Chunks, NEW a, Formed(s, a)
  PROVE  /\ DOMAIN a.kids = DOMAIN a.type.kids /\ IsRecord(a) /\ a.type \in AllTypes(s)
         /\ a.kids = [i \in DOMAIN a.kids |-> a.kids[i]]
         /\ a.data = [r \in 0..(Rows(a) - 1) |-> a.data[r]] /\ a.size \in Nat
         /\ a.null \subseteq 0..(Rows(a) - 1)
<1>1. LocallyFormed(s, a)  BY FormedFacts
<1> QED BY <1>1 DEF LocallyFormed, IsRecord

\* A larger vector has larger children.
LEMMA KidRowsGrow ==
  ASSUME NEW s \in Chunks, NEW t \in AllTypes(s), NEW m \in Nat, NEW n \in Nat, m <= n
  PROVE  KidRows(t, m) <= KidRows(t, n) /\ KidRows(t, m) \in Nat /\ KidRows(t, n) \in Nat
<1>1. KidRows(t, m) \in Nat /\ KidRows(t, n) \in Nat  BY KidRowsIsNat
<1>2. CASE t.kind = "array"
  <2>1. t.length \in Nat  BY <1>2, TypeFacts DEF IsType
  <2>2. PICK k \in Nat : n = m + k
    <3>1. n - m \in Nat /\ n = m + (n - m)  OBVIOUS
    <3> QED BY <3>1
  <2>3. n * t.length = m * t.length + k * t.length /\ k * t.length \in Nat /\ m * t.length \in Nat
    BY <2>1, <2>2
  <2> QED BY <1>1, <1>2, <2>3 DEF KidRows
<1>3. CASE t.kind # "array"  BY <1>1, <1>3 DEF KidRows
<1> QED BY <1>2, <1>3

\* What a larger vector should be: the old rows kept, and the new ones clean.
GrowRight(s, a, b, n) ==
  /\ Formed(s, b) /\ b.type = a.type /\ Rows(b) = n
  /\ \A r \in 0..(Rows(a) - 1) : Keeps(a, b, r)
  /\ \A r \in Rows(a)..(n - 1) : Clean(b, r)

\* A larger vector: the rows it had are kept, and the others are clean.
LEMMA GrowIsRight ==
  ASSUME Recursion, NEW s \in Chunks
  PROVE  \A a : Formed(s, a) => \A n \in Nat : Rows(a) <= n => GrowRight(s, a, Grow(a, n), n)
<1> DEFINE G == {t \in AllTypes(s) : \A a : Formed(s, a) /\ a.type = t =>
                   \A n \in Nat : Rows(a) <= n => GrowRight(s, a, Grow(a, n), n)}
<1>1. ASSUME NEW a, Formed(s, a), \A i \in DOMAIN a.type.kids : a.type.kids[i] \in G,
             NEW n \in Nat, Rows(a) <= n
      PROVE  GrowRight(s, a, Grow(a, n), n)
  <2> DEFINE b == Grow(a, n)
             k == a.type.kind
  <2>1. b = GrowDef(a, n)  BY <1>1, FormedFacts, VectorEq
  <2>2. IsRecord(a) /\ DOMAIN a.kids = DOMAIN a.type.kids /\ a.type \in AllTypes(s) /\ a.size \in Nat
    BY <1>1, KidDomain
  <2>3. /\ IsRecord(b) /\ b.type = a.type /\ b.null = a.null /\ b.size = a.size
        /\ b.data = [r \in 0..(n - 1) |-> IF r \in DOMAIN a.data THEN a.data[r] ELSE Zero(a.type)]
        /\ b.kids = [i \in DOMAIN a.kids |-> IF k \in {"list", "map"} THEN a.kids[i]
                                             ELSE Grow(a.kids[i], KidRows(a.type, n))]
    BY <2>1, <2>2 DEF GrowDef, IsRecord
  <2> HIDE DEF b
  <2>4. Rows(b) = n /\ DOMAIN b.kids = DOMAIN a.kids /\ DOMAIN a.data = 0..(Rows(a) - 1) /\ Rows(a) \in Nat
    BY <1>1, <2>3, RowsIs, FormedFacts
  <2>5. ASSUME NEW i \in DOMAIN a.kids, k \notin {"list", "map"}
        PROVE  GrowRight(s, a.kids[i], b.kids[i], KidRows(a.type, n)) /\ Rows(a.kids[i]) = KidRows(a.type, Rows(a))
    <3>1. Formed(s, a.kids[i]) /\ a.kids[i].type = a.type.kids[i]
      BY <1>1, FormedFacts
    <3>2. Rows(a.kids[i]) = KidRows(a.type, Rows(a))
      BY <1>1, <2>5, FormedFacts DEF LocallyFormed
    <3>3. KidRows(a.type, n) \in Nat /\ Rows(a.kids[i]) <= KidRows(a.type, n)
      BY <1>1, <2>2, <2>4, <3>2, KidRowsGrow
    <3>4. a.kids[i].type \in G  BY <1>1, <2>2, <3>1
    <3>5. GrowRight(s, a.kids[i], Grow(a.kids[i], KidRows(a.type, n)), KidRows(a.type, n))
      BY <3>1, <3>3, <3>4
    <3> QED BY <2>3, <2>5, <3>2, <3>5
  <2>6. ASSUME NEW i \in DOMAIN a.kids
        PROVE  /\ Formed(s, b.kids[i]) /\ b.kids[i].type = a.kids[i].type
               /\ \A e \in DOMAIN a.kids[i].data : Keeps(a.kids[i], b.kids[i], e) /\ e \in DOMAIN b.kids[i].data
    <3>1. CASE k \in {"list", "map"}
      BY <1>1, <2>3, <3>1, FormedFacts, KeepsSelf
    <3>2. CASE k \notin {"list", "map"}
      <4>1. /\ Formed(s, a.kids[i]) /\ DOMAIN a.kids[i].data = 0..(Rows(a.kids[i]) - 1)
            /\ Rows(a.kids[i]) \in Nat
        BY <1>1, FormedFacts
      <4>2. GrowRight(s, a.kids[i], b.kids[i], KidRows(a.type, n)) /\ Rows(a.kids[i]) <= KidRows(a.type, n)
            /\ KidRows(a.type, n) \in Nat
        BY <1>1, <2>2, <2>4, <2>5, <3>2, KidRowsGrow
      <4>3. DOMAIN b.kids[i].data = 0..(KidRows(a.type, n) - 1)  BY <4>2, FormedFacts DEF GrowRight
      <4> QED BY <4>1, <4>2, <4>3 DEF GrowRight
    <3> QED BY <3>1, <3>2
  <2>7. Formed(s, b)
    <3>1. ASSUME NEW i \in DOMAIN b.kids
          PROVE  /\ b.kids[i].type = b.type.kids[i]
                 /\ IF b.type.kind \in {"list", "map"}
                      THEN /\ Rows(b.kids[i]) >= Capacity /\ Rows(b.kids[i]) >= b.size
                           /\ \A e \in DOMAIN b.kids[i].data : e >= b.size => Clean(b.kids[i], e)
                      ELSE Rows(b.kids[i]) = KidRows(b.type, Rows(b))
      <4>1. i \in DOMAIN a.kids /\ b.kids[i].type = b.type.kids[i]
        <5>1. i \in DOMAIN a.kids /\ b.kids[i].type = a.kids[i].type /\ b.type = a.type
          BY <2>3, <2>4, <2>6, <3>1
        <5>2. a.kids[i].type = a.type.kids[i]  BY <1>1, <5>1, FormedFacts
        <5> QED BY <5>1, <5>2
      <4>2. CASE k \in {"list", "map"}
        <5>1. b.kids[i] = a.kids[i]  BY <2>3, <4>1, <4>2
        <5>2. LocallyFormed(s, a)  BY <1>1, FormedFacts
        <5> QED BY <2>3, <4>1, <4>2, <5>1, <5>2 DEF LocallyFormed
      <4>3. CASE k \notin {"list", "map"}
        BY <2>3, <2>4, <2>5, <4>1, <4>3 DEF GrowRight
      <4> QED BY <4>1, <4>2, <4>3
    <3>2. /\ b.kids = [i \in DOMAIN b.type.kids |-> b.kids[i]]
          /\ b.data = [r \in 0..(Rows(b) - 1) |-> b.data[r]]
      BY <2>2, <2>3, <2>4
    <3>3. b.null \subseteq DOMAIN b.data
      <4>1. a.null \subseteq 0..(Rows(a) - 1)  BY <1>1, KidDomain
      <4> QED BY <1>1, <2>3, <2>4, <4>1
    <3>4. LocallyFormed(s, b)
      BY <2>2, <2>3, <2>4, <3>1, <3>2, <3>3 DEF LocallyFormed, IsRecord
    <3> QED BY <2>4, <2>6, <3>4, FormedEq
  <2>8. ASSUME NEW r \in 0..(Rows(a) - 1) PROVE Keeps(a, b, r)
    <3>1. b.data[r] = a.data[r]  BY <1>1, <2>3, <2>4
    <3>2. /\ Formed(s, a) /\ Formed(s, b) /\ b.type = a.type /\ (r \in b.null <=> r \in a.null)
          /\ a.size <= b.size
      BY <1>1, <2>2, <2>3, <2>7
    <3>3. \A i \in DOMAIN a.kids : \A e \in Places(a, r) :
            e \in DOMAIN a.kids[i].data => e \in DOMAIN b.kids[i].data /\ Keeps(a.kids[i], b.kids[i], e)
      BY <2>6
    <3> QED BY <3>1, <3>2, <3>3, KidsKeep
  <2>9. ASSUME NEW r \in Rows(a)..(n - 1) PROVE Clean(b, r)
    <3>1. r \notin b.null /\ r \in Nat
      <4>1. a.null \subseteq 0..(Rows(a) - 1)  BY <1>1, KidDomain
      <4>2. r \notin 0..(Rows(a) - 1) /\ r \in Nat  BY <2>4, <2>9
      <4> QED BY <2>3, <4>1, <4>2
    <3>2. ASSUME k \in {"array", "struct", "union"}, NEW i \in DOMAIN a.kids, NEW e \in Places(b, r)
          PROVE  Clean(b.kids[i], e)
      <4>1. GrowRight(s, a.kids[i], b.kids[i], KidRows(a.type, n)) /\ Rows(a.kids[i]) = KidRows(a.type, Rows(a))
        BY <2>5, <3>2
      <4>2. CASE k = "array"
        <5>1. a.type.length \in Nat  BY <4>2, <2>2, TypeFacts DEF IsType
        <5>2. PICK j \in 1..a.type.length : e = r * a.type.length + j - 1
          BY <2>3, <3>2, <4>2 DEF Places, First
        <5>3. e \in Nat /\ e < n * a.type.length  BY <3>1, <5>1, <5>2, ArrayPlaces
        <5>4. Rows(a) * a.type.length <= r * a.type.length
          <6>1. Rows(a) <= r  BY <2>4
          <6>2. KidRows(a.type, Rows(a)) <= KidRows(a.type, r)  BY <2>2, <2>4, <3>1, <6>1, KidRowsGrow
          <6> QED BY <4>2, <6>2 DEF KidRows
        <5>5. e >= r * a.type.length /\ r * a.type.length \in Nat /\ Rows(a) * a.type.length \in Nat
              /\ n * a.type.length \in Nat
          <6>1. r * a.type.length \in Nat /\ Rows(a) * a.type.length \in Nat /\ n * a.type.length \in Nat
            BY <1>1, <2>4, <3>1, <5>1
          <6> QED BY <5>1, <5>2, <6>1
        <5>6. e \in Rows(a.kids[i])..(KidRows(a.type, n) - 1)
          BY <4>1, <4>2, <5>3, <5>4, <5>5 DEF KidRows
        <5> QED BY <4>1, <5>6 DEF GrowRight
      <4>3. CASE k \in {"struct", "union"}
        <5>1. e = r /\ Rows(a.kids[i]) = Rows(a) /\ KidRows(a.type, n) = n
          BY <2>3, <3>2, <4>1, <4>3 DEF Places, KidRows
        <5> QED BY <4>1, <5>1 DEF GrowRight
      <4> QED BY <3>2, <4>2, <4>3
    <3>3. Clean(b, r) <=> CleanDef(b, r)  BY <2>7, FormedFacts, VectorEq
    <3> QED BY <2>3, <2>4, <3>1, <3>2, <3>3 DEF CleanDef
  <2> QED BY <2>3, <2>4, <2>7, <2>8, <2>9 DEF GrowRight, b
<1>2. \A t \in AllTypes(s) : t \in G
  <2>1. ASSUME NEW t \in AllTypes(s), \A i \in DOMAIN t.kids : t.kids[i] \in G PROVE t \in G
    <3>1. \A a : Formed(s, a) /\ a.type = t => \A n \in Nat : Rows(a) <= n => GrowRight(s, a, Grow(a, n), n)
      BY <1>1, <2>1
    <3> QED BY <3>1
  <2> HIDE DEF G
  <2> QED BY <2>1, TypeInduction
<1> QED BY <1>2, FormedFacts DEF LocallyFormed

-----------------------------------------------------------------------------
\* A vector that is put back is as a new one.
LEMMA ShrinkAsNew ==
  ASSUME Recursion, NEW s \in Chunks
  PROVE  \A a : Formed(s, a) => \A n \in Nat : n <= Rows(a) => AsNew(s, Shrink(a, n), a.type, n)
<1> DEFINE G == {t \in AllTypes(s) : \A a : Formed(s, a) /\ a.type = t =>
                   \A n \in Nat : n <= Rows(a) => AsNew(s, Shrink(a, n), a.type, n)}
<1>1. ASSUME NEW a, Formed(s, a), \A i \in DOMAIN a.type.kids : a.type.kids[i] \in G,
             NEW n \in Nat, n <= Rows(a)
      PROVE  AsNew(s, Shrink(a, n), a.type, n)
  <2> DEFINE b == Shrink(a, n)
             k == a.type.kind
             m == KidRows(a.type, n)
  <2>1. b = ShrinkDef(a, n)  BY <1>1, FormedFacts, VectorEq
  <2>2. /\ IsRecord(a) /\ DOMAIN a.kids = DOMAIN a.type.kids /\ a.type \in AllTypes(s)
        /\ Rows(a) \in Nat /\ m \in Nat
    BY <1>1, KidDomain, FormedFacts, KidRowsIsNat
  <2>3. /\ IsRecord(b) /\ b.type = a.type /\ b.null = {} /\ b.size = 0
        /\ b.data = [r \in 0..(n - 1) |-> a.data[r]]
        /\ b.kids = [i \in DOMAIN a.kids |-> Shrink(a.kids[i], m)]
    BY <2>1, <2>2 DEF ShrinkDef, IsRecord
  <2> HIDE DEF b
  <2>4. Rows(b) = n /\ DOMAIN b.kids = DOMAIN a.kids  BY <1>1, <2>3, RowsIs
  <2>5. ASSUME NEW i \in DOMAIN a.kids
        PROVE  AsNew(s, b.kids[i], a.type.kids[i], m)
    <3>1. Formed(s, a.kids[i]) /\ a.kids[i].type = a.type.kids[i]
      BY <1>1, FormedFacts
    <3>2. m <= Rows(a.kids[i])
      <4>1. LocallyFormed(s, a)  BY <1>1, FormedFacts
      <4>2. CASE k \in {"list", "map"}  BY <4>1, <4>2, <2>5 DEF LocallyFormed, KidRows
      <4>3. CASE k \notin {"list", "map"}
        <5>1. Rows(a.kids[i]) = KidRows(a.type, Rows(a))  BY <4>1, <4>3, <2>5 DEF LocallyFormed
        <5> QED BY <1>1, <2>2, <5>1, KidRowsGrow
      <4> QED BY <4>2, <4>3
    <3>3. a.kids[i].type \in G  BY <1>1, <2>2, <3>1
    <3>4. AsNew(s, Shrink(a.kids[i], m), a.kids[i].type, m)  BY <2>2, <3>1, <3>2, <3>3
    <3> QED BY <2>3, <3>1, <3>4
  <2>6. ASSUME NEW i \in DOMAIN a.kids
        PROVE  /\ Formed(s, b.kids[i]) /\ b.kids[i].type = b.type.kids[i] /\ Rows(b.kids[i]) = m
               /\ \A e \in DOMAIN b.kids[i].data : Clean(b.kids[i], e)
    <3>1. DOMAIN b.kids[i].data = 0..(m - 1)  BY <2>5, FormedFacts DEF AsNew
    <3> QED BY <2>3, <2>5, <3>1 DEF AsNew
  <2>7. LocallyFormed(s, b)
    <3>1. ASSUME NEW i \in DOMAIN b.kids
          PROVE  /\ b.kids[i].type = b.type.kids[i]
                 /\ IF b.type.kind \in {"list", "map"}
                      THEN /\ Rows(b.kids[i]) >= Capacity /\ Rows(b.kids[i]) >= b.size
                           /\ \A e \in DOMAIN b.kids[i].data : e >= b.size => Clean(b.kids[i], e)
                      ELSE Rows(b.kids[i]) = KidRows(b.type, Rows(b))
      <4>1. CASE k \in {"list", "map"}
        <5>1. m = Capacity  BY <4>1 DEF KidRows
        <5>2. /\ b.kids[i].type = b.type.kids[i] /\ Rows(b.kids[i]) = Capacity
              /\ \A e \in DOMAIN b.kids[i].data : Clean(b.kids[i], e)
          BY <2>4, <2>6, <3>1, <5>1
        <5>3. b.type.kind \in {"list", "map"} /\ b.size = 0  BY <2>3, <4>1
        <5> QED BY <5>2, <5>3, CapacityAssumption
      <4>2. CASE k \notin {"list", "map"}  BY <2>3, <2>4, <2>6, <4>2
      <4> QED BY <4>1, <4>2
    <3>2. /\ b.kids = [i \in DOMAIN b.type.kids |-> b.kids[i]] /\ b.null \subseteq DOMAIN b.data
          /\ b.data = [r \in 0..(Rows(b) - 1) |-> b.data[r]]
      BY <2>2, <2>3, <2>4
    <3>3. IsRecord(b) /\ b.type \in AllTypes(s) /\ b.size \in Nat /\ Rows(b) \in Nat
      BY <1>1, <2>2, <2>3, <2>4
    <3> QED BY <3>1, <3>2, <3>3 DEF LocallyFormed, IsRecord
  <2>8. Formed(s, b)  BY <2>4, <2>6, <2>7, FormedEq
  <2>9. ASSUME NEW r \in 0..(n - 1) PROVE Clean(b, r)
    <3>1. \A i \in DOMAIN b.kids : \A e \in 0..(Rows(b.kids[i]) - 1) : Clean(b.kids[i], e)
      BY <2>4, <2>5, <2>6 DEF AsNew
    <3> QED BY <2>3, <2>4, <2>6, <2>7, <2>8, <3>1, CleanRow, FormedEq
  <2> QED BY <2>3, <2>4, <2>8, <2>9 DEF AsNew, b
<1>2. \A t \in AllTypes(s) : t \in G
  <2>1. ASSUME NEW t \in AllTypes(s), \A i \in DOMAIN t.kids : t.kids[i] \in G PROVE t \in G
    <3>1. \A a : Formed(s, a) /\ a.type = t => \A n \in Nat : n <= Rows(a) => AsNew(s, Shrink(a, n), a.type, n)
      BY <1>1, <2>1
    <3> QED BY <3>1
  <2> HIDE DEF G
  <2> QED BY <2>1, TypeInduction
<1> QED BY <1>2, KidDomain

\* What setNull should do.
NullRight(s, a, b, row) ==
  /\ Formed(s, b) /\ b.type = a.type /\ b.data = a.data /\ b.size = a.size
  /\ row \in b.null /\ (Fresh(a) => Fresh(b))
  /\ \A r \in DOMAIN a.data : r # row => Keeps(a, b, r)

\* setNull touches no other row.
LEMMA SetNullIsRight ==
  ASSUME Recursion, NEW s \in Chunks
  PROVE  \A a : Formed(s, a) => \A row \in DOMAIN a.data : NullRight(s, a, SetNull(a, row), row)
<1> DEFINE G == {t \in AllTypes(s) : \A a : Formed(s, a) /\ a.type = t =>
                   \A row \in DOMAIN a.data : NullRight(s, a, SetNull(a, row), row)}
<1>1. ASSUME NEW a, Formed(s, a), \A i \in DOMAIN a.type.kids : a.type.kids[i] \in G,
             NEW row \in DOMAIN a.data
      PROVE  NullRight(s, a, SetNull(a, row), row)
  <2> DEFINE b == SetNull(a, row)
             k == a.type.kind
  <2>1. b = SetNullDef(a, row)  BY <1>1, FormedFacts, VectorEq
  <2>2. /\ IsRecord(a) /\ DOMAIN a.kids = DOMAIN a.type.kids /\ a.type \in AllTypes(s)
        /\ Rows(a) \in Nat /\ DOMAIN a.data = 0..(Rows(a) - 1) /\ a.size \in Nat
    BY <1>1, KidDomain, FormedFacts
  <2>3. /\ IsRecord(b) /\ b.type = a.type /\ b.null = a.null \cup {row} /\ b.size = a.size
        /\ b.data = a.data /\ b.fresh = a.fresh
        /\ b.kids = [i \in DOMAIN a.kids |-> IF k \in {"struct", "union"}
                                               THEN SetNull(a.kids[i], row) ELSE a.kids[i]]
    BY <2>1, <2>2 DEF SetNullDef, IsRecord
  <2> HIDE DEF b
  <2>4. Rows(b) = Rows(a) /\ DOMAIN b.kids = DOMAIN a.kids  BY <2>3 DEF Rows
  <2>5. ASSUME NEW i \in DOMAIN a.kids, k \in {"struct", "union"}
        PROVE  NullRight(s, a.kids[i], b.kids[i], row)
    <3>1. Formed(s, a.kids[i]) /\ a.kids[i].type = a.type.kids[i]
      BY <1>1, FormedFacts
    <3>2. Rows(a.kids[i]) = Rows(a)
      BY <1>1, <2>5, FormedFacts DEF LocallyFormed, KidRows
    <3>3. row \in DOMAIN a.kids[i].data  BY <2>2, <3>1, <3>2, FormedFacts
    <3>4. a.kids[i].type \in G  BY <1>1, <2>2, <3>1
    <3>5. NullRight(s, a.kids[i], SetNull(a.kids[i], row), row)  BY <3>1, <3>3, <3>4
    <3> QED BY <2>3, <2>5, <3>5
  <2>6. ASSUME NEW i \in DOMAIN a.kids
        PROVE  /\ Formed(s, b.kids[i]) /\ b.kids[i].type = a.kids[i].type
               /\ b.kids[i].data = a.kids[i].data
               /\ Rows(b.kids[i]) = Rows(a.kids[i])
               /\ Fresh(a.kids[i]) => Fresh(b.kids[i])
               /\ \A e \in DOMAIN a.kids[i].data : k \notin {"struct", "union"} \/ e # row => Keeps(a.kids[i], b.kids[i], e)
    <3>1. CASE k \in {"struct", "union"}  BY <2>5, <3>1 DEF NullRight, Rows
    <3>2. CASE k \notin {"struct", "union"}  BY <1>1, <2>3, <3>2, FormedFacts, KeepsSelf
    <3> QED BY <3>1, <3>2
  <2>7. LocallyFormed(s, b)
    <3>0. LocallyFormed(s, a)  BY <1>1, FormedFacts
    <3>1. ASSUME NEW i \in DOMAIN b.kids
          PROVE  /\ b.kids[i].type = b.type.kids[i]
                 /\ IF b.type.kind \in {"list", "map"}
                      THEN /\ Rows(b.kids[i]) >= Capacity /\ Rows(b.kids[i]) >= b.size
                           /\ \A e \in DOMAIN b.kids[i].data : e >= b.size => Clean(b.kids[i], e)
                      ELSE Rows(b.kids[i]) = KidRows(b.type, Rows(b))
      <4>1. CASE k \in {"list", "map"}
        <5>1. b.kids[i] = a.kids[i]  BY <2>3, <2>4, <4>1
        <5> QED BY <2>3, <2>4, <3>0, <4>1, <5>1 DEF LocallyFormed
      <4>2. CASE k \notin {"list", "map"}
        BY <2>3, <2>4, <2>6, <3>0, <4>2 DEF LocallyFormed
      <4> QED BY <4>1, <4>2
    <3>2. /\ b.kids = [i \in DOMAIN b.type.kids |-> b.kids[i]]
          /\ b.data = [r \in 0..(Rows(b) - 1) |-> b.data[r]]
      BY <1>1, <2>2, <2>3, <2>4, KidDomain
    <3>3. b.null \subseteq DOMAIN b.data
      <4>1. a.null \subseteq 0..(Rows(a) - 1)  BY <1>1, KidDomain
      <4> QED BY <1>1, <2>2, <2>3, <4>1
    <3> QED BY <2>2, <2>3, <2>4, <3>1, <3>2, <3>3 DEF LocallyFormed, IsRecord
  <2>8. Formed(s, b)  BY <2>4, <2>6, <2>7, FormedEq
  <2>9. Fresh(a) => Fresh(b)  BY <2>3, <2>4, <2>6, FreshEq
  <2>10. ASSUME NEW r \in DOMAIN a.data, r # row PROVE Keeps(a, b, r)
    <3>1. /\ Formed(s, a) /\ Formed(s, b) /\ b.type = a.type /\ (r \in b.null <=> r \in a.null)
          /\ a.size <= b.size /\ b.data[r] = a.data[r] /\ r \in 0..(Rows(a) - 1)
      BY <1>1, <2>2, <2>3, <2>8, <2>10
    <3>2. ASSUME NEW i \in DOMAIN a.kids, NEW e \in Places(a, r), e \in DOMAIN a.kids[i].data
          PROVE  e \in DOMAIN b.kids[i].data /\ Keeps(a.kids[i], b.kids[i], e)
      <4>1. k \in {"struct", "union"} => e = r  BY <3>2 DEF Places
      <4> QED BY <2>6, <2>10, <3>2, <4>1
    <3> QED BY <3>1, <3>2, KidsKeep
  <2> QED BY <2>3, <2>8, <2>9, <2>10 DEF NullRight, b
<1>2. \A t \in AllTypes(s) : t \in G
  <2>1. ASSUME NEW t \in AllTypes(s), \A i \in DOMAIN t.kids : t.kids[i] \in G PROVE t \in G
    <3>1. \A a : Formed(s, a) /\ a.type = t => \A row \in DOMAIN a.data : NullRight(s, a, SetNull(a, row), row)
      BY <1>1, <2>1
    <3> QED BY <3>1
  <2> HIDE DEF G
  <2> QED BY <2>1, TypeInduction
<1> QED BY <1>2, KidDomain

-----------------------------------------------------------------------------
\* A vector with one row of its data changed,
LEMMA DataIs ==
  ASSUME NEW a, IsRecord(a), NEW row, NEW x
  PROVE  [a EXCEPT !.data[row] = x] = [type |-> a.type, data |-> [a.data EXCEPT ![row] = x],
             null |-> a.null, size |-> a.size, fresh |-> a.fresh, kids |-> a.kids]
BY DEF IsRecord

\* and with one of its children changed.
LEMMA KidsIs ==
  ASSUME NEW a, IsRecord(a), NEW k, NEW x
  PROVE  [a EXCEPT !.kids[k] = x] = [type |-> a.type, data |-> a.data,
             null |-> a.null, size |-> a.size, fresh |-> a.fresh, kids |-> [a.kids EXCEPT ![k] = x]]
BY DEF IsRecord

\* setPrimitive changes one row.
LEMMA SetPrimitiveIsRight ==
  ASSUME Recursion, NEW s \in Chunks, NEW a, Formed(s, a), Fresh(a), NEW row \in DOMAIN a.data, NEW x
  PROVE  LET b == SetPrimitive(a, row, x) IN
         /\ Formed(s, b) /\ Fresh(b) /\ IsRecord(b)
         /\ b.type = a.type /\ b.null = a.null /\ b.size = a.size /\ b.kids = a.kids
         /\ b.data = [a.data EXCEPT ![row] = x] /\ Rows(b) = Rows(a)
         /\ \A r \in DOMAIN a.data : r # row => Keeps(a, b, r)
<1> DEFINE b == SetPrimitive(a, row, x)
<1>1. a.fresh  BY FreshEq
<1>2. b = [a EXCEPT !.data[row] = x]  BY <1>1 DEF SetPrimitive
<1>3. IsRecord(a) /\ DOMAIN a.data = 0..(Rows(a) - 1) /\ Rows(a) \in Nat /\ a.size \in Nat
      /\ LocallyFormed(s, a)
  BY KidDomain, FormedFacts
<1>4. b = [type |-> a.type, data |-> [a.data EXCEPT ![row] = x],
           null |-> a.null, size |-> a.size, fresh |-> a.fresh, kids |-> a.kids]
  BY <1>2, <1>3, DataIs
<1> HIDE DEF b
<1>5. /\ IsRecord(b) /\ b.type = a.type /\ b.null = a.null /\ b.size = a.size /\ b.kids = a.kids
      /\ b.fresh = a.fresh /\ b.data = [a.data EXCEPT ![row] = x]
  BY <1>4 DEF IsRecord
<1>6. DOMAIN b.data = DOMAIN a.data /\ Rows(b) = Rows(a)  BY <1>5 DEF Rows
<1>7. LocallyFormed(s, b)
  <2>1. b.data = [r \in 0..(Rows(b) - 1) |-> b.data[r]]  BY <1>3, <1>5, <1>6
  <2>2. ASSUME NEW i \in DOMAIN b.kids
        PROVE  /\ b.kids[i].type = b.type.kids[i]
               /\ IF b.type.kind \in {"list", "map"}
                    THEN /\ Rows(b.kids[i]) >= Capacity /\ Rows(b.kids[i]) >= b.size
                         /\ \A e \in DOMAIN b.kids[i].data : e >= b.size => Clean(b.kids[i], e)
                    ELSE Rows(b.kids[i]) = KidRows(b.type, Rows(b))
    BY <1>3, <1>5, <1>6 DEF LocallyFormed
  <2>3. /\ b.type \in AllTypes(s) /\ b.kids = [i \in DOMAIN b.type.kids |-> b.kids[i]] /\ Rows(b) \in Nat
        /\ b.null \subseteq DOMAIN b.data /\ b.size \in Nat
    BY <1>3, <1>5, <1>6 DEF LocallyFormed
  <2> QED BY <1>5, <2>1, <2>2, <2>3 DEF LocallyFormed, IsRecord
<1>8. Formed(s, b) /\ Fresh(b)  BY <1>5, <1>7, FormedEq, FreshEq
<1>9. ASSUME NEW r \in DOMAIN a.data, r # row PROVE Keeps(a, b, r)
  <2>1. b.data[r] = a.data[r] /\ r \in 0..(Rows(a) - 1)  BY <1>3, <1>5, <1>9
  <2>2. (r \in b.null <=> r \in a.null) /\ a.size <= b.size  BY <1>3, <1>5
  <2>3. \A i \in DOMAIN a.kids : \A e \in Places(a, r) :
           e \in DOMAIN a.kids[i].data => e \in DOMAIN b.kids[i].data /\ Keeps(a.kids[i], b.kids[i], e)
    BY <1>5, KeepsSelf
  <2> QED BY <1>5, <1>8, <2>1, <2>2, <2>3, KidsKeep
<1> QED BY <1>5, <1>6, <1>8, <1>9 DEF b

\* The children keep their rows, but for those `at` <<child, row>>.
KidsKept(s, a, b, at) ==
  /\ Formed(s, b) /\ Fresh(b) /\ Alike(a, b)
  /\ \A i \in DOMAIN a.kids :
       /\ Rows(b.kids[i]) = Rows(a.kids[i])
       /\ \A e \in DOMAIN a.kids[i].data : <<i, e>> \notin at => Keeps(a.kids[i], b.kids[i], e)

\* A vector keeps its own children's rows,
LEMMA KidsKeptSelf ==
  ASSUME NEW s, NEW a, Formed(s, a), Fresh(a), NEW at
  PROVE  KidsKept(s, a, a, at)
BY KeepsSelf DEF KidsKept, Alike

\* and they are kept by two changes when each keeps them.
LEMMA KidsKeptTrans ==
  ASSUME Recursion, NEW s \in Chunks, NEW a, NEW b, NEW c, NEW at1, NEW at2, Formed(s, a),
         KidsKept(s, a, b, at1), KidsKept(s, b, c, at2)
  PROVE  KidsKept(s, a, c, at1 \cup at2)
<1>1. Formed(s, b) /\ Formed(s, c) /\ b.type = a.type /\ c.type = a.type  BY DEF KidsKept, Alike
<1>2. DOMAIN b.kids = DOMAIN a.kids  BY <1>1, KidDomain
<1>3. ASSUME NEW i \in DOMAIN a.kids
      PROVE  /\ Rows(c.kids[i]) = Rows(a.kids[i])
             /\ \A e \in DOMAIN a.kids[i].data : <<i, e>> \notin at1 \cup at2 => Keeps(a.kids[i], c.kids[i], e)
  <2>1. DOMAIN b.kids[i].data = DOMAIN a.kids[i].data
    <3>1. Rows(b.kids[i]) = Rows(a.kids[i])  BY DEF KidsKept
    <3> QED BY <1>1, <1>2, <3>1, FormedFacts
  <2> QED BY <1>2, <2>1, KeepsTrans DEF KidsKept
<1> QED BY <1>3 DEF KidsKept, Alike

\* A row is kept when none of its places was written.
LEMMA RowIsKept ==
  ASSUME Recursion, NEW s \in Chunks, NEW a, NEW b, NEW at, Formed(s, a), KidsKept(s, a, b, at),
         NEW r \in DOMAIN a.data, \A i \in DOMAIN a.kids : \A e \in Places(a, r) : <<i, e>> \notin at
  PROVE  Keeps(a, b, r)
<1>1. Formed(s, b) /\ Alike(a, b)  BY DEF KidsKept
<1>2. /\ r \in 0..(Rows(a) - 1) /\ b.data[r] = a.data[r] /\ (r \in b.null <=> r \in a.null)
      /\ a.size <= b.size /\ b.type = a.type
  <2>1. DOMAIN a.data = 0..(Rows(a) - 1) /\ a.size \in Nat  BY FormedFacts, KidDomain
  <2> QED BY <1>1, <2>1 DEF Alike
<1>3. DOMAIN b.kids = DOMAIN a.kids  BY <1>1, <1>2, KidDomain
<1>4. ASSUME NEW i \in DOMAIN a.kids, NEW e \in Places(a, r), e \in DOMAIN a.kids[i].data
      PROVE  e \in DOMAIN b.kids[i].data /\ Keeps(a.kids[i], b.kids[i], e)
  <2>1. Rows(b.kids[i]) = Rows(a.kids[i])  BY DEF KidsKept
  <2>2. DOMAIN b.kids[i].data = DOMAIN a.kids[i].data  BY <1>1, <1>3, <2>1, FormedFacts
  <2> QED BY <1>4, <2>2 DEF KidsKept
<1> QED BY <1>1, <1>2, <1>4, KidsKeep

\* One child is replaced by one that differs in a row.
LEMMA KidReplaced ==
  ASSUME Recursion, NEW s \in Chunks, NEW a, Formed(s, a), Fresh(a), NEW k \in DOMAIN a.kids,
         NEW c, Formed(s, c), Fresh(c), c.type = a.kids[k].type, Rows(c) = Rows(a.kids[k]),
         NEW row, \A e \in DOMAIN a.kids[k].data : e # row => Keeps(a.kids[k], c, e),
         a.type.kind \in {"list", "map"} => ~ (row >= a.size)
  PROVE  LET b == [a EXCEPT !.kids[k] = c]
         IN KidsKept(s, a, b, {<<k, row>>}) /\ b.kids = [a.kids EXCEPT ![k] = c]
<1> DEFINE b == [a EXCEPT !.kids[k] = c]
<1>1. /\ IsRecord(a) /\ DOMAIN a.data = 0..(Rows(a) - 1) /\ Rows(a) \in Nat /\ a.size \in Nat
      /\ LocallyFormed(s, a) /\ DOMAIN a.kids = DOMAIN a.type.kids
      /\ a.kids = [i \in DOMAIN a.kids |-> a.kids[i]]
  BY KidDomain, FormedFacts
<1>2. b = [type |-> a.type, data |-> a.data, null |-> a.null, size |-> a.size, fresh |-> a.fresh,
           kids |-> [a.kids EXCEPT ![k] = c]]
  <2>1. IsRecord(a)  BY <1>1
  <2> QED BY <2>1, KidsIs
<1> HIDE DEF b
<1>3. IsRecord(b) /\ Alike(a, b) /\ b.fresh = a.fresh /\ b.kids = [a.kids EXCEPT ![k] = c]
  BY <1>2 DEF IsRecord, Alike
<1>4. DOMAIN b.kids = DOMAIN a.kids /\ b.kids[k] = c /\ \A i \in DOMAIN a.kids : i # k => b.kids[i] = a.kids[i]
  BY <1>1, <1>3
<1>5. ASSUME NEW i \in DOMAIN a.kids
      PROVE  /\ Formed(s, b.kids[i]) /\ Fresh(b.kids[i]) /\ b.kids[i].type = a.kids[i].type
             /\ Rows(b.kids[i]) = Rows(a.kids[i])
             /\ \A e \in DOMAIN a.kids[i].data : <<i, e>> # <<k, row>> => Keeps(a.kids[i], b.kids[i], e)
  <2>1. CASE i = k  BY <1>4, <2>1
  <2>2. CASE i # k  BY <1>4, <2>2, FormedFacts, FreshEq, KeepsSelf
  <2> QED BY <2>1, <2>2
<1>6. LocallyFormed(s, b)
  <2>1. ASSUME NEW i \in DOMAIN b.kids
        PROVE  /\ b.kids[i].type = b.type.kids[i]
               /\ IF b.type.kind \in {"list", "map"}
                    THEN /\ Rows(b.kids[i]) >= Capacity /\ Rows(b.kids[i]) >= b.size
                         /\ \A e \in DOMAIN b.kids[i].data : e >= b.size => Clean(b.kids[i], e)
                    ELSE Rows(b.kids[i]) = KidRows(b.type, Rows(b))
    <3>1. /\ b.type = a.type /\ b.size = a.size /\ Rows(b) = Rows(a) /\ i \in DOMAIN a.kids
          /\ b.kids[i].type = a.kids[i].type /\ Rows(b.kids[i]) = Rows(a.kids[i])
      BY <1>3, <1>4, <1>5, <2>1 DEF Alike, Rows
    <3>2. ASSUME a.type.kind \in {"list", "map"}, NEW e \in DOMAIN b.kids[i].data, e >= b.size
          PROVE  Clean(b.kids[i], e)
      <4>1. e \in DOMAIN a.kids[i].data
        <5>1. DOMAIN b.kids[i].data = 0..(Rows(b.kids[i]) - 1)  BY <1>5, <3>1, FormedFacts
        <5>2. DOMAIN a.kids[i].data = 0..(Rows(a.kids[i]) - 1)  BY <3>1, FormedFacts
        <5> QED BY <3>1, <3>2, <5>1, <5>2
      <4>2. e # row  BY <3>1, <3>2
      <4>3. Clean(a.kids[i], e)  BY <1>1, <3>1, <3>2, <4>1 DEF LocallyFormed
      <4>4. Keeps(a.kids[i], b.kids[i], e)  BY <1>5, <3>1, <4>1, <4>2
      <4> QED BY <4>3, <4>4 DEF Keeps
    <3>3. /\ a.kids[i].type = a.type.kids[i]
          /\ IF a.type.kind \in {"list", "map"}
               THEN Rows(a.kids[i]) >= Capacity /\ Rows(a.kids[i]) >= a.size
               ELSE Rows(a.kids[i]) = KidRows(a.type, Rows(a))
      BY <1>1, <3>1 DEF LocallyFormed
    <3> QED BY <3>1, <3>2, <3>3
  <2>2. /\ b.type \in AllTypes(s) /\ b.kids = [i \in DOMAIN b.type.kids |-> b.kids[i]] /\ Rows(b) \in Nat
        /\ b.null \subseteq DOMAIN b.data /\ b.size \in Nat
        /\ b.data = [r \in 0..(Rows(b) - 1) |-> b.data[r]]
    BY <1>1, <1>3, <1>4 DEF LocallyFormed, Alike, Rows
  <2> QED BY <1>3, <2>1, <2>2 DEF LocallyFormed, IsRecord
<1>7. Formed(s, b) /\ Fresh(b)  BY <1>3, <1>4, <1>5, <1>6, FormedEq, FreshEq
<1>8. KidsKept(s, a, b, {<<k, row>>})  BY <1>3, <1>5, <1>7 DEF KidsKept
<1> QED BY <1>3, <1>8 DEF b

-----------------------------------------------------------------------------
\* What a write of v into a row of a leaves in b.
Wrote(a, b, row, v) ==
  /\ Sound(b, row) /\ LostToNull(Get(b, row), Meaning(a.type, v))
  /\ Clean(a, row) => Get(b, row) = Meaning(a.type, v)
  /\ v = Nil => row \in b.null

\* What setFn should do: take what the type takes, write it, and leave every
\* other row alone, also when the value is refused.
Outcome(s, a, row, v, d) ==
  /\ Formed(s, d.vec) /\ Fresh(d.vec) /\ d.vec.type = a.type /\ Rows(d.vec) = Rows(a)
  /\ \A r \in DOMAIN a.data : r # row => Keeps(a, d.vec, r)
  /\ d.ok <=> Takes(a.type, v)
  /\ d.ok => Wrote(a, d.vec, row, v)

\* Set does what it should to the vectors of type t.
SetsRight(s, t) ==
  \A a : Formed(s, a) /\ Fresh(a) /\ a.type = t =>
    \A row \in DOMAIN a.data : \A v \in AllValues(s) : Outcome(s, a, row, v, Set(a, row, v))

\* Set does what it should to the types that t is made of.
KidsSetRight(s, t) == \A i \in DOMAIN t.kids : SetsRight(s, t.kids[i])

\* The rows that writes go to,
Targets(ws) == {<<ws[j].kid, ws[j].row>> : j \in DOMAIN ws}

\* and that no two of them go to the same one.
Distinct(ws) ==
  \A i, j \in DOMAIN ws : i # j => <<ws[i].kid, ws[i].row>> # <<ws[j].kid, ws[j].row>>

\* What writes to the children should do.
KidsWritten(s, a, ws, d) ==
  /\ KidsKept(s, a, d.vec, Targets(ws))
  /\ d.ok <=> \A j \in DOMAIN ws : Takes(a.type.kids[ws[j].kid], ws[j].val)
  /\ d.ok /\ Distinct(ws) =>
       \A j \in DOMAIN ws : Wrote(a.kids[ws[j].kid], d.vec.kids[ws[j].kid], ws[j].row, ws[j].val)

\* What was written stays written where the row is kept,
LEMMA WroteKept ==
  ASSUME NEW a, NEW b, NEW c, NEW row, NEW v, Wrote(a, b, row, v), Keeps(b, c, row)
  PROVE  Wrote(a, c, row, v)
BY DEF Wrote, Keeps

\* and a row that is kept may be written later.
LEMMA WroteAfter ==
  ASSUME NEW a, NEW b, NEW c, NEW row, NEW v, Keeps(a, b, row), b.type = a.type, Wrote(b, c, row, v)
  PROVE  Wrote(a, c, row, v)
BY DEF Wrote, Keeps

\* Induction on a number, for a set of numbers.
LEMMA NatFrom ==
  ASSUME NEW G, 0 \in G, \A n \in Nat : n \in G => n + 1 \in G
  PROVE  \A n \in Nat : n \in G
<1> DEFINE B == {n \in Nat : n \notin G}
<1>1. SUFFICES ASSUME B # {} PROVE FALSE  OBVIOUS
<1>2. PICK m \in B : \A d \in B : m <= d
  <2>1. B \subseteq Nat  OBVIOUS
  <2> HIDE DEF B
  <2> QED BY <1>1, <2>1, LeastNat
<1>3. m \in Nat /\ m # 0 /\ m - 1 \in Nat  OBVIOUS
<1>4. m - 1 \in G
  <2>1. m - 1 \notin B  BY <1>2, <1>3
  <2> QED BY <1>3, <2>1
<1>5. m - 1 + 1 \in G  BY <1>3, <1>4
<1> QED BY <1>3, <1>5

\* One write to a child.
LEMMA WriteKidIsRight ==
  ASSUME Recursion, NEW s \in Chunks, NEW a, Formed(s, a), Fresh(a), KidsSetRight(s, a.type),
         NEW w, w.kid \in DOMAIN a.kids, w.row \in DOMAIN a.kids[w.kid].data, w.val \in AllValues(s),
         a.type.kind \in {"list", "map"} => w.row < a.size
  PROVE  LET d == WriteKid(a, w) IN
         /\ KidsKept(s, a, d.vec, {<<w.kid, w.row>>})
         /\ \A i \in DOMAIN a.kids : i # w.kid => d.vec.kids[i] = a.kids[i]
         /\ d.ok <=> Takes(a.type.kids[w.kid], w.val)
         /\ d.ok => Wrote(a.kids[w.kid], d.vec.kids[w.kid], w.row, w.val)
<1> DEFINE k == w.kid
           o == Set(a.kids[k], w.row, w.val)
           b == [a EXCEPT !.kids[k] = o.vec]
<1>1. WriteKid(a, w).ok = o.ok /\ WriteKid(a, w).vec = b  BY DEF WriteKid, Done
<1>2. /\ Formed(s, a.kids[k]) /\ Fresh(a.kids[k]) /\ a.kids[k].type = a.type.kids[k]
      /\ k \in DOMAIN a.type.kids
  BY FormedFacts, FreshEq, KidDomain
<1>3. Outcome(s, a.kids[k], w.row, w.val, o)  BY <1>2 DEF KidsSetRight, SetsRight
<1> HIDE DEF o
<1>4. KidsKept(s, a, b, {<<k, w.row>>}) /\ b.kids = [a.kids EXCEPT ![k] = o.vec]
  <2>1. /\ Formed(s, o.vec) /\ Fresh(o.vec) /\ o.vec.type = a.kids[k].type /\ Rows(o.vec) = Rows(a.kids[k])
        /\ \A e \in DOMAIN a.kids[k].data : e # w.row => Keeps(a.kids[k], o.vec, e)
    BY <1>3 DEF Outcome
  <2>2. a.type.kind \in {"list", "map"} => ~ (w.row >= a.size)
    <3>1. DOMAIN a.kids[k].data = 0..(Rows(a.kids[k]) - 1) /\ a.size \in Nat  BY FormedFacts, KidDomain
    <3> QED BY <3>1
  <2>3. ASSUME NEW c, c = o.vec
        PROVE  KidsKept(s, a, [a EXCEPT !.kids[k] = c], {<<k, w.row>>})
               /\ [a EXCEPT !.kids[k] = c].kids = [a.kids EXCEPT ![k] = c]
    <3>1. /\ Formed(s, c) /\ Fresh(c) /\ c.type = a.kids[k].type /\ Rows(c) = Rows(a.kids[k])
          /\ \A e \in DOMAIN a.kids[k].data : e # w.row => Keeps(a.kids[k], c, e)
          /\ k \in DOMAIN a.kids
      BY <2>1, <2>3
    <3> HIDE DEF k
    <3> QED BY <2>2, <3>1, KidReplaced
  <2> QED BY <2>3
<1>5. b.kids[k] = o.vec /\ \A i \in DOMAIN a.kids : i # k => b.kids[i] = a.kids[i]
  <2>1. a.kids = [i \in DOMAIN a.kids |-> a.kids[i]]  BY KidDomain
  <2> QED BY <1>4, <2>1
<1>6. (o.ok <=> Takes(a.type.kids[k], w.val)) /\ (o.ok => Wrote(a.kids[k], o.vec, w.row, w.val))
  BY <1>2, <1>3 DEF Outcome
<1> HIDE DEF b
<1> QED BY <1>1, <1>4, <1>5, <1>6

\* Child writes touch no other row, and all reach their rows when none is refused.
LEMMA WriteKidsIsRight ==
  ASSUME Recursion, NEW s \in Chunks
  PROVE  \A a, ws : Formed(s, a) /\ Fresh(a) /\ KidsSetRight(s, a.type) /\ AreWrites(s, a, ws) =>
                      KidsWritten(s, a, ws, WriteKids(a, ws))
<1> DEFINE Right(a, ws) == Formed(s, a) /\ Fresh(a) /\ KidsSetRight(s, a.type) /\ AreWrites(s, a, ws) =>
                             KidsWritten(s, a, ws, WriteKids(a, ws))
           G == {n \in Nat : \A a, ws : ws \in Seq([kid : DOMAIN a.kids, row : Nat, val : AllValues(s)]) /\ Len(ws) = n
                               => Right(a, ws)}
<1>1. 0 \in G
  <2>1. ASSUME NEW a, NEW ws, ws \in Seq([kid : DOMAIN a.kids, row : Nat, val : AllValues(s)]), Len(ws) = 0,
               Formed(s, a), Fresh(a), KidsSetRight(s, a.type), AreWrites(s, a, ws)
        PROVE  KidsWritten(s, a, ws, WriteKids(a, ws))
    <3>1. ws = <<>> /\ DOMAIN ws = {}  BY <2>1
    <3>2. WriteKids(a, ws) = WriteKidsDef(a, ws)  BY <2>1 DEF Recursion, OfWrites
    <3>3. WriteKids(a, ws).ok = TRUE /\ WriteKids(a, ws).vec = a  BY <3>1, <3>2 DEF WriteKidsDef, Done
    <3>4. KidsKept(s, a, a, Targets(ws))  BY <2>1, KidsKeptSelf
    <3> QED BY <3>1, <3>3, <3>4 DEF KidsWritten
  <2> QED BY <2>1
<1>2. ASSUME NEW n \in Nat, n \in G PROVE n + 1 \in G
  <2>1. ASSUME NEW a, NEW ws, ws \in Seq([kid : DOMAIN a.kids, row : Nat, val : AllValues(s)]), Len(ws) = n + 1,
               Formed(s, a), Fresh(a), KidsSetRight(s, a.type), AreWrites(s, a, ws)
        PROVE  KidsWritten(s, a, ws, WriteKids(a, ws))
    <3> DEFINE w == ws[1]
               rest == Tail(ws)
               first == WriteKid(a, w)
               b == first.vec
               d == WriteKids(b, rest)
    <3>1. /\ ws # <<>> /\ Head(ws) = w /\ DOMAIN ws = 1..(n + 1) /\ 1 \in DOMAIN ws
          /\ rest \in Seq([kid : DOMAIN a.kids, row : Nat, val : AllValues(s)])
          /\ Len(rest) = n /\ DOMAIN rest = 1..n /\ \A j \in 1..n : rest[j] = ws[j + 1]
      BY <2>1
    <3>2. WriteKids(a, ws) = IF first.ok THEN d ELSE first
      <4>1. WriteKids(a, ws) = WriteKidsDef(a, ws)  BY <2>1 DEF Recursion, OfWrites
      <4>2. Head(ws) = w /\ ws # <<>>  BY <3>1
      <4>3. WriteKidsDef(a, ws) = IF WriteKid(a, Head(ws)).ok
                                    THEN WriteKids(WriteKid(a, Head(ws)).vec, Tail(ws))
                                    ELSE WriteKid(a, Head(ws))
        BY <4>2 DEF WriteKidsDef
      <4> QED BY <4>1, <4>2, <4>3
    <3>3. \A j \in DOMAIN ws : /\ ws[j].kid \in DOMAIN a.kids /\ ws[j].val \in AllValues(s) /\ ws[j].row \in Nat
                               /\ ws[j].row \in DOMAIN a.kids[ws[j].kid].data
                               /\ a.type.kind \in {"list", "map"} => ws[j].row < a.size
      <4>1. \A j \in DOMAIN ws : ws[j] \in [kid : DOMAIN a.kids, row : Nat, val : AllValues(s)]
        <5>1. ASSUME NEW S, ws \in Seq(S), NEW j \in DOMAIN ws PROVE ws[j] \in S  BY <5>1
        <5> QED BY <2>1, <5>1
      <4>2. \A j \in DOMAIN ws : /\ ws[j].row \in DOMAIN a.kids[ws[j].kid].data
                                 /\ a.type.kind \in {"list", "map"} => ws[j].row < a.size
        BY <2>1 DEF AreWrites
      <4> QED BY <4>1, <4>2
    <3>4. /\ KidsKept(s, a, b, {<<w.kid, w.row>>})
          /\ first.ok <=> Takes(a.type.kids[w.kid], w.val)
          /\ first.ok => Wrote(a.kids[w.kid], b.kids[w.kid], w.row, w.val)
      <4>1. /\ w.kid \in DOMAIN a.kids /\ w.row \in DOMAIN a.kids[w.kid].data /\ w.val \in AllValues(s)
            /\ a.type.kind \in {"list", "map"} => w.row < a.size
        BY <3>1, <3>3
      <4> HIDE DEF w
      <4> QED BY <2>1, <4>1, WriteKidIsRight
    <3> HIDE DEF first, b, d, w, rest
    <3>5. /\ Formed(s, b) /\ Fresh(b) /\ b.type = a.type /\ b.size = a.size
          /\ DOMAIN b.kids = DOMAIN a.kids
          /\ \A i \in DOMAIN a.kids : b.kids[i].type = a.kids[i].type /\ DOMAIN b.kids[i].data = DOMAIN a.kids[i].data
      <4>1. Formed(s, b) /\ Fresh(b) /\ b.type = a.type /\ b.size = a.size  BY <3>4 DEF KidsKept, Alike
      <4>2. DOMAIN b.kids = DOMAIN a.kids  BY <2>1, <4>1, KidDomain
      <4>3. ASSUME NEW i \in DOMAIN a.kids
            PROVE  b.kids[i].type = a.kids[i].type /\ DOMAIN b.kids[i].data = DOMAIN a.kids[i].data
        <5>1. Rows(b.kids[i]) = Rows(a.kids[i])  BY <3>4 DEF KidsKept
        <5>2. b.kids[i].type = a.type.kids[i] /\ DOMAIN b.kids[i].data = 0..(Rows(a.kids[i]) - 1)
          BY <4>1, <4>2, <5>1, FormedFacts
        <5>3. a.kids[i].type = a.type.kids[i] /\ DOMAIN a.kids[i].data = 0..(Rows(a.kids[i]) - 1)
          BY <2>1, FormedFacts
        <5> QED BY <5>2, <5>3
      <4> QED BY <4>1, <4>2, <4>3
    <3>6. AreWrites(s, b, rest)
      <4>1. \A j \in DOMAIN rest : /\ rest[j].row \in DOMAIN b.kids[rest[j].kid].data
                                   /\ b.type.kind \in {"list", "map"} => rest[j].row < b.size
        <5>1. ASSUME NEW j \in 1..n
              PROVE  /\ rest[j].row \in DOMAIN b.kids[rest[j].kid].data
                     /\ b.type.kind \in {"list", "map"} => rest[j].row < b.size
          <6>1. j + 1 \in DOMAIN ws /\ rest[j] = ws[j + 1]  BY <3>1
          <6> QED BY <3>3, <3>5, <6>1
        <5> QED BY <3>1, <5>1
      <4> QED BY <3>1, <3>5, <4>1 DEF AreWrites
    <3>7. KidsWritten(s, b, rest, d)
      <4>1. Right(b, rest)  BY <1>2, <3>1, <3>5
      <4> QED BY <2>1, <3>5, <3>6, <4>1 DEF d
    <3>8. Targets(ws) = {<<w.kid, w.row>>} \cup Targets(rest)
      <4>1. \A j \in DOMAIN ws : j = 1 \/ (j - 1 \in 1..n /\ ws[j] = rest[j - 1])  BY <3>1
      <4>2. \A j \in 1..n : j + 1 \in DOMAIN ws /\ rest[j] = ws[j + 1]  BY <3>1
      <4> QED BY <3>1, <4>1, <4>2 DEF Targets, w
    <3>9. CASE ~ first.ok
      <4>1. KidsKept(s, a, b, Targets(ws))  BY <3>4, <3>8 DEF KidsKept
      <4>2. ~ (\A j \in DOMAIN ws : Takes(a.type.kids[ws[j].kid], ws[j].val))  BY <3>1, <3>4, <3>9 DEF w
      <4>3. WriteKids(a, ws).vec = b /\ WriteKids(a, ws).ok = first.ok  BY <3>2, <3>9 DEF b
      <4> QED BY <3>9, <4>1, <4>2, <4>3 DEF KidsWritten
    <3>10. CASE first.ok
      <4>0. WriteKids(a, ws) = d  BY <3>2, <3>10
      <4>1. KidsKept(s, a, d.vec, Targets(ws))
        <5>1. KidsKept(s, b, d.vec, Targets(rest))  BY <3>7 DEF KidsWritten
        <5> QED BY <2>1, <3>4, <3>8, <5>1, KidsKeptTrans
      <4>2. d.ok <=> \A j \in DOMAIN ws : Takes(a.type.kids[ws[j].kid], ws[j].val)
        <5>1. d.ok <=> \A j \in 1..n : Takes(a.type.kids[rest[j].kid], rest[j].val)
          BY <3>1, <3>5, <3>7 DEF KidsWritten
        <5>2. Takes(a.type.kids[ws[1].kid], ws[1].val)  BY <3>4, <3>10 DEF w
        <5>3. \A j \in DOMAIN ws : j = 1 \/ (j - 1 \in 1..n /\ ws[j] = rest[j - 1])  BY <3>1
        <5>4. \A j \in 1..n : j + 1 \in DOMAIN ws /\ rest[j] = ws[j + 1]  BY <3>1
        <5> QED BY <5>1, <5>2, <5>3, <5>4
      <4>3. ASSUME d.ok, Distinct(ws), NEW j \in DOMAIN ws
            PROVE  Wrote(a.kids[ws[j].kid], d.vec.kids[ws[j].kid], ws[j].row, ws[j].val)
        <5>1. KidsKept(s, b, d.vec, Targets(rest))  BY <3>7 DEF KidsWritten
        <5>2. CASE j = 1
          <6>1. <<w.kid, w.row>> \notin Targets(rest)
            <7>1. ASSUME NEW m \in 1..n PROVE <<ws[1].kid, ws[1].row>> # <<rest[m].kid, rest[m].row>>
              <8>1. m + 1 \in DOMAIN ws /\ rest[m] = ws[m + 1] /\ m + 1 # 1  BY <3>1
              <8> QED BY <3>1, <4>3, <8>1 DEF Distinct
            <7> QED BY <3>1, <7>1 DEF Targets, w
          <6>2. w.kid \in DOMAIN b.kids /\ w.row \in DOMAIN b.kids[w.kid].data
            BY <3>1, <3>3, <3>5 DEF w
          <6>3. Keeps(b.kids[w.kid], d.vec.kids[w.kid], w.row)  BY <5>1, <6>1, <6>2 DEF KidsKept
          <6>4. Wrote(a.kids[w.kid], d.vec.kids[w.kid], w.row, w.val)  BY <3>4, <3>10, <6>3, WroteKept
          <6> QED BY <5>2, <6>4 DEF w
        <5>3. CASE j # 1
          <6>1. j - 1 \in 1..n /\ ws[j] = rest[j - 1]  BY <3>1, <5>3
          <6>2. Distinct(rest)
            <7>1. ASSUME NEW p \in 1..n, NEW q \in 1..n, p # q
                  PROVE  <<rest[p].kid, rest[p].row>> # <<rest[q].kid, rest[q].row>>
              <8>1. p + 1 \in DOMAIN ws /\ rest[p] = ws[p + 1] /\ q + 1 \in DOMAIN ws /\ rest[q] = ws[q + 1] /\ p + 1 # q + 1
                BY <3>1, <7>1
              <8> QED BY <4>3, <8>1 DEF Distinct
            <7> QED BY <3>1, <7>1 DEF Distinct
          <6>3. Wrote(b.kids[ws[j].kid], d.vec.kids[ws[j].kid], ws[j].row, ws[j].val)
            BY <3>1, <3>7, <4>3, <6>1, <6>2 DEF KidsWritten
          <6>4. <<ws[j].kid, ws[j].row>> # <<w.kid, w.row>>  BY <3>1, <4>3, <5>3 DEF Distinct, w
          <6>5. Keeps(a.kids[ws[j].kid], b.kids[ws[j].kid], ws[j].row)
            BY <3>3, <3>4, <6>4 DEF KidsKept
          <6> QED BY <3>3, <3>5, <6>3, <6>5, WroteAfter
        <5> QED BY <5>2, <5>3
      <4> QED BY <4>0, <4>1, <4>2, <4>3 DEF KidsWritten
    <3> QED BY <3>9, <3>10
  <2> QED BY <2>1
<1>3. \A n \in Nat : n \in G
  <2> HIDE DEF G
  <2> QED BY <1>1, <1>2, NatFrom
<1>4. ASSUME NEW a, NEW ws, AreWrites(s, a, ws)
      PROVE  ws \in Seq([kid : DOMAIN a.kids, row : Nat, val : AllValues(s)]) /\ Len(ws) \in Nat
  <2>1. ws \in Seq([kid : DOMAIN a.kids, row : Nat, val : AllValues(s)])  BY <1>4 DEF AreWrites
  <2> QED BY <2>1
<1> QED BY <1>3, <1>4

-----------------------------------------------------------------------------
\* What is assumed of values, in the form in which it is used.
LEMMA ValueFacts ==
  ASSUME NEW s \in Chunks, NEW v \in AllValues(s)
  PROVE  /\ (v.go = "nil" => v = Nil) /\ (v.go = "string" => v = Str(v.str))
         /\ v.go = "slice" => v.slice \in Seq(AllValues(s))
         /\ v.go = "map[string]any" => \A n \in DOMAIN v.fields : v.fields[n] \in AllValues(s)
         /\ v.go = "Map" => IsFiniteSet(v.pairs) /\ \A p \in v.pairs : Entry(p) \in AllValues(s)
         /\ v.go = "Union" => v.value \in AllValues(s)
         /\ v.go = "Map" => \A t \in AllTypes(s) : t.kind = "map" => KeysDiffer(t, v)
         /\ \A t \in AllTypes(s) : t.kind \in Leaves /\ LeafTakes(t, v) => Convertible(t, v)
<1>1. /\ PartsOfValue(v) \subseteq AllValues(s)
      /\ (v.go = "nil" => v = Nil) /\ (v.go = "string" => v = Str(v.str))
      /\ v.go = "slice" => v.slice \in Seq(AllValues(s))
      /\ v.go = "Map" => IsFiniteSet(v.pairs)
      /\ v.go = "Map" => \A t \in AllTypes(s) : t.kind = "map" => KeysDiffer(t, v)
      /\ \A t \in AllTypes(s) : t.kind \in Leaves /\ LeafTakes(t, v) => Convertible(t, v)
  BY ValuesAssumption, Zenon
<1>2. ASSUME v.go = "map[string]any", NEW n \in DOMAIN v.fields PROVE v.fields[n] \in AllValues(s)
  <2>1. PartsOfValue(v) = Range(v.fields)  BY <1>2 DEF PartsOfValue
  <2> QED BY <1>1, <1>2, <2>1 DEF Range
<1>3. ASSUME v.go = "Map", NEW p \in v.pairs PROVE Entry(p) \in AllValues(s)
  <2>1. PartsOfValue(v) = {Entry(q) : q \in v.pairs}  BY <1>3 DEF PartsOfValue
  <2> QED BY <1>1, <1>3, <2>1
<1>4. ASSUME v.go = "Union" PROVE v.value \in AllValues(s)
  <2>1. PartsOfValue(v) = {v.value}  BY <1>4 DEF PartsOfValue
  <2> QED BY <1>1, <2>1
<1> QED BY <1>1, <1>2, <1>3, <1>4

\* nil is among the values.
LEMMA NilIsValue == \A s : Nil \in AllValues(s) /\ Nil.go = "nil"
BY DEF AllValues, Nil

\* Takes and Meaning, of a type of the chunk.
LEMMA TypeEq ==
  ASSUME Recursion, NEW s \in Chunks, NEW t \in AllTypes(s), NEW v
  PROVE  /\ Takes(t, v) <=> TakesDef(t, v)
         /\ Takes(t, v) => Meaning(t, v) = MeaningDef(t, v)
<1>1. t \in AnyType  BY TypeFacts
<1> QED BY <1>1 DEF Recursion, OfTypes

\* LostToNull, one level down.
LEMMA LostEq ==
  ASSUME Recursion, NEW a, NEW b
  PROVE  LostToNull(a, b) <=> LostToNullDef(a, b)
BY DEF Recursion, OfParts

\* A value that equals another, or is NULL, has at most lost some of it.
LEMMA LostSome ==
  ASSUME Recursion
  PROVE  \A a : LostToNull(a, a) /\ LostToNull(Nil, a)
BY LostEq DEF LostToNullDef

\* What setFn does for each kind of type.
LEMMA Dispatch ==
  ASSUME Recursion, NEW s \in Chunks, NEW a, Formed(s, a), NEW row \in DOMAIN a.data, NEW v \in AllValues(s)
  PROVE  LET k == a.type.kind  d == Set(a, row, v) IN
         /\ v.go = "nil" => d = Done(TRUE, SetNull(a, row))
         /\ v.go # "nil" =>
              /\ k \in Leaves => d = IF LeafTakes(a.type, v)
                                       THEN Done(TRUE, SetPrimitive(a, row, LeafStored(a.type, v)))
                                       ELSE Done(FALSE, a)
              /\ k = "enum" => d = IF v.go = "string" THEN SetEnum(a, row, v.str) ELSE Done(FALSE, a)
              /\ k = "list" => d = IF v.go = "slice" THEN SetList(a, row, v.slice) ELSE Done(FALSE, a)
              /\ k = "array" => d = IF v.go = "slice" THEN SetArray(a, row, v.slice) ELSE Done(FALSE, a)
              /\ k = "struct" => d = IF v.go = "map[string]any" THEN SetStruct(a, row, v.fields) ELSE Done(FALSE, a)
              /\ k = "map" => d = IF v.go = "Map" THEN SetMap(a, row, v.pairs) ELSE Done(FALSE, a)
              /\ k = "union" => d = IF v.go = "Union" THEN SetTagged(a, row, v) ELSE SetMatching(a, row, v)
<1> DEFINE k == a.type.kind
           d == Set(a, row, v)
<1>1. d = SetDef(a, row, v)  BY DEF Recursion, OfWrites
<1> HIDE DEF d
<1>2. CASE v.go = "nil"  BY <1>1, <1>2 DEF SetDef, Leaves, d
<1>3. ASSUME v.go # "nil", k \in Leaves
      PROVE  d = IF LeafTakes(a.type, v) THEN Done(TRUE, SetPrimitive(a, row, LeafStored(a.type, v)))
                 ELSE Done(FALSE, a)
  BY <1>1, <1>3 DEF SetDef, Leaves
<1>4. ASSUME v.go # "nil", k = "enum"
      PROVE  d = IF v.go = "string" THEN SetEnum(a, row, v.str) ELSE Done(FALSE, a)
  BY <1>1, <1>4 DEF SetDef, Leaves
<1>5. ASSUME v.go # "nil", k = "list"
      PROVE  d = IF v.go = "slice" THEN SetList(a, row, v.slice) ELSE Done(FALSE, a)
  BY <1>1, <1>5 DEF SetDef, Leaves
<1>6. ASSUME v.go # "nil", k = "array"
      PROVE  d = IF v.go = "slice" THEN SetArray(a, row, v.slice) ELSE Done(FALSE, a)
  BY <1>1, <1>6 DEF SetDef, Leaves
<1>7. ASSUME v.go # "nil", k = "struct"
      PROVE  d = IF v.go = "map[string]any" THEN SetStruct(a, row, v.fields) ELSE Done(FALSE, a)
  BY <1>1, <1>7 DEF SetDef, Leaves
<1>8. ASSUME v.go # "nil", k = "map"
      PROVE  d = IF v.go = "Map" THEN SetMap(a, row, v.pairs) ELSE Done(FALSE, a)
  BY <1>1, <1>8 DEF SetDef, Leaves
<1>9. ASSUME v.go # "nil", k = "union"
      PROVE  d = IF v.go = "Union" THEN SetTagged(a, row, v) ELSE SetMatching(a, row, v)
  BY <1>1, <1>9 DEF SetDef, Leaves
<1> QED BY <1>2, <1>3, <1>4, <1>5, <1>6, <1>7, <1>8, <1>9 DEF d

\* A refused value that touches nothing.
LEMMA Untouched ==
  ASSUME NEW s, NEW a, Formed(s, a), Fresh(a), NEW row, NEW v, ~ Takes(a.type, v)
  PROVE  Outcome(s, a, row, v, Done(FALSE, a))
<1>1. Done(FALSE, a).ok = FALSE /\ Done(FALSE, a).vec = a  BY DEF Done
<1> QED BY <1>1, KeepsSelf DEF Outcome

\* A NULL, to every type.
LEMMA SetNil ==
  ASSUME Recursion, NEW s \in Chunks, NEW a, Formed(s, a), Fresh(a), NEW row \in DOMAIN a.data
  PROVE  Outcome(s, a, row, Nil, Set(a, row, Nil))
<1> DEFINE b == SetNull(a, row)
           d == Set(a, row, Nil)
<1>1. d = Done(TRUE, b)  BY NilIsValue, Dispatch
<1>2. d.ok = TRUE /\ d.vec = b  BY <1>1 DEF Done
<1>3. NullRight(s, a, b, row)  BY SetNullIsRight
<1> HIDE DEF b, d
<1>4. Formed(s, b) /\ Fresh(b) /\ b.type = a.type /\ Rows(b) = Rows(a) /\ row \in b.null
      /\ \A r \in DOMAIN a.data : r # row => Keeps(a, b, r)
  BY <1>3 DEF NullRight, Rows
<1>5. a.type \in AllTypes(s)  BY KidDomain
<1>6. Takes(a.type, Nil)  BY <1>5, TypeEq, NilIsValue DEF TakesDef
<1>7. Meaning(a.type, Nil) = Nil
  <2>1. Meaning(a.type, Nil) = MeaningDef(a.type, Nil)  BY <1>5, <1>6, TypeEq
  <2> QED BY <2>1, NilIsValue DEF MeaningDef
<1>8. Get(b, row) = Nil /\ Sound(b, row)
  <2>1. IsVector(b)  BY <1>4, FormedFacts
  <2> QED BY <1>4, <2>1, GetEq, SoundEq
<1>9. Wrote(a, b, row, Nil)  BY <1>4, <1>7, <1>8, LostSome DEF Wrote
<1> QED BY <1>2, <1>4, <1>6, <1>9 DEF Outcome, d

\* A clean row is not NULL.
LEMMA CleanNotNull ==
  ASSUME Recursion, NEW s \in Chunks, NEW a, Formed(s, a), NEW row, Clean(a, row)
  PROVE  row \notin a.null
<1>1. IsVector(a)  BY FormedFacts
<1> QED BY <1>1, VectorEq DEF CleanDef

\* A value of a type that is not nested.
LEMMA SetPlain ==
  ASSUME Recursion, NEW s \in Chunks, NEW a, Formed(s, a), Fresh(a), NEW row \in DOMAIN a.data,
         NEW v \in AllValues(s), v.go # "nil", a.type.kind \in Leaves \cup {"enum"}, NEW x,
         Takes(a.type, v),
         \A b : b.type = a.type /\ b.data[row] = x /\ IsVector(b) /\ row \notin b.null =>
                  Get(b, row) = Meaning(a.type, v)
  PROVE  Outcome(s, a, row, v, Done(TRUE, SetPrimitive(a, row, x)))
<1> DEFINE b == SetPrimitive(a, row, x)
           d == Done(TRUE, b)
<1>1. d.ok = TRUE /\ d.vec = b  BY DEF Done
<1>2. /\ Formed(s, b) /\ Fresh(b) /\ b.type = a.type /\ b.null = a.null /\ Rows(b) = Rows(a)
      /\ b.data = [a.data EXCEPT ![row] = x]
      /\ \A r \in DOMAIN a.data : r # row => Keeps(a, b, r)
  BY SetPrimitiveIsRight
<1> HIDE DEF b, d
<1>3. IsVector(b) /\ b.data[row] = x  BY <1>2, FormedFacts
<1>4. b.type.kind \notin Nested /\ b.type.kind # "union"  BY <1>2 DEF Leaves, Nested
<1>5. Sound(b, row)  BY <1>4, SoundLeaf
<1>6. row \notin b.null => Get(b, row) = Meaning(a.type, v)  BY <1>2, <1>3
<1>7. row \in b.null => Get(b, row) = Nil  BY <1>3, <1>4, GetEq
<1>8. Clean(a, row) => row \notin b.null  BY <1>2, CleanNotNull
<1>9. LostToNull(Get(b, row), Meaning(a.type, v))  BY <1>6, <1>7, LostSome
<1>10. v # Nil  BY NilIsValue
<1>11. Wrote(a, b, row, v)  BY <1>5, <1>6, <1>8, <1>9, <1>10 DEF Wrote
<1>12. Outcome(s, a, row, v, d)  BY <1>1, <1>2, <1>11 DEF Outcome
<1> QED BY <1>12 DEF d, b

\* A value of a leaf type.
LEMMA SetLeaf ==
  ASSUME Recursion, NEW s \in Chunks, NEW a, Formed(s, a), Fresh(a), NEW row \in DOMAIN a.data,
         NEW v \in AllValues(s), v.go # "nil", a.type.kind \in Leaves
  PROVE  Outcome(s, a, row, v, Set(a, row, v))
<1> DEFINE t == a.type
<1>1. t \in AllTypes(s) /\ v # Nil  BY KidDomain, NilIsValue
<1>2. LeafReadsBack(t, v)
  <2>1. IsType(t) /\ (LeafTakes(t, v) => Convertible(t, v))  BY <1>1, TypesAssumption, ValueFacts
  <2> QED BY <2>1, LeavesReadBack
<1>3. Takes(t, v) <=> LeafTakes(t, v) /\ LeafFits(t, v)
  BY <1>1, TypeEq DEF TakesDef, Leaves
<1>4. Set(a, row, v) = IF LeafTakes(t, v) THEN Done(TRUE, SetPrimitive(a, row, LeafStored(t, v)))
                       ELSE Done(FALSE, a)
  BY Dispatch
<1>5. CASE LeafTakes(t, v)
  <2>1. Takes(t, v)  BY <1>2, <1>3, <1>5 DEF LeafReadsBack
  <2>2. Meaning(t, v) = LeafMeaning(t, v)
    <3>1. Meaning(t, v) = MeaningDef(t, v)  BY <1>1, <2>1, TypeEq
    <3>2. v.go \notin {"slice", "map[string]any", "Map", "Union", "string"}
      BY <1>5 DEF LeafTakes, Leaves, Integral
    <3> QED BY <3>1, <3>2 DEF MeaningDef, Leaves
  <2>3. ASSUME NEW b, b.type = t, b.data[row] = LeafStored(t, v), IsVector(b), row \notin b.null
        PROVE  Get(b, row) = Meaning(t, v)
    <3>1. b.type.kind # "union"  BY <2>3 DEF Leaves
    <3>2. Get(b, row) = LeafRead(t, LeafStored(t, v))  BY <2>3, <3>1, GetEq
    <3> QED BY <1>2, <1>5, <2>2, <3>2 DEF LeafReadsBack
  <2>4. Outcome(s, a, row, v, Done(TRUE, SetPrimitive(a, row, LeafStored(t, v))))
    BY <2>1, <2>3, SetPlain
  <2> QED BY <1>4, <1>5, <2>4
<1>6. CASE ~ LeafTakes(t, v)
  <2>1. ~ Takes(t, v)  BY <1>3, <1>6
  <2> QED BY <1>4, <1>6, <2>1, Untouched
<1> QED BY <1>5, <1>6

\* A value of an ENUM.
LEMMA SetEnumValue ==
  ASSUME Recursion, NEW s \in Chunks, NEW a, Formed(s, a), Fresh(a), NEW row \in DOMAIN a.data,
         NEW v \in AllValues(s), v.go # "nil", a.type.kind = "enum"
  PROVE  Outcome(s, a, row, v, Set(a, row, v))
<1> DEFINE t == a.type
           x == IndexIn(t.dict, v.str) - 1
<1>1. t \in AllTypes(s) /\ IsType(t) /\ t.kind = "enum"  BY KidDomain, FormedFacts
<1>2. t.dict \in Seq(STRING) /\ IsInjective(t.dict) /\ t.internal = "UTINYINT"  BY <1>1 DEF IsType
<1>3. Takes(t, v) <=> v.go = "string" /\ v.str \in Range(t.dict)
  BY <1>1, TypeEq DEF TakesDef, Leaves
<1>4. Set(a, row, v) = IF v.go = "string" THEN SetEnum(a, row, v.str) ELSE Done(FALSE, a)
  BY Dispatch
<1>5. CASE v.go = "string" /\ v.str \in Range(t.dict)
  <2>1. Set(a, row, v) = Done(TRUE, SetPrimitive(a, row, x))  BY <1>2, <1>4, <1>5 DEF SetEnum
  <2>2. Meaning(t, v) = Str(v.str)
    <3>1. Meaning(t, v) = MeaningDef(t, v) /\ v = Str(v.str)  BY <1>1, <1>3, <1>5, TypeEq, ValueFacts
    <3> QED BY <1>5, <3>1, <1>1 DEF MeaningDef, Leaves
  <2>3. x + 1 \in DOMAIN t.dict /\ t.dict[x + 1] = v.str
    <3>1. IndexIn(t.dict, v.str) \in DOMAIN t.dict /\ t.dict[IndexIn(t.dict, v.str)] = v.str
      BY <1>5 DEF IndexIn, Range
    <3>2. IndexIn(t.dict, v.str) \in Int  BY <1>2, <3>1
    <3>3. x + 1 = IndexIn(t.dict, v.str)  BY <3>2
    <3> QED BY <3>1, <3>3
  <2>4. ASSUME NEW b, b.type = t, b.data[row] = x, IsVector(b), row \notin b.null
        PROVE  Get(b, row) = Meaning(t, v)
    <3>1. Get(b, row) = Str(t.dict[x + 1])  BY <1>1, <2>4, GetEq
    <3> QED BY <2>2, <2>3, <3>1
  <2>5. Takes(t, v)  BY <1>3, <1>5
  <2> HIDE DEF x
  <2>6. Outcome(s, a, row, v, Done(TRUE, SetPrimitive(a, row, x)))  BY <1>1, <2>4, <2>5, SetPlain
  <2> QED BY <2>1, <2>6
<1>6. CASE ~ (v.go = "string" /\ v.str \in Range(t.dict))
  <2>1. ~ Takes(t, v)  BY <1>3, <1>6
  <2>2. Set(a, row, v) = Done(FALSE, a)  BY <1>4, <1>6 DEF SetEnum
  <2> QED BY <2>1, <2>2, Untouched
<1> QED BY <1>5, <1>6

-----------------------------------------------------------------------------
\* A list whose child has another size.
LEMMA SizeIs ==
  ASSUME NEW a, IsRecord(a), NEW n
  PROVE  [a EXCEPT !.size = n] = [type |-> a.type, data |-> a.data, null |-> a.null, size |-> n,
                                  fresh |-> a.fresh, kids |-> a.kids]
BY DEF IsRecord

\* ListVectorReserve and SetSize: the child keeps its rows, and those that the
\* earlier lists do not use are clean.
LEMMA ReserveIsRight ==
  ASSUME Recursion, NEW s \in Chunks, NEW a, Formed(s, a), a.type.kind \in {"list", "map"},
         NEW n \in Nat, a.size <= n
  PROVE  LET b == [Reserve(a, n) EXCEPT !.size = n] IN
         /\ Formed(s, b) /\ b.type = a.type /\ b.data = a.data /\ b.null = a.null /\ b.size = n
         /\ b.fresh = a.fresh
         /\ \A e \in DOMAIN a.kids[1].data : e \in DOMAIN b.kids[1].data /\ Keeps(a.kids[1], b.kids[1], e)
         /\ \A e \in DOMAIN b.kids[1].data : e >= a.size => Clean(b.kids[1], e)
         /\ Rows(b.kids[1]) >= n
<1> DEFINE kid == a.kids[1]
           m == Rows(kid)
           big == IF n > m THEN Grow(kid, n) ELSE kid
           kids == [a.kids EXCEPT ![1] = big]
           b == [Reserve(a, n) EXCEPT !.size = n]
<1>1. /\ IsRecord(a) /\ a.type \in AllTypes(s) /\ a.size \in Nat /\ LocallyFormed(s, a)
      /\ DOMAIN a.data = 0..(Rows(a) - 1) /\ Rows(a) \in Nat
      /\ a.kids = [i \in DOMAIN a.kids |-> a.kids[i]]
  BY KidDomain, FormedFacts
<1>2. DOMAIN a.kids = {1} /\ DOMAIN a.type.kids = {1}
  <2>1. Len(a.type.kids) = 1  BY FormedFacts DEF IsType
  <2>2. DOMAIN a.kids = 1..1  BY <2>1, FormedFacts
  <2>3. DOMAIN a.kids = DOMAIN a.type.kids  BY KidDomain
  <2> QED BY <2>2, <2>3
<1>3. /\ Formed(s, kid) /\ m \in Nat /\ DOMAIN kid.data = 0..(m - 1) /\ kid.type = a.type.kids[1]
      /\ m >= Capacity /\ m >= a.size
      /\ \A e \in DOMAIN kid.data : e >= a.size => Clean(kid, e)
  BY <1>1, <1>2, FormedFacts DEF LocallyFormed
<1> HIDE DEF kid
<1>4. /\ Formed(s, big) /\ big.type = kid.type /\ Rows(big) >= n /\ Rows(big) >= m
      /\ \A e \in DOMAIN kid.data : e \in DOMAIN big.data /\ Keeps(kid, big, e)
      /\ \A e \in DOMAIN big.data : e >= a.size => Clean(big, e)
  <2>1. CASE n > m
    <3>1. GrowRight(s, kid, Grow(kid, n), n)  BY <1>3, <2>1, GrowIsRight
    <3>2. big = Grow(kid, n)  BY <2>1
    <3> HIDE DEF big
    <3>3. GrowRight(s, kid, big, n)  BY <3>1, <3>2
    <3>4. Formed(s, big) /\ big.type = kid.type /\ Rows(big) = n  BY <3>3 DEF GrowRight
    <3>5. DOMAIN big.data = 0..(n - 1)  BY <3>4, FormedFacts
    <3>6. \A e \in DOMAIN kid.data : e \in DOMAIN big.data /\ Keeps(kid, big, e)
      BY <1>3, <2>1, <3>3, <3>5 DEF GrowRight
    <3>7. ASSUME NEW e \in DOMAIN big.data, e >= a.size PROVE Clean(big, e)
      <4>1. CASE e \in DOMAIN kid.data  BY <1>3, <3>6, <3>7, <4>1 DEF Keeps
      <4>2. CASE e \notin DOMAIN kid.data
        <5>1. e \in m..(n - 1)  BY <1>3, <3>5, <4>2
        <5> QED BY <3>3, <5>1 DEF GrowRight
      <4> QED BY <4>1, <4>2
    <3> QED BY <2>1, <3>4, <3>6, <3>7, <1>3
  <2>2. CASE ~ (n > m)
    <3>1. big = kid  BY <2>2
    <3> HIDE DEF big
    <3> QED BY <1>3, <2>2, <3>1, KeepsSelf
  <2> QED BY <2>1, <2>2
<1>5. b = [type |-> a.type, data |-> a.data, null |-> a.null, size |-> n, fresh |-> a.fresh, kids |-> kids]
  <2>1. CASE n > m
    <3>1. Reserve(a, n) = [a EXCEPT !.kids[1] = Grow(kid, n)]  BY <2>1 DEF Reserve, kid
    <3>2. ASSUME NEW c, c = Grow(kid, n)
          PROVE  [a EXCEPT !.kids[1] = c] =
                    [type |-> a.type, data |-> a.data, null |-> a.null, size |-> a.size, fresh |-> a.fresh,
                     kids |-> [a.kids EXCEPT ![1] = c]]
      <4>1. IsRecord(a)  BY <1>1
      <4> QED BY <4>1, KidsIs
    <3>3. kids = [a.kids EXCEPT ![1] = Grow(kid, n)]  BY <2>1
    <3> HIDE DEF kids
    <3>4. Reserve(a, n) = [type |-> a.type, data |-> a.data, null |-> a.null, size |-> a.size, fresh |-> a.fresh,
                           kids |-> kids]
      BY <3>1, <3>2, <3>3
    <3>5. IsRecord(Reserve(a, n))  BY <3>4 DEF IsRecord
    <3> QED BY <3>4, <3>5, SizeIs
  <2>2. CASE ~ (n > m)
    <3>1. Reserve(a, n) = a  BY <2>2 DEF Reserve, kid
    <3>2. kids = a.kids  BY <1>1, <1>2, <2>2 DEF kid
    <3> HIDE DEF kids
    <3> QED BY <1>1, <3>1, <3>2, SizeIs
  <2> QED BY <2>1, <2>2
<1>6. DOMAIN kids = {1} /\ kids[1] = big  BY <1>1, <1>2
<1> HIDE DEF b, kids, big
<1>7. /\ IsRecord(b) /\ b.type = a.type /\ b.data = a.data /\ b.null = a.null /\ b.size = n
      /\ b.fresh = a.fresh /\ DOMAIN b.kids = {1} /\ b.kids[1] = big /\ b.kids = kids
  BY <1>5, <1>6 DEF IsRecord
<1>8. LocallyFormed(s, b)
  <2>1. /\ b.type \in AllTypes(s) /\ b.null \subseteq DOMAIN b.data /\ b.size \in Nat
        /\ Rows(b) = Rows(a)
    BY <1>1, <1>7 DEF LocallyFormed, Rows
  <2>2. b.data = [r \in 0..(Rows(b) - 1) |-> b.data[r]]
    <3>1. a.data = [r \in 0..(Rows(a) - 1) |-> a.data[r]]  BY <1>1 DEF LocallyFormed
    <3> QED BY <1>7, <2>1, <3>1
  <2>3. b.kids = [i \in DOMAIN b.type.kids |-> b.kids[i]]
    <3>1. kids = [i \in {1} |-> kids[i]]  BY <1>1, <1>2 DEF kids
    <3> QED BY <1>2, <1>7, <3>1
  <2>4. ASSUME NEW i \in DOMAIN b.kids
        PROVE  /\ b.kids[i].type = b.type.kids[i]
               /\ Rows(b.kids[i]) >= Capacity /\ Rows(b.kids[i]) >= b.size
               /\ \A e \in DOMAIN b.kids[i].data : e >= b.size => Clean(b.kids[i], e)
    <3>1. i = 1 /\ b.kids[i] = big /\ b.size = n /\ b.type = a.type  BY <1>7, <2>4
    <3>2. Rows(big) \in Nat /\ DOMAIN big.data = 0..(Rows(big) - 1)  BY <1>4, FormedFacts
    <3>3. \A e \in DOMAIN big.data : e >= n => Clean(big, e)  BY <1>1, <1>4, <3>2
    <3> QED BY <1>3, <1>4, <3>1, <3>2, <3>3, CapacityAssumption
  <2>5. b.type.kind \in {"list", "map"}  BY <1>7
  <2> QED BY <1>1, <1>7, <2>1, <2>2, <2>3, <2>4, <2>5 DEF LocallyFormed, IsRecord
<1>9. Formed(s, b)  BY <1>4, <1>7, <1>8, FormedEq
<1> QED BY <1>4, <1>7, <1>9 DEF kid, b

\* resizeListVector also looks the addresses up again.
LEMMA RoomIsRight ==
  ASSUME Recursion, NEW s \in Chunks, NEW a, Formed(s, a), Fresh(a), a.type.kind \in {"list", "map"},
         NEW n \in Nat, a.size <= n
  PROVE  LET b == ResizeListVector(a, n) IN
         /\ Formed(s, b) /\ Fresh(b) /\ b.type = a.type /\ b.data = a.data /\ b.null = a.null /\ b.size = n
         /\ \A e \in DOMAIN a.kids[1].data : e \in DOMAIN b.kids[1].data /\ Keeps(a.kids[1], b.kids[1], e)
         /\ \A e \in DOMAIN b.kids[1].data : e >= a.size => Clean(b.kids[1], e)
         /\ Rows(b.kids[1]) >= n
<1> DEFINE z == [Reserve(a, n) EXCEPT !.size = n]
           b == ResizeListVector(a, n)
<1>1. /\ Formed(s, z) /\ z.type = a.type /\ z.data = a.data /\ z.null = a.null /\ z.size = n
      /\ z.fresh = a.fresh
      /\ \A e \in DOMAIN a.kids[1].data : e \in DOMAIN z.kids[1].data /\ Keeps(a.kids[1], z.kids[1], e)
      /\ \A e \in DOMAIN z.kids[1].data : e >= a.size => Clean(z.kids[1], e)
      /\ Rows(z.kids[1]) >= n
  BY ReserveIsRight
<1>2. b = ResetChildData(z)  BY DEF ResizeListVector
<1> HIDE DEF z, b
<1>3. ResetRight(s, z, b)  BY <1>1, <1>2, ResetChildDataIsRight
<1>4. /\ Formed(s, b) /\ b.type = a.type /\ b.data = a.data /\ b.null = a.null /\ b.size = n
      /\ b.fresh /\ \A i \in DOMAIN b.kids : Fresh(b.kids[i])
  <2>1. a.fresh  BY FreshEq
  <2> QED BY <1>1, <1>3, <2>1 DEF ResetRight, Alike
<1>5. Fresh(b)  BY <1>4, FreshEq
<1>6. 1 \in DOMAIN b.kids /\ 1 \in DOMAIN z.kids
  <2>1. Len(a.type.kids) = 1  BY FormedFacts DEF IsType
  <2>2. DOMAIN b.kids = 1..Len(b.type.kids)  BY <1>4, FormedFacts
  <2>3. DOMAIN z.kids = 1..Len(z.type.kids)  BY <1>1, FormedFacts
  <2>4. b.type = a.type /\ z.type = a.type  BY <1>1, <1>4
  <2>5. DOMAIN b.kids = 1..1 /\ DOMAIN z.kids = 1..1  BY <2>1, <2>2, <2>3, <2>4
  <2> QED BY <2>5
<1>7. Rows(b.kids[1]) = Rows(z.kids[1]) /\ KeepsAll(z.kids[1], b.kids[1])  BY <1>3, <1>6 DEF ResetRight
<1>8. DOMAIN b.kids[1].data = DOMAIN z.kids[1].data
  <2>1. DOMAIN b.kids[1].data = 0..(Rows(b.kids[1]) - 1)  BY <1>4, <1>6, FormedFacts
  <2>2. DOMAIN z.kids[1].data = 0..(Rows(z.kids[1]) - 1)  BY <1>1, <1>6, FormedFacts
  <2> QED BY <1>7, <2>1, <2>2
<1>9. \A e \in DOMAIN a.kids[1].data : e \in DOMAIN b.kids[1].data /\ Keeps(a.kids[1], b.kids[1], e)
  BY <1>1, <1>7, <1>8, KeepsTrans DEF KeepsAll
<1>10. \A e \in DOMAIN b.kids[1].data : e >= a.size => Clean(b.kids[1], e)
  BY <1>1, <1>7, <1>8 DEF KeepsAll, Keeps
<1> QED BY <1>1, <1>4, <1>5, <1>7, <1>9, <1>10 DEF b

-----------------------------------------------------------------------------
\* A function on 1..n is a sequence.
LEMMA SeqOf ==
  ASSUME NEW S, NEW n \in Nat, NEW f, f = [i \in 1..n |-> f[i]], \A i \in 1..n : f[i] \in S
  PROVE  f \in Seq(S) /\ Len(f) = n /\ DOMAIN f = 1..n
OBVIOUS

\* setList: the elements go behind those of the earlier lists, which are kept.
LEMMA SetListIsRight ==
  ASSUME Recursion, NEW s \in Chunks, NEW a, Formed(s, a), Fresh(a), NEW row \in DOMAIN a.data,
         a.type.kind \in {"list", "map"}, KidsSetRight(s, a.type), NEW list \in Seq(AllValues(s))
  PROVE  LET d == SetList(a, row, list)  t == a.type.kids[1] IN
         /\ Formed(s, d.vec) /\ Fresh(d.vec) /\ d.vec.type = a.type /\ Rows(d.vec) = Rows(a)
         /\ \A r \in DOMAIN a.data : r # row => Keeps(a, d.vec, r)
         /\ d.ok <=> \A i \in DOMAIN list : Takes(t, list[i])
         /\ d.ok => /\ Sound(d.vec, row) /\ (row \in d.vec.null <=> row \in a.null)
                    /\ ReadElements(d.vec, row) = [i \in DOMAIN list |-> Meaning(t, list[i])]
<1> DEFINE t == a.type.kids[1]
           o == a.size
           len == Len(list)
           entry == SetPrimitive(a, row, <<o, len>>)
           room == ResizeListVector(entry, len + o)
           ws == [i \in 1..len |-> At(1, o + i - 1, list[i])]
           d == WriteKids(room, ws)
           b == d.vec
<1>1. /\ len \in Nat /\ DOMAIN list = 1..len /\ \A i \in 1..len : list[i] \in AllValues(s)
  OBVIOUS
<1>2. /\ o \in Nat /\ DOMAIN a.kids = {1} /\ DOMAIN a.data = 0..(Rows(a) - 1) /\ Rows(a) \in Nat
  <2>1. Len(a.type.kids) = 1  BY FormedFacts DEF IsType
  <2>2. DOMAIN a.kids = 1..1  BY <2>1, FormedFacts
  <2>3. DOMAIN a.kids = {1}  BY <2>2
  <2>4. a.size \in Nat  BY KidDomain
  <2>5. DOMAIN a.data = 0..(Rows(a) - 1) /\ Rows(a) \in Nat  BY FormedFacts
  <2> QED BY <2>3, <2>4, <2>5
<1>3. SetList(a, row, list) = d
  BY <1>1 DEF SetList, NewLength
<1>4. /\ Formed(s, entry) /\ Fresh(entry) /\ entry.type = a.type /\ entry.null = a.null /\ entry.size = o
      /\ entry.kids = a.kids /\ entry.data = [a.data EXCEPT ![row] = <<o, len>>] /\ Rows(entry) = Rows(a)
      /\ \A r \in DOMAIN a.data : r # row => Keeps(a, entry, r)
  <2>1. ASSUME NEW x PROVE LET b0 == SetPrimitive(a, row, x) IN
           /\ Formed(s, b0) /\ Fresh(b0) /\ b0.type = a.type /\ b0.null = a.null /\ b0.size = a.size
           /\ b0.kids = a.kids /\ b0.data = [a.data EXCEPT ![row] = x] /\ Rows(b0) = Rows(a)
           /\ \A r \in DOMAIN a.data : r # row => Keeps(a, b0, r)
    BY SetPrimitiveIsRight
  <2> QED BY <2>1
<1> HIDE DEF entry, o, len
<1>5. /\ Formed(s, room) /\ Fresh(room) /\ room.type = a.type /\ room.data = entry.data
      /\ room.null = a.null /\ room.size = len + o
      /\ \A e \in DOMAIN a.kids[1].data : e \in DOMAIN room.kids[1].data /\ Keeps(a.kids[1], room.kids[1], e)
      /\ \A e \in DOMAIN room.kids[1].data : e >= o => Clean(room.kids[1], e)
      /\ Rows(room.kids[1]) >= len + o
  <2>1. len + o \in Nat /\ entry.size <= len + o  BY <1>1, <1>2, <1>4
  <2> QED BY <1>4, <2>1, RoomIsRight
<1> HIDE DEF room
<1>6. /\ DOMAIN room.kids = {1} /\ DOMAIN room.kids[1].data = 0..(Rows(room.kids[1]) - 1)
      /\ Rows(room.kids[1]) \in Nat /\ room.kids[1].type = t
  <2>1. DOMAIN room.kids = DOMAIN a.kids
    <3>1. DOMAIN room.kids = DOMAIN room.type.kids  BY <1>5, KidDomain
    <3>2. DOMAIN a.kids = DOMAIN a.type.kids  BY KidDomain
    <3> QED BY <1>5, <3>1, <3>2
  <2>2. room.kids[1].type = room.type.kids[1]  BY <1>2, <1>5, <2>1, FormedFacts
  <2> QED BY <1>2, <1>5, <2>1, <2>2, FormedFacts
<1>7. \A i \in 1..len : /\ ws[i].kid = 1 /\ ws[i].row = o + i - 1 /\ ws[i].val = list[i]
                        /\ o + i - 1 \in Nat /\ o + i - 1 >= o /\ o + i - 1 < len + o
                        /\ o + i - 1 \in DOMAIN room.kids[1].data
                        /\ ws[i] \in [kid : DOMAIN room.kids, row : Nat, val : AllValues(s)]
  <2>1. TAKE i \in 1..len
  <2>2. ws[i] = At(1, o + i - 1, list[i])  OBVIOUS
  <2>3. o + i - 1 \in Nat /\ o + i - 1 >= o /\ o + i - 1 < len + o  BY <1>1, <1>2
  <2>4. o + i - 1 \in DOMAIN room.kids[1].data  BY <1>1, <1>2, <1>5, <1>6, <2>3
  <2> HIDE DEF ws
  <2> QED BY <1>1, <1>6, <2>2, <2>3, <2>4 DEF At
<1>8. ws \in Seq([kid : DOMAIN room.kids, row : Nat, val : AllValues(s)]) /\ DOMAIN ws = 1..len
  <2>1. ws = [i \in 1..len |-> ws[i]]  OBVIOUS
  <2> HIDE DEF ws
  <2> QED BY <1>1, <1>7, <2>1, SeqOf
<1> HIDE DEF ws
<1>9. AreWrites(s, room, ws)
  BY <1>5, <1>7, <1>8 DEF AreWrites
<1>10. KidsWritten(s, room, ws, d)  BY <1>5, <1>9, WriteKidsIsRight
<1> HIDE DEF d
<1>11. KidsKept(s, room, b, Targets(ws))  BY <1>10 DEF KidsWritten
<1>12. /\ Formed(s, b) /\ Fresh(b) /\ b.type = a.type /\ b.data = entry.data /\ b.null = a.null
       /\ b.size = len + o /\ Rows(b) = Rows(a)
  BY <1>4, <1>5, <1>11 DEF KidsKept, Alike, Rows
<1>13. d.ok <=> \A i \in DOMAIN list : Takes(t, list[i])
  <2>1. d.ok <=> \A i \in 1..len : Takes(room.type.kids[ws[i].kid], ws[i].val)  BY <1>8, <1>10 DEF KidsWritten
  <2> QED BY <1>1, <1>5, <1>7, <2>1
<1>14. DOMAIN b.kids = {1} /\ DOMAIN b.kids[1].data = DOMAIN room.kids[1].data
  <2>1. DOMAIN b.kids = DOMAIN b.type.kids  BY <1>12, KidDomain
  <2>2. DOMAIN room.kids = DOMAIN room.type.kids  BY <1>5, KidDomain
  <2>3. DOMAIN b.kids = {1}  BY <1>5, <1>6, <1>12, <2>1, <2>2
  <2>4. Rows(b.kids[1]) = Rows(room.kids[1])  BY <1>6, <1>11 DEF KidsKept
  <2> QED BY <1>6, <1>12, <2>3, <2>4, FormedFacts
<1>15. ASSUME NEW r \in DOMAIN a.data, r # row PROVE Keeps(a, b, r)
  <2>1. b.data[r] = a.data[r] /\ r \in 0..(Rows(a) - 1)  BY <1>2, <1>4, <1>12, <1>15
  <2>2. (r \in b.null <=> r \in a.null) /\ a.size <= b.size /\ b.type = a.type
    BY <1>1, <1>2, <1>12 DEF o
  <2>3. ASSUME NEW i \in DOMAIN a.kids, NEW e \in Places(a, r), e \in DOMAIN a.kids[i].data
        PROVE  e \in DOMAIN b.kids[i].data /\ Keeps(a.kids[i], b.kids[i], e)
    <3>1. i = 1 /\ e \in 0..(o - 1)  BY <1>2, <2>3 DEF Places, o
    <3>2. e \in DOMAIN room.kids[1].data /\ Keeps(a.kids[1], room.kids[1], e)  BY <1>5, <2>3, <3>1
    <3>3. <<1, e>> \notin Targets(ws)
      <4>1. \A j \in 1..len : ws[j].row # e  BY <1>2, <1>7, <3>1
      <4> QED BY <1>8, <4>1 DEF Targets
    <3>4. Keeps(room.kids[1], b.kids[1], e)  BY <1>6, <1>11, <3>2, <3>3 DEF KidsKept
    <3> QED BY <1>14, <3>1, <3>2, <3>4, KeepsTrans
  <2> QED BY <1>12, <2>1, <2>2, <2>3, KidsKeep
<1>16. ASSUME d.ok
       PROVE  /\ Sound(b, row)
              /\ ReadElements(b, row) = [i \in DOMAIN list |-> Meaning(t, list[i])]
  <2>1. Distinct(ws)
    <3>1. ASSUME NEW i \in 1..len, NEW j \in 1..len, i # j PROVE ws[i].row # ws[j].row
      <4>1. ws[i].row = o + i - 1 /\ ws[j].row = o + j - 1  BY <1>7
      <4> QED BY <1>1, <1>2, <3>1, <4>1
    <3> QED BY <1>8, <3>1 DEF Distinct
  <2>2. ASSUME NEW i \in 1..len
        PROVE  Sound(b.kids[1], o + i - 1) /\ Get(b.kids[1], o + i - 1) = Meaning(t, list[i])
    <3>1. Wrote(room.kids[1], b.kids[1], o + i - 1, list[i])
      BY <1>7, <1>8, <1>10, <1>16, <2>1 DEF KidsWritten
    <3>2. Clean(room.kids[1], o + i - 1)  BY <1>5, <1>7
    <3> QED BY <1>6, <3>1, <3>2 DEF Wrote
  <2>3. b.data[row] = <<o, len>>  BY <1>4, <1>12
  <2>4. b.type.kind \in {"list", "map"} /\ First(b, row) = o /\ Count(b, row) = len
    BY <1>12, <2>3 DEF First, Count
  <2>5. Here(b, row)
    <3>1. o + len <= b.size  BY <1>1, <1>2, <1>12
    <3>2. b.type.kind # "union"  BY <2>4
    <3> QED BY <1>1, <1>2, <2>3, <3>1, <3>2 DEF Here
  <2>6. Sound(b, row)
    <3>1. CASE row \in b.null  BY <3>1, SoundEq
    <3>2. CASE row \notin b.null  BY <2>2, <2>4, <2>5, <3>2, SoundElements
    <3> QED BY <3>1, <3>2
  <2>7. ReadElements(b, row) = [i \in DOMAIN list |-> Meaning(t, list[i])]
    BY <1>1, <2>2, <2>4 DEF ReadElements
  <2> QED BY <2>6, <2>7
<1>17. row \in b.null <=> row \in a.null  BY <1>12
<1> HIDE DEF b, t
<1> QED
  <2>1. /\ Formed(s, d.vec) /\ Fresh(d.vec) /\ d.vec.type = a.type /\ Rows(d.vec) = Rows(a)
        /\ \A r \in DOMAIN a.data : r # row => Keeps(a, d.vec, r)
        /\ d.ok <=> \A i \in DOMAIN list : Takes(t, list[i])
        /\ d.ok => /\ Sound(d.vec, row) /\ (row \in d.vec.null <=> row \in a.null)
                   /\ ReadElements(d.vec, row) = [i \in DOMAIN list |-> Meaning(t, list[i])]
    BY <1>12, <1>13, <1>15, <1>16, <1>17 DEF b
  <2> QED BY <1>3, <2>1 DEF t

-----------------------------------------------------------------------------
\* A value of a LIST.
LEMMA SetListValue ==
  ASSUME Recursion, NEW s \in Chunks, NEW a, Formed(s, a), Fresh(a), NEW row \in DOMAIN a.data,
         KidsSetRight(s, a.type), NEW v \in AllValues(s), v.go # "nil", a.type.kind = "list"
  PROVE  Outcome(s, a, row, v, Set(a, row, v))
<1> DEFINE t == a.type
           d == SetList(a, row, v.slice)
           b == d.vec
<1>1. t \in AllTypes(s)  BY KidDomain
<1>2. Takes(t, v) <=> v.go = "slice" /\ \A i \in DOMAIN v.slice : Takes(t.kids[1], v.slice[i])
  BY <1>1, TypeEq DEF TakesDef, Leaves
<1>3. Set(a, row, v) = IF v.go = "slice" THEN d ELSE Done(FALSE, a)
  BY Dispatch
<1>4. CASE v.go = "slice"
  <2>1. v.slice \in Seq(AllValues(s))  BY <1>4, ValueFacts
  <2>2. /\ Formed(s, b) /\ Fresh(b) /\ b.type = t /\ Rows(b) = Rows(a)
        /\ \A r \in DOMAIN a.data : r # row => Keeps(a, b, r)
        /\ d.ok <=> \A i \in DOMAIN v.slice : Takes(t.kids[1], v.slice[i])
        /\ d.ok => /\ Sound(b, row) /\ (row \in b.null <=> row \in a.null)
                   /\ ReadElements(b, row) = [i \in DOMAIN v.slice |-> Meaning(t.kids[1], v.slice[i])]
    BY <2>1, SetListIsRight
  <2> HIDE DEF d
  <2>3. ASSUME d.ok PROVE Wrote(a, b, row, v)
    <3>1. Takes(t, v)  BY <1>2, <1>4, <2>2, <2>3
    <3>2. Meaning(t, v) = Slice(ReadElements(b, row))
      <4>1. Meaning(t, v) = MeaningDef(t, v)  BY <1>1, <3>1, TypeEq
      <4> QED BY <1>4, <2>2, <2>3, <4>1 DEF MeaningDef, Leaves
    <3>3. IsVector(b) /\ b.type.kind = "list"  BY <2>2, FormedFacts
    <3>4. row \notin b.null => Get(b, row) = Meaning(t, v)  BY <3>2, <3>3, GetEq
    <3>5. row \in b.null => Get(b, row) = Nil  BY <3>3, GetEq
    <3>6. Clean(a, row) => row \notin b.null  BY <2>2, <2>3, CleanNotNull
    <3>7. LostToNull(Get(b, row), Meaning(t, v))  BY <3>4, <3>5, LostSome
    <3>8. v # Nil  BY NilIsValue
    <3> QED BY <2>2, <2>3, <3>4, <3>6, <3>7, <3>8 DEF Wrote
  <2>4. Outcome(s, a, row, v, d)  BY <1>2, <1>4, <2>2, <2>3 DEF Outcome
  <2> QED BY <1>3, <1>4, <2>4
<1>5. CASE v.go # "slice"
  BY <1>2, <1>3, <1>5, Untouched
<1> QED BY <1>4, <1>5

\* An entry of a Go map is written as a struct of a key and a value.
LEMMA EntryIs ==
  ASSUME Recursion, NEW s \in Chunks, NEW t \in AllTypes(s), t.kind = "struct", t.names = <<"key", "value">>,
         NEW p
  PROVE  /\ Takes(t, Entry(p)) <=> \A i \in 1..2 : Takes(t.kids[i], p[i])
         /\ Takes(t, Entry(p)) => /\ Meaning(t, Entry(p)).fields["key"] = Meaning(t.kids[1], p[1])
                                  /\ Meaning(t, Entry(p)).fields["value"] = Meaning(t.kids[2], p[2])
<1> DEFINE v == Entry(p)
<1>1. /\ v.go = "map[string]any" /\ DOMAIN v.fields = {"key", "value"}
      /\ v.fields["key"] = p[1] /\ v.fields["value"] = p[2]
  BY DEF Entry, Fields
<1> HIDE DEF v
<1>2. /\ DOMAIN t.names = {1, 2} /\ t.names[1] = "key" /\ t.names[2] = "value"
  OBVIOUS
<1>3. Takes(t, v) <=> \A i \in DOMAIN t.names : /\ t.names[i] \in DOMAIN v.fields
                                                /\ Takes(t.kids[i], v.fields[t.names[i]])
  BY <1>1, TypeEq DEF TakesDef, Leaves
<1>4. Takes(t, v) <=> Takes(t.kids[1], p[1]) /\ Takes(t.kids[2], p[2])
  BY <1>1, <1>2, <1>3
<1>5. ASSUME Takes(t, v)
      PROVE  /\ Meaning(t, v).fields["key"] = Meaning(t.kids[1], p[1])
             /\ Meaning(t, v).fields["value"] = Meaning(t.kids[2], p[2])
  <2>1. Meaning(t, v) = Fields([n \in Range(t.names) |-> Meaning(t.kids[IndexIn(t.names, n)], v.fields[n])])
    <3>1. Meaning(t, v) = MeaningDef(t, v)  BY <1>5, TypeEq
    <3> QED BY <1>1, <3>1 DEF MeaningDef, Leaves
  <2>2. Range(t.names) = {"key", "value"}  BY <1>2 DEF Range
  <2>3. IndexIn(t.names, "key") = 1 /\ IndexIn(t.names, "value") = 2
    <3>1. IsType(t)  BY TypeFacts
    <3> QED BY <1>2, <3>1, FieldIs
  <2>4. \A n \in {"key", "value"} :
          Meaning(t, v).fields[n] = Meaning(t.kids[IndexIn(t.names, n)], v.fields[n])
    BY <2>1, <2>2 DEF Fields
  <2> QED BY <1>1, <2>3, <2>4
<1>6. (\A i \in 1..2 : Takes(t.kids[i], p[i])) <=> Takes(t.kids[1], p[1]) /\ Takes(t.kids[2], p[2])
  <2>1. 1..2 = {1, 2}  OBVIOUS
  <2> QED BY <2>1
<1> QED BY <1>4, <1>5, <1>6 DEF v

\* A finite set in some order.
LEMMA AnyOrderIs ==
  ASSUME NEW S, IsFiniteSet(S)
  PROVE  /\ Cardinality(S) \in Nat /\ DOMAIN AnyOrder(S) = 1..Cardinality(S)
         /\ \A i \in 1..Cardinality(S) : AnyOrder(S)[i] \in S
         /\ \A p \in S : \E i \in 1..Cardinality(S) : AnyOrder(S)[i] = p
         /\ \A i, j \in 1..Cardinality(S) : AnyOrder(S)[i] = AnyOrder(S)[j] => i = j
<1> DEFINE n == Cardinality(S)
<1>1. n \in Nat /\ \E f \in [1..n -> S] : Range(f) = S
  <2>1. n \in Nat /\ Bijection(1..n, S) # {}  BY FS_CardinalityType DEF ExistsBijection
  <2>2. PICK f \in Bijection(1..n, S) : TRUE  BY <2>1
  <2>3. f \in [1..n -> S] /\ \A t \in S : \E i \in 1..n : f[i] = t  BY <2>2 DEF Bijection, Surjection
  <2>4. Range(f) = S  BY <2>3 DEF Range
  <2> QED BY <2>1, <2>3, <2>4
<1>2. AnyOrder(S) \in [1..n -> S] /\ Range(AnyOrder(S)) = S  BY <1>1 DEF AnyOrder
<1> HIDE DEF n
<1>3. \A p \in S : \E i \in 1..n : AnyOrder(S)[i] = p  BY <1>2 DEF Range
<1>4. AnyOrder(S) \in Injection(1..n, S)
  <2>1. AnyOrder(S) \in Surjection(1..n, S)  BY <1>2, <1>3 DEF Surjection
  <2>2. IsFiniteSet(1..n) /\ Cardinality(1..n) = n  BY <1>1, FS_Interval
  <2> QED BY <2>1, <2>2, FS_Surjection DEF n
<1> QED BY <1>1, <1>2, <1>3, <1>4 DEF n, Injection, IsInjective

\* A value of a MAP, which is a list of its entries.
LEMMA SetMapValue ==
  ASSUME Recursion, NEW s \in Chunks, NEW a, Formed(s, a), Fresh(a), NEW row \in DOMAIN a.data,
         KidsSetRight(s, a.type), NEW v \in AllValues(s), v.go # "nil", a.type.kind = "map"
  PROVE  Outcome(s, a, row, v, Set(a, row, v))
<1> DEFINE t == a.type
           u == t.kids[1]
           n == Cardinality(v.pairs)
           o == AnyOrder(v.pairs)
           list == [i \in 1..n |-> Entry(o[i])]
           d == SetList(a, row, list)
           b == d.vec
           M(p) == <<Meaning(u.kids[1], p[1]), Meaning(u.kids[2], p[2])>>
<1>1. t \in AllTypes(s)  BY KidDomain
<1>2. Takes(t, v) <=> v.go = "Map" /\ \A p \in v.pairs : \A i \in 1..2 : Takes(u.kids[i], p[i])
  BY <1>1, TypeEq DEF TakesDef, Leaves
<1>3. Set(a, row, v) = IF v.go = "Map" THEN d ELSE Done(FALSE, a)
  BY Dispatch DEF SetMap
<1>4. CASE v.go = "Map"
  <2>1. /\ n \in Nat /\ \A i \in 1..n : o[i] \in v.pairs
        /\ \A p \in v.pairs : \E i \in 1..n : o[i] = p
        /\ \A i, j \in 1..n : o[i] = o[j] => i = j
        /\ \A p \in v.pairs : Entry(p) \in AllValues(s)
    <3>1. IsFiniteSet(v.pairs) /\ \A p \in v.pairs : Entry(p) \in AllValues(s)  BY <1>4, ValueFacts
    <3> QED BY <3>1, AnyOrderIs
  <2>2. u \in AllTypes(s) /\ u.kind = "struct" /\ u.names = <<"key", "value">>
    <3>1. IsType(t) /\ 1 \in DOMAIN t.kids  BY <1>1, TypeFacts DEF IsType
    <3> QED BY <1>1, <3>1, TypeFacts DEF IsType
  <2> HIDE DEF n, o, u
  <2>3. list \in Seq(AllValues(s)) /\ DOMAIN list = 1..n /\ \A i \in 1..n : list[i] = Entry(o[i])
    <3>1. list = [i \in 1..n |-> list[i]] /\ \A i \in 1..n : list[i] = Entry(o[i])  OBVIOUS
    <3> HIDE DEF list
    <3> QED BY <2>1, <3>1, SeqOf
  <2> HIDE DEF list
  <2>4. /\ Formed(s, b) /\ Fresh(b) /\ b.type = t /\ Rows(b) = Rows(a)
        /\ \A r \in DOMAIN a.data : r # row => Keeps(a, b, r)
        /\ d.ok <=> \A i \in 1..n : Takes(u, Entry(o[i]))
        /\ d.ok => /\ Sound(b, row) /\ (row \in b.null <=> row \in a.null)
                   /\ ReadElements(b, row) = [i \in 1..n |-> Meaning(u, Entry(o[i]))]
    <3>1. /\ Formed(s, b) /\ Fresh(b) /\ b.type = t /\ Rows(b) = Rows(a)
          /\ \A r \in DOMAIN a.data : r # row => Keeps(a, b, r)
          /\ d.ok <=> \A i \in DOMAIN list : Takes(t.kids[1], list[i])
          /\ d.ok => /\ Sound(b, row) /\ (row \in b.null <=> row \in a.null)
                     /\ ReadElements(b, row) = [i \in DOMAIN list |-> Meaning(t.kids[1], list[i])]
      BY <2>3, SetListIsRight
    <3>2. [i \in DOMAIN list |-> Meaning(t.kids[1], list[i])] = [i \in 1..n |-> Meaning(u, Entry(o[i]))]
      BY <2>3 DEF u
    <3>3. (\A i \in DOMAIN list : Takes(t.kids[1], list[i])) <=> \A i \in 1..n : Takes(u, Entry(o[i]))
      BY <2>3 DEF u
    <3> HIDE DEF d
    <3> QED BY <3>1, <3>2, <3>3
  <2> HIDE DEF d
  <2>5. d.ok <=> \A p \in v.pairs : \A i \in 1..2 : Takes(u.kids[i], p[i])
    <3>1. \A i \in 1..n : Takes(u, Entry(o[i])) <=> \A j \in 1..2 : Takes(u.kids[j], o[i][j])
      BY <2>2, EntryIs
    <3>2. d.ok <=> \A i \in 1..n : \A j \in 1..2 : Takes(u.kids[j], o[i][j])  BY <2>4, <3>1
    <3> QED BY <2>1, <3>2
  <2>6. ASSUME d.ok PROVE Wrote(a, b, row, v)
    <3>1. Takes(t, v)
      <4>1. \A p \in v.pairs : \A i \in 1..2 : Takes(u.kids[i], p[i])  BY <2>5, <2>6
      <4> QED BY <1>2, <1>4, <4>1 DEF u
    <3>2. Meaning(t, v) = MapOf({M(p) : p \in v.pairs})
      <4>1. Meaning(t, v) = MeaningDef(t, v)  BY <1>1, <3>1, TypeEq
      <4> QED BY <1>4, <4>1 DEF MeaningDef, Leaves, u
    <3> DEFINE read == ReadElements(b, row)
               pairs == PairsOf(read)
    <3>3. pairs = {M(p) : p \in v.pairs}
      <4>1. DOMAIN read = 1..n /\ \A i \in 1..n : read[i] = Meaning(u, Entry(o[i]))  BY <2>4, <2>6
      <4> HIDE DEF read
      <4>2. \A i \in 1..n : /\ read[i].fields["key"] = Meaning(u.kids[1], o[i][1])
                            /\ <<read[i].fields["key"], read[i].fields["value"]>> = M(o[i])
        BY <2>2, <2>4, <2>6, <4>1, EntryIs
      <4>3. \A i \in 1..n : Kept(read, i)
        <5>1. KeysDiffer(t, v)  BY <1>1, <1>4, ValueFacts
        <5>2. \A p \in v.pairs : Takes(u.kids[1], p[1])  BY <2>5, <2>6
        <5>3. \A p, q \in v.pairs : Meaning(u.kids[1], p[1]) = Meaning(u.kids[1], q[1]) => p = q
          BY <5>1, <5>2 DEF KeysDiffer, u
        <5>4. ASSUME NEW i \in 1..n, NEW j \in 1..n, j > i PROVE read[j].fields["key"] # read[i].fields["key"]
          <6>1. o[i] # o[j]  BY <2>1, <5>4
          <6> QED BY <2>1, <4>2, <5>3, <6>1
        <5> QED BY <4>1, <5>4 DEF Kept
      <4>4. pairs = {M(o[i]) : i \in 1..n}
        <5>1. {j \in DOMAIN read : Kept(read, j)} = 1..n  BY <4>1, <4>3
        <5> HIDE DEF M
        <5> QED BY <4>2, <5>1 DEF PairsOf
      <4> HIDE DEF M, pairs
      <4>5. {M(o[i]) : i \in 1..n} = {M(p) : p \in v.pairs}
        <5>1. ASSUME NEW p \in v.pairs PROVE M(p) \in {M(o[i]) : i \in 1..n}
          <6>1. PICK i \in 1..n : o[i] = p  BY <2>1
          <6> QED BY <6>1
        <5>2. ASSUME NEW i \in 1..n PROVE M(o[i]) \in {M(p) : p \in v.pairs}  BY <2>1
        <5> QED BY <5>1, <5>2
      <4> QED BY <4>4, <4>5
    <3>4. IsVector(b) /\ b.type.kind = "map"  BY <2>4, FormedFacts
    <3>5. row \notin b.null => Get(b, row) = MapOf(pairs)  BY <3>4, GetEq
    <3>6. row \in b.null => Get(b, row) = Nil  BY <3>4, GetEq
    <3> HIDE DEF pairs, M
    <3>7. Clean(a, row) => row \notin b.null  BY <2>4, <2>6, CleanNotNull
    <3>8. row \notin b.null => Get(b, row) = Meaning(t, v)  BY <3>2, <3>3, <3>5
    <3>9. LostToNull(Get(b, row), Meaning(t, v))  BY <3>6, <3>8, LostSome
    <3>10. v # Nil  BY NilIsValue
    <3> QED BY <2>4, <2>6, <3>7, <3>8, <3>9, <3>10 DEF Wrote
  <2>7. Takes(t, v) <=> d.ok  BY <1>2, <1>4, <2>5 DEF u
  <2>8. Outcome(s, a, row, v, d)  BY <2>4, <2>6, <2>7 DEF Outcome
  <2> QED BY <1>3, <1>4, <2>8 DEF d, list, n, o
<1>5. CASE v.go # "Map"
  BY <1>2, <1>3, <1>5, Untouched
<1> QED BY <1>4, <1>5

-----------------------------------------------------------------------------
\* What a list has lost its elements have.
LEMMA LostSlice ==
  ASSUME Recursion, NEW n \in Nat, NEW x, NEW y, x = [i \in 1..n |-> x[i]], y = [i \in 1..n |-> y[i]],
         \A i \in 1..n : LostToNull(x[i], y[i])
  PROVE  LostToNull(Slice(x), Slice(y))
<1> DEFINE a == Slice(x)
           b == Slice(y)
<1>1. a.go = "slice" /\ b.go = "slice" /\ a.slice = x /\ b.slice = y  BY DEF Slice
<1> HIDE DEF a, b
<1>2. DOMAIN x = 1..n /\ DOMAIN y = 1..n  OBVIOUS
<1>3. Len(x) = n /\ Len(y) = n
  <2>1. \A z : z = [i \in 1..n |-> z[i]] => Len(z) = n
    <3>1. TAKE z
    <3>2. HAVE z = [i \in 1..n |-> z[i]]
    <3>3. \A i \in 1..n : z[i] \in {z[j] : j \in 1..n}  OBVIOUS
    <3> QED BY <3>2, <3>3, SeqOf
  <2> QED BY <2>1
<1>4. LostToNullDef(a, b)  BY <1>1, <1>2, <1>3 DEF LostToNullDef
<1> QED BY <1>4, LostEq DEF a, b

\* A value of an ARRAY.
LEMMA SetArrayIsRight ==
  ASSUME Recursion, NEW s \in Chunks, NEW a, Formed(s, a), Fresh(a), NEW row \in DOMAIN a.data,
         a.type.kind = "array", KidsSetRight(s, a.type), NEW list \in Seq(AllValues(s)),
         Len(list) = a.type.length
  PROVE  LET d == SetArray(a, row, list)  t == a.type.kids[1]  n == a.type.length IN
         /\ Formed(s, d.vec) /\ Fresh(d.vec) /\ d.vec.type = a.type /\ Rows(d.vec) = Rows(a)
         /\ \A r \in DOMAIN a.data : r # row => Keeps(a, d.vec, r)
         /\ d.ok <=> \A i \in DOMAIN list : Takes(t, list[i])
         /\ d.ok =>
              /\ Sound(d.vec, row) /\ (row \in d.vec.null <=> row \in a.null)
              /\ \A i \in 1..n : LostToNull(ReadElements(d.vec, row)[i], Meaning(t, list[i]))
              /\ Clean(a, row) => \A i \in 1..n : ReadElements(d.vec, row)[i] = Meaning(t, list[i])
<1> DEFINE t == a.type.kids[1]
           n == a.type.length
           o == row * n
           ws == [i \in 1..n |-> At(1, o + i - 1, list[i])]
           d == WriteKids(a, ws)
           b == d.vec
           kid == a.kids[1]
<1>1. /\ n \in Nat /\ DOMAIN list = 1..n /\ \A i \in 1..n : list[i] \in AllValues(s)
  <2>1. n \in Nat  BY FormedFacts DEF IsType
  <2> QED BY <2>1
<1>2. row \in 0..(Rows(a) - 1) /\ Rows(a) \in Nat /\ row \in Nat /\ o \in Nat
  <2>1. row \in 0..(Rows(a) - 1) /\ Rows(a) \in Nat  BY FormedFacts
  <2> QED BY <1>1, <2>1
<1>3. SetArray(a, row, list) = d
  BY <1>1 DEF SetArray, ArrayOffset
<1>4. First(a, row) = o /\ Count(a, row) = n /\ Here(a, row)  BY DEF First, Count, Here
<1>5. /\ DOMAIN a.kids = {1} /\ kid.type = t
      /\ \A i \in 1..n : o + i - 1 \in Places(a, row) /\ o + i - 1 \in DOMAIN kid.data /\ o + i - 1 \in Nat
  <2>1. Len(a.type.kids) = 1  BY FormedFacts DEF IsType
  <2>2. DOMAIN a.kids = 1..1  BY <2>1, FormedFacts
  <2>3. DOMAIN a.kids = {1}  BY <2>2
  <2>4. kid.type = t  BY <2>3, FormedFacts
  <2>5. \A i \in 1..n : o + i - 1 \in Places(a, row) /\ o + i - 1 \in DOMAIN kid.data
    BY <1>2, <1>4, ElementPlaces
  <2> HIDE DEF kid, o
  <2>6. \A i \in 1..n : o + i - 1 \in Nat  BY <1>1, <1>2
  <2> QED BY <2>3, <2>4, <2>5, <2>6
<1>6. \A i \in 1..n : /\ ws[i].kid = 1 /\ ws[i].row = o + i - 1 /\ ws[i].val = list[i]
                      /\ ws[i] \in [kid : DOMAIN a.kids, row : Nat, val : AllValues(s)]
  <2>1. TAKE i \in 1..n
  <2>2. ws[i] = At(1, o + i - 1, list[i])  OBVIOUS
  <2> HIDE DEF ws, o
  <2> QED BY <1>1, <1>5, <2>2 DEF At
<1>7. ws \in Seq([kid : DOMAIN a.kids, row : Nat, val : AllValues(s)]) /\ DOMAIN ws = 1..n
  <2>1. ws = [i \in 1..n |-> ws[i]]  OBVIOUS
  <2> HIDE DEF ws
  <2> QED BY <1>1, <1>6, <2>1, SeqOf
<1> HIDE DEF ws, kid, n
<1>8. AreWrites(s, a, ws)
  BY <1>5, <1>6, <1>7 DEF AreWrites, kid
<1>9. KidsWritten(s, a, ws, d)  BY <1>8, WriteKidsIsRight
<1> HIDE DEF d
<1>10. KidsKept(s, a, b, Targets(ws))  BY <1>9 DEF KidsWritten
<1>11. /\ Formed(s, b) /\ Fresh(b) /\ b.type = a.type /\ b.data = a.data /\ b.null = a.null /\ Rows(b) = Rows(a)
  BY <1>10 DEF KidsKept, Alike, Rows
<1>12. d.ok <=> \A i \in DOMAIN list : Takes(t, list[i])
  <2>1. d.ok <=> \A i \in 1..n : Takes(a.type.kids[ws[i].kid], ws[i].val)  BY <1>7, <1>9 DEF KidsWritten
  <2> QED BY <1>1, <1>6, <2>1
<1>13. ASSUME NEW r \in DOMAIN a.data, r # row PROVE Keeps(a, b, r)
  <2>1. r \in Nat
    <3>1. DOMAIN a.data = 0..(Rows(a) - 1)  BY FormedFacts
    <3> QED BY <1>2, <3>1
  <2>2. ASSUME NEW i \in DOMAIN a.kids, NEW e \in Places(a, r) PROVE <<i, e>> \notin Targets(ws)
    <3>1. PICK q \in 1..n : e = r * n + q - 1  BY <2>2 DEF Places, First, n
    <3>2. \A j \in 1..n : ws[j].row # e
      <4>1. ASSUME NEW j \in 1..n, r * n + q - 1 = row * n + j - 1 PROVE r = row
        BY <1>1, <1>2, <2>1, <4>1, ArrayPlaces
      <4> QED BY <1>6, <1>13, <3>1, <4>1
    <3> QED BY <1>7, <3>2 DEF Targets
  <2> QED BY <1>10, <2>2, RowIsKept
<1>14. ASSUME d.ok
       PROVE  /\ Sound(b, row)
              /\ \A i \in 1..n : LostToNull(ReadElements(b, row)[i], Meaning(t, list[i]))
              /\ Clean(a, row) => \A i \in 1..n : ReadElements(b, row)[i] = Meaning(t, list[i])
  <2>1. Distinct(ws)
    <3>1. ASSUME NEW i \in 1..n, NEW j \in 1..n, i # j PROVE ws[i].row # ws[j].row
      <4>1. ws[i].row = o + i - 1 /\ ws[j].row = o + j - 1  BY <1>6
      <4> HIDE DEF o
      <4> QED BY <1>1, <1>2, <3>1, <4>1
    <3> QED BY <1>7, <3>1 DEF Distinct
  <2>2. ASSUME NEW i \in 1..n PROVE Wrote(kid, b.kids[1], o + i - 1, list[i])
    BY <1>6, <1>7, <1>9, <1>14, <2>1 DEF KidsWritten, kid
  <2>3. b.type.kind = "array" /\ First(b, row) = o /\ Count(b, row) = n
    BY <1>11 DEF First, Count, n
  <2>4. Here(b, row)  BY <2>3 DEF Here
  <2>5. Sound(b, row)
    <3>1. CASE row \in b.null  BY <3>1, SoundEq
    <3>2. CASE row \notin b.null  BY <2>2, <2>3, <2>4, <3>2, SoundElements DEF Wrote
    <3> QED BY <3>1, <3>2
  <2>6. \A i \in 1..n : ReadElements(b, row)[i] = Get(b.kids[1], o + i - 1)
    BY <2>3 DEF ReadElements
  <2>7. ASSUME NEW i \in 1..n
        PROVE  /\ LostToNull(ReadElements(b, row)[i], Meaning(t, list[i]))
               /\ Clean(a, row) => ReadElements(b, row)[i] = Meaning(t, list[i])
    <3>1. Clean(a, row) => Clean(kid, o + i - 1)
      <4>1. Clean(a, row) => CleanDef(a, row)
        <5>1. IsVector(a)  BY FormedFacts
        <5> QED BY <5>1, VectorEq
      <4> QED BY <1>5, <4>1 DEF CleanDef, kid
    <3>2. Wrote(kid, b.kids[1], o + i - 1, list[i])  BY <2>2
    <3> QED BY <1>5, <2>6, <3>1, <3>2 DEF Wrote
  <2> QED BY <2>5, <2>7
<1>15. row \in b.null <=> row \in a.null  BY <1>11
<1> QED
  <2>1. /\ Formed(s, d.vec) /\ Fresh(d.vec) /\ d.vec.type = a.type /\ Rows(d.vec) = Rows(a)
        /\ \A r \in DOMAIN a.data : r # row => Keeps(a, d.vec, r)
        /\ d.ok <=> \A i \in DOMAIN list : Takes(t, list[i])
        /\ d.ok =>
              /\ Sound(d.vec, row) /\ (row \in d.vec.null <=> row \in a.null)
              /\ \A i \in 1..n : LostToNull(ReadElements(d.vec, row)[i], Meaning(t, list[i]))
              /\ Clean(a, row) => \A i \in 1..n : ReadElements(d.vec, row)[i] = Meaning(t, list[i])
    BY <1>11, <1>12, <1>13, <1>14, <1>15
  <2> QED BY <1>3, <2>1 DEF n

\* A value of an ARRAY.
LEMMA SetArrayValue ==
  ASSUME Recursion, NEW s \in Chunks, NEW a, Formed(s, a), Fresh(a), NEW row \in DOMAIN a.data,
         KidsSetRight(s, a.type), NEW v \in AllValues(s), v.go # "nil", a.type.kind = "array"
  PROVE  Outcome(s, a, row, v, Set(a, row, v))
<1> DEFINE t == a.type
           n == t.length
           d == SetArray(a, row, v.slice)
           b == d.vec
<1>1. t \in AllTypes(s) /\ n \in Nat  BY KidDomain, FormedFacts DEF IsType
<1>2. Takes(t, v) <=> /\ v.go = "slice" /\ Len(v.slice) = n
                      /\ \A i \in DOMAIN v.slice : Takes(t.kids[1], v.slice[i])
  BY <1>1, TypeEq DEF TakesDef, Leaves
<1>3. Set(a, row, v) = IF v.go = "slice" THEN d ELSE Done(FALSE, a)
  BY Dispatch
<1>4. CASE v.go = "slice" /\ Len(v.slice) = n
  <2>1. v.slice \in Seq(AllValues(s)) /\ DOMAIN v.slice = 1..n
    <3>1. v.slice \in Seq(AllValues(s))  BY <1>4, ValueFacts
    <3> QED BY <1>4, <3>1
  <2>2. /\ Formed(s, b) /\ Fresh(b) /\ b.type = t /\ Rows(b) = Rows(a)
        /\ \A r \in DOMAIN a.data : r # row => Keeps(a, b, r)
        /\ d.ok <=> \A i \in DOMAIN v.slice : Takes(t.kids[1], v.slice[i])
        /\ d.ok =>
              /\ Sound(b, row) /\ (row \in b.null <=> row \in a.null)
              /\ \A i \in 1..n : LostToNull(ReadElements(b, row)[i], Meaning(t.kids[1], v.slice[i]))
              /\ Clean(a, row) => \A i \in 1..n : ReadElements(b, row)[i] = Meaning(t.kids[1], v.slice[i])
    BY <1>4, <2>1, SetArrayIsRight
  <2> HIDE DEF d
  <2>3. ASSUME d.ok PROVE Wrote(a, b, row, v)
    <3> DEFINE read == ReadElements(b, row)
               mean == [i \in 1..n |-> Meaning(t.kids[1], v.slice[i])]
    <3>1. Takes(t, v)  BY <1>2, <1>4, <2>2, <2>3
    <3>2. Meaning(t, v) = Slice(mean)
      <4>1. Meaning(t, v) = MeaningDef(t, v)  BY <1>1, <3>1, TypeEq
      <4> QED BY <1>4, <2>1, <4>1 DEF MeaningDef, Leaves
    <3>3. IsVector(b) /\ b.type.kind = "array"  BY <2>2, FormedFacts
    <3>4. row \notin b.null => Get(b, row) = Slice(read)  BY <3>3, GetEq
    <3>5. row \in b.null => Get(b, row) = Nil  BY <3>3, GetEq
    <3>6. Clean(a, row) => row \notin b.null  BY <2>2, <2>3, CleanNotNull
    <3>7. Count(b, row) = n  BY <2>2, <3>3 DEF Count
    <3>8. read = [i \in 1..n |-> read[i]] /\ mean = [i \in 1..n |-> mean[i]]
          /\ \A i \in 1..n : mean[i] = Meaning(t.kids[1], v.slice[i])
      BY <3>7 DEF ReadElements
    <3> HIDE DEF read, mean
    <3>9. LostToNull(Slice(read), Slice(mean))
      <4>1. \A i \in 1..n : LostToNull(read[i], mean[i])  BY <2>2, <2>3, <3>8 DEF read
      <4> QED BY <1>1, <3>8, <4>1, LostSlice
    <3>10. LostToNull(Get(b, row), Meaning(t, v))  BY <3>2, <3>4, <3>5, <3>9, LostSome
    <3>11. Clean(a, row) => Get(b, row) = Meaning(t, v)
      <4>1. SUFFICES ASSUME Clean(a, row) PROVE Get(b, row) = Meaning(t, v)  OBVIOUS
      <4>2. \A i \in 1..n : read[i] = mean[i]  BY <2>2, <2>3, <3>8, <4>1 DEF read
      <4>3. read = mean  BY <3>8, <4>2
      <4> QED BY <3>2, <3>4, <3>6, <4>1, <4>3
    <3>12. v # Nil  BY NilIsValue
    <3> QED BY <2>2, <2>3, <3>10, <3>11, <3>12 DEF Wrote
  <2>4. Takes(t, v) <=> d.ok  BY <1>2, <1>4, <2>2
  <2>5. Outcome(s, a, row, v, d)  BY <2>2, <2>3, <2>4 DEF Outcome
  <2> QED BY <1>3, <1>4, <2>5
<1>5. CASE ~ (v.go = "slice" /\ Len(v.slice) = n)
  <2>1. Set(a, row, v) = Done(FALSE, a)  BY <1>3, <1>5 DEF SetArray
  <2> QED BY <1>2, <1>5, <2>1, Untouched
<1> QED BY <1>4, <1>5

-----------------------------------------------------------------------------
\* How far the loop over a struct's fields gets.
Upto(t, f) == LET missing == {i \in DOMAIN t.names : t.names[i] \notin DOMAIN f}
              IN IF missing = {} THEN Len(t.names) ELSE Min(missing) - 1

\* The loop stops at the first field that is missing.
LEMMA UptoIs ==
  ASSUME NEW t, IsType(t), t.kind = "struct", NEW f
  PROVE  /\ Upto(t, f) \in 0..Len(t.names) /\ Len(t.names) \in Nat
         /\ \A i \in 1..Upto(t, f) : t.names[i] \in DOMAIN f
<1> DEFINE missing == {i \in DOMAIN t.names : t.names[i] \notin DOMAIN f}
<1>1. DOMAIN t.names = 1..Len(t.names) /\ Len(t.names) \in Nat
  <2>1. t.names \in Seq(STRING)  BY DEF IsType
  <2> QED BY <2>1
<1>2. CASE missing = {}
  <2>1. Upto(t, f) = Len(t.names)  BY <1>2 DEF Upto
  <2> QED BY <1>1, <1>2, <2>1
<1>3. CASE missing # {}
  <2>1. missing \subseteq Nat  BY <1>1
  <2> DEFINE m == Min(missing)
  <2>2. m \in missing /\ \A d \in missing : m <= d
    <3> HIDE DEF missing
    <3>1. \E x \in missing : \A d \in missing : x <= d  BY <1>3, <2>1, LeastNat
    <3> QED BY <3>1 DEF Min
  <2>3. Upto(t, f) = m - 1  BY <1>3 DEF Upto
  <2> HIDE DEF m
  <2>4. ASSUME NEW i \in 1..(m - 1) PROVE t.names[i] \in DOMAIN f
    <3>1. m \in 1..Len(t.names)  BY <1>1, <2>2
    <3>2. i \in DOMAIN t.names /\ ~ (m <= i)  BY <1>1, <3>1
    <3> QED BY <2>2, <3>2
  <2> QED BY <1>1, <2>2, <2>3, <2>4
<1> QED BY <1>2, <1>3

\* What a struct has lost its fields have.
LEMMA LostFields ==
  ASSUME Recursion, NEW S, NEW x, NEW y, x = [n \in S |-> x[n]], y = [n \in S |-> y[n]],
         \A n \in S : LostToNull(x[n], y[n])
  PROVE  LostToNull(Fields(x), Fields(y))
<1> DEFINE a == Fields(x)
           b == Fields(y)
<1>1. a.go = "map[string]any" /\ b.go = "map[string]any" /\ a.fields = x /\ b.fields = y  BY DEF Fields
<1> HIDE DEF a, b
<1>2. DOMAIN x = S  OBVIOUS
<1>3. LostToNullDef(a, b)  BY <1>1, <1>2 DEF LostToNullDef
<1> QED BY <1>3, LostEq DEF a, b

\* A value of a STRUCT.
LEMMA SetStructValue ==
  ASSUME Recursion, NEW s \in Chunks, NEW a, Formed(s, a), Fresh(a), NEW row \in DOMAIN a.data,
         KidsSetRight(s, a.type), NEW v \in AllValues(s), v.go = "map[string]any", a.type.kind = "struct"
  PROVE  Outcome(s, a, row, v, SetStruct(a, row, v.fields))
<1> DEFINE t == a.type
           f == v.fields
           upto == Upto(t, f)
           ws == [i \in 1..upto |-> At(i, row, f[t.names[i]])]
           w == WriteKids(a, ws)
           b == w.vec
           missing == Missing(a, f) = {}
           d == SetStruct(a, row, f)
<1>1. t \in AllTypes(s) /\ IsType(t)  BY KidDomain, FormedFacts
<1>2. /\ upto \in 0..Len(t.names) /\ Len(t.names) \in Nat
      /\ \A i \in 1..upto : t.names[i] \in DOMAIN f
  BY <1>1, UptoIs
<1>3. /\ DOMAIN t.names = 1..Len(t.names) /\ Len(t.kids) = Len(t.names) /\ DOMAIN a.kids = 1..Len(t.names)
      /\ \A i \in DOMAIN a.kids : row \in DOMAIN a.kids[i].data
  <2>1. t.names \in Seq(STRING) /\ Len(t.kids) = Len(t.names)  BY <1>1 DEF IsType
  <2>2. DOMAIN a.kids = 1..Len(t.names)  BY <2>1, FormedFacts
  <2>3. ASSUME NEW i \in DOMAIN a.kids PROVE row \in DOMAIN a.kids[i].data
    <3>1. Rows(a.kids[i]) = Rows(a)  BY FormedFacts DEF LocallyFormed, KidRows
    <3>2. DOMAIN a.data = 0..(Rows(a) - 1)  BY FormedFacts
    <3>3. DOMAIN a.kids[i].data = 0..(Rows(a.kids[i]) - 1)  BY FormedFacts
    <3> QED BY <3>1, <3>2, <3>3
  <2> QED BY <2>1, <2>2, <2>3
<1>4. row \in Nat
  <2>1. DOMAIN a.data = 0..(Rows(a) - 1) /\ Rows(a) \in Nat  BY FormedFacts
  <2> QED BY <2>1
<1>5. d.ok = (w.ok /\ missing) /\ d.vec = b /\ (missing => upto = Len(t.names))
  BY DEF SetStruct, Missing, Upto, Done
<1>6. missing <=> \A i \in DOMAIN t.names : t.names[i] \in DOMAIN f
  BY DEF Missing
<1> HIDE DEF missing, upto, d
<1>7. \A i \in 1..upto : /\ ws[i].kid = i /\ ws[i].row = row /\ ws[i].val = f[t.names[i]]
                         /\ i \in DOMAIN a.kids
                         /\ ws[i] \in [kid : DOMAIN a.kids, row : Nat, val : AllValues(s)]
  <2>1. TAKE i \in 1..upto
  <2>2. ws[i] = At(i, row, f[t.names[i]])  OBVIOUS
  <2>3. i \in DOMAIN a.kids  BY <1>2, <1>3
  <2>4. f[t.names[i]] \in AllValues(s)  BY <1>2, ValueFacts
  <2> HIDE DEF ws
  <2> QED BY <1>4, <2>2, <2>3, <2>4 DEF At
<1>8. ws \in Seq([kid : DOMAIN a.kids, row : Nat, val : AllValues(s)]) /\ DOMAIN ws = 1..upto
  <2>1. ws = [i \in 1..upto |-> ws[i]] /\ upto \in Nat
    <3>1. upto \in Nat  BY <1>2
    <3> QED BY <3>1
  <2> HIDE DEF ws
  <2> QED BY <1>7, <2>1, SeqOf
<1> HIDE DEF ws
<1>9. AreWrites(s, a, ws)
  BY <1>3, <1>7, <1>8 DEF AreWrites
<1>10. KidsWritten(s, a, ws, w)  BY <1>9, WriteKidsIsRight
<1> HIDE DEF w
<1>11. KidsKept(s, a, b, Targets(ws))  BY <1>10 DEF KidsWritten
<1>12. /\ Formed(s, b) /\ Fresh(b) /\ b.type = t /\ b.data = a.data /\ b.null = a.null /\ Rows(b) = Rows(a)
  BY <1>11 DEF KidsKept, Alike, Rows
<1>13. Takes(t, v) <=> \A i \in DOMAIN t.names : /\ t.names[i] \in DOMAIN f
                                                 /\ Takes(t.kids[i], f[t.names[i]])
  BY <1>1, TypeEq DEF TakesDef, Leaves
<1>14. d.ok <=> Takes(t, v)
  <2>1. w.ok <=> \A i \in 1..upto : Takes(t.kids[i], f[t.names[i]])
    <3>1. w.ok <=> \A i \in 1..upto : Takes(t.kids[ws[i].kid], ws[i].val)  BY <1>8, <1>10 DEF KidsWritten
    <3> QED BY <1>7, <3>1
  <2>2. CASE missing  BY <1>3, <1>5, <1>6, <1>13, <2>1, <2>2
  <2>3. CASE ~ missing
    <3>1. ~ d.ok  BY <1>5, <2>3
    <3>2. ~ Takes(t, v)  BY <1>6, <1>13, <2>3
    <3> QED BY <3>1, <3>2
  <2> QED BY <2>2, <2>3
<1>15. ASSUME NEW r \in DOMAIN a.data, r # row PROVE Keeps(a, b, r)
  <2>1. ASSUME NEW i \in DOMAIN a.kids, NEW e \in Places(a, r) PROVE <<i, e>> \notin Targets(ws)
    <3>1. e = r  BY <2>1 DEF Places
    <3>2. \A j \in 1..upto : ws[j].row # e  BY <1>7, <1>15, <3>1
    <3> QED BY <1>8, <3>2 DEF Targets
  <2> QED BY <1>11, <2>1, RowIsKept
<1>16. ASSUME d.ok PROVE Wrote(a, b, row, v)
  <2> DEFINE read == [n \in Range(t.names) |-> Get(Field(b, n), row)]
             mean == [n \in Range(t.names) |-> Meaning(t.kids[IndexIn(t.names, n)], f[n])]
  <2>1. w.ok /\ missing /\ upto = Len(t.names)
    <3>1. w.ok /\ missing
      <4>1. CASE ~ w.ok  BY <1>5, <1>16, <4>1
      <4>2. CASE ~ missing  BY <1>5, <1>16, <4>2
      <4> QED BY <4>1, <4>2
    <3> QED BY <1>5, <3>1
  <2>2. Distinct(ws)
    <3>1. \A i, j \in 1..upto : i # j => ws[i].kid # ws[j].kid  BY <1>7
    <3> QED BY <1>8, <3>1 DEF Distinct
  <2>3. ASSUME NEW i \in 1..Len(t.names) PROVE Wrote(a.kids[i], b.kids[i], row, f[t.names[i]])
    <3>1. i \in DOMAIN ws /\ ws[i].kid = i /\ ws[i].row = row /\ ws[i].val = f[t.names[i]]
      BY <1>7, <1>8, <2>1
    <3>2. Wrote(a.kids[ws[i].kid], b.kids[ws[i].kid], ws[i].row, ws[i].val)
      BY <1>10, <2>1, <2>2, <3>1 DEF KidsWritten
    <3> QED BY <3>1, <3>2
  <2>4. IsVector(b) /\ b.type.kind = "struct" /\ DOMAIN b.kids = DOMAIN a.kids
    <3>1. DOMAIN b.kids = DOMAIN b.type.kids  BY <1>12, KidDomain
    <3>2. DOMAIN a.kids = DOMAIN a.type.kids  BY KidDomain
    <3> QED BY <1>12, <3>1, <3>2, FormedFacts
  <2>5. Sound(b, row)
    <3>1. CASE row \in b.null  BY <3>1, SoundEq
    <3>2. CASE row \notin b.null  BY <1>3, <2>3, <2>4, <3>2, SoundStruct DEF Wrote
    <3> QED BY <3>1, <3>2
  <2>6. Meaning(t, v) = Fields(mean)
    <3>1. Meaning(t, v) = MeaningDef(t, v)  BY <1>1, <1>14, <1>16, TypeEq
    <3> QED BY <3>1 DEF MeaningDef, Leaves
  <2>7. row \notin b.null => Get(b, row) = Fields(read)  BY <1>12, <2>4, GetEq
  <2>8. row \in b.null => Get(b, row) = Nil  BY <2>4, GetEq
  <2>9. ASSUME NEW n \in Range(t.names)
        PROVE  /\ LostToNull(read[n], mean[n])
               /\ Clean(a, row) => read[n] = mean[n]
    <3> DEFINE i == IndexIn(t.names, n)
    <3>1. i \in 1..Len(t.names) /\ t.names[i] = n  BY <1>1, <1>3, FieldIs
    <3>2. read[n] = Get(b.kids[i], row) /\ mean[n] = Meaning(t.kids[i], f[n])
      BY <1>12 DEF Field
    <3>3. Wrote(a.kids[i], b.kids[i], row, f[n])  BY <2>3, <3>1
    <3>4. a.kids[i].type = t.kids[i]  BY <1>3, <3>1, FormedFacts
    <3>5. Clean(a, row) => Clean(a.kids[i], row)
      <4>1. Clean(a, row) => CleanDef(a, row)
        <5>1. IsVector(a)  BY FormedFacts
        <5> QED BY <5>1, VectorEq
      <4> HIDE DEF i
      <4> QED BY <1>3, <3>1, <4>1 DEF CleanDef, Places
    <3> HIDE DEF i, read, mean
    <3> QED BY <3>2, <3>3, <3>4, <3>5 DEF Wrote
  <2>10. read = [n \in Range(t.names) |-> read[n]] /\ mean = [n \in Range(t.names) |-> mean[n]]
    OBVIOUS
  <2> HIDE DEF read, mean
  <2>11. LostToNull(Get(b, row), Meaning(t, v))
    <3>1. LostToNull(Fields(read), Fields(mean))  BY <2>9, <2>10, LostFields
    <3> QED BY <2>6, <2>7, <2>8, <3>1, LostSome
  <2>12. Clean(a, row) => Get(b, row) = Meaning(t, v)
    <3>1. SUFFICES ASSUME Clean(a, row) PROVE Get(b, row) = Meaning(t, v)  OBVIOUS
    <3>2. row \notin b.null  BY <1>12, <3>1, CleanNotNull
    <3>3. read = mean  BY <2>9, <2>10, <3>1
    <3> QED BY <2>6, <2>7, <3>2, <3>3
  <2>13. v # Nil  BY NilIsValue
  <2> QED BY <2>5, <2>11, <2>12, <2>13 DEF Wrote
<1>17. Outcome(s, a, row, v, d)
  BY <1>5, <1>12, <1>14, <1>15, <1>16 DEF Outcome
<1> QED BY <1>17 DEF d

-----------------------------------------------------------------------------
\* The children of a union: its tag and its members.
LEMMA UnionFacts ==
  ASSUME Recursion, NEW s \in Chunks, NEW a, Formed(s, a), a.type.kind = "union"
  PROVE  LET m == Len(a.type.kids) - 1 IN
         /\ m \in Nat /\ DOMAIN a.kids = 1..(m + 1) /\ Members(a) = 1..m /\ 1 \in DOMAIN a.kids
         /\ \A i \in 1..m : i + 1 \in DOMAIN a.kids /\ a.kids[i + 1].type = a.type.kids[i + 1]
         /\ \A k \in DOMAIN a.kids : /\ DOMAIN a.kids[k].data = DOMAIN a.data
                                     /\ a.type.kids[k] \in AllTypes(s)
<1> DEFINE m == Len(a.type.kids) - 1
<1>1. Len(a.type.kids) > 0 /\ Len(a.type.kids) \in Nat  BY FormedFacts DEF IsType
<1>2. DOMAIN a.kids = 1..Len(a.type.kids)  BY FormedFacts
<1>3. m \in Nat /\ m + 1 = Len(a.type.kids)  BY <1>1
<1>4. ASSUME NEW k \in DOMAIN a.kids
      PROVE  /\ DOMAIN a.kids[k].data = DOMAIN a.data
             /\ a.type.kids[k] \in AllTypes(s) /\ a.kids[k].type = a.type.kids[k]
  <2>1. Rows(a.kids[k]) = Rows(a)  BY FormedFacts DEF LocallyFormed, KidRows
  <2>2. DOMAIN a.data = 0..(Rows(a) - 1)  BY FormedFacts
  <2>3. DOMAIN a.kids[k].data = 0..(Rows(a.kids[k]) - 1) /\ a.kids[k].type = a.type.kids[k]  BY FormedFacts
  <2>4. a.type \in AllTypes(s) /\ DOMAIN a.kids = DOMAIN a.type.kids  BY KidDomain
  <2>5. a.type.kids[k] \in AllTypes(s)  BY <2>4, TypeFacts
  <2> QED BY <2>1, <2>2, <2>3, <2>5
<1>5. DOMAIN a.kids = 1..(m + 1) /\ Members(a) = 1..m  BY <1>2, <1>3 DEF Members
<1> HIDE DEF m
<1>6. 1 \in DOMAIN a.kids /\ \A i \in 1..m : i + 1 \in DOMAIN a.kids  BY <1>3, <1>5
<1> QED BY <1>3, <1>4, <1>5, <1>6 DEF m

\* The tag of a row.
TagAt(row) == {<<1, row>>}

\* Writing the tag leaves the members alone.
LEMMA SetTagIsRight ==
  ASSUME Recursion, NEW s \in Chunks, NEW a, Formed(s, a), Fresh(a), NEW row \in DOMAIN a.data,
         a.type.kind = "union", NEW i
  PROVE  LET b == SetTag(a, row, i) IN
         /\ KidsKept(s, a, b, TagAt(row)) /\ b.kids[1].data[row] = i - 1
         /\ \A k \in DOMAIN a.kids : k # 1 => b.kids[k] = a.kids[k]
<1>1. 1 \in DOMAIN a.kids /\ row \in DOMAIN a.kids[1].data  BY UnionFacts
<1>2. Formed(s, a.kids[1]) /\ Fresh(a.kids[1])  BY <1>1, FormedFacts, FreshEq
<1>3. ASSUME NEW x, NEW c, c = SetPrimitive(a.kids[1], row, x)
      PROVE  LET b == [a EXCEPT !.kids[1] = c] IN
             /\ KidsKept(s, a, b, {<<1, row>>}) /\ b.kids[1].data[row] = x
             /\ \A k \in DOMAIN a.kids : k # 1 => b.kids[k] = a.kids[k]
  <2>1. /\ Formed(s, c) /\ Fresh(c) /\ c.type = a.kids[1].type /\ Rows(c) = Rows(a.kids[1])
        /\ \A e \in DOMAIN a.kids[1].data : e # row => Keeps(a.kids[1], c, e)
        /\ c.data = [a.kids[1].data EXCEPT ![row] = x]
    <3>1. LET b == SetPrimitive(a.kids[1], row, x) IN
          /\ Formed(s, b) /\ Fresh(b) /\ b.type = a.kids[1].type /\ Rows(b) = Rows(a.kids[1])
          /\ \A e \in DOMAIN a.kids[1].data : e # row => Keeps(a.kids[1], b, e)
          /\ b.data = [a.kids[1].data EXCEPT ![row] = x]
      BY <1>1, <1>2, SetPrimitiveIsRight
    <3> QED BY <1>3, <3>1
  <2>2. c.data[row] = x
    <3>1. \A e \in DOMAIN a.kids[1].data : e \in DOMAIN a.kids[1].data  OBVIOUS
    <3> QED BY <1>1, <2>1
  <2> DEFINE b == [a EXCEPT !.kids[1] = c]
  <2>3. KidsKept(s, a, b, {<<1, row>>}) /\ b.kids = [a.kids EXCEPT ![1] = c]
    <3>1. ~ (a.type.kind \in {"list", "map"})  OBVIOUS
    <3> QED BY <1>1, <2>1, <3>1, KidReplaced
  <2> HIDE DEF b
  <2>4. a.kids = [i0 \in DOMAIN a.kids |-> a.kids[i0]]  BY KidDomain
  <2>5. b.kids[1] = c /\ \A k \in DOMAIN a.kids : k # 1 => b.kids[k] = a.kids[k]
    BY <1>1, <2>3, <2>4
  <2> QED BY <2>2, <2>3, <2>5 DEF b
<1> QED BY <1>3 DEF SetTag, TagAt

\* What a union has lost its member has.
LEMMA LostUnion ==
  ASSUME Recursion, NEW i, NEW x, NEW y, LostToNull(x, y)
  PROVE  LostToNull(Union(i, x), Union(i, y))
<1>1. LostToNullDef(Union(i, x), Union(i, y))  BY DEF LostToNullDef, Union
<1> QED BY <1>1, LostEq

\* What a row reads whose member i was written and whose others are NULL.
LEMMA UnionWritten ==
  ASSUME Recursion, NEW s \in Chunks, NEW a, NEW b, Formed(s, a), Formed(s, b), b.type = a.type,
         a.type.kind = "union", b.null = a.null, NEW row \in DOMAIN a.data,
         NEW i \in 1..(Len(a.type.kids) - 1), b.kids[1].data[row] = i - 1,
         \A j \in 1..(Len(a.type.kids) - 1) : j # i => row \in b.kids[j + 1].null,
         NEW v, Wrote(a.kids[i + 1], b.kids[i + 1], row, v),
         NEW u \in AllValues(s), u.go # "nil", Meaning(a.type, u) = Union(i, Meaning(a.type.kids[i + 1], v))
  PROVE  Wrote(a, b, row, u)
<1> DEFINE t == a.type
           m == Len(t.kids) - 1
<1>1. /\ m \in Nat /\ Members(b) = 1..m /\ Members(a) = 1..m
      /\ i + 1 \in DOMAIN a.kids /\ a.kids[i + 1].type = t.kids[i + 1]
  BY UnionFacts
<1>2. Tag(b, row) = i  BY <1>1 DEF Tag
<1>3. Here(b, row)  BY <1>1, <1>2 DEF Here
<1>4. Sound(b, row)
  <2>1. CASE row \in b.null  BY <2>1, SoundEq
  <2>2. CASE row \notin b.null
    <3>1. Sound(b.kids[Tag(b, row) + 1], row)  BY <1>2 DEF Wrote
    <3> QED BY <1>3, <2>2, <3>1, SoundUnion
  <2> QED BY <2>1, <2>2
<1>5. IsVector(b) /\ b.type.kind = "union"  BY FormedFacts
<1>6. row \notin b.null => Get(b, row) = Union(i, Get(b.kids[i + 1], row))
  <2>1. Tag(b, row) \in Members(b)  BY <1>1, <1>2
  <2> QED BY <1>2, <1>5, <2>1, GetEq
<1>7. row \in b.null => Get(b, row) = Nil  BY <1>5, GetEq
<1>8. LostToNull(Get(b, row), Meaning(t, u))
  <2>1. LostToNull(Get(b.kids[i + 1], row), Meaning(t.kids[i + 1], v))  BY <1>1 DEF Wrote
  <2>2. LostToNull(Union(i, Get(b.kids[i + 1], row)), Union(i, Meaning(t.kids[i + 1], v)))  BY <2>1, LostUnion
  <2> QED BY <1>6, <1>7, <2>2, LostSome
<1>9. Clean(a, row) => Get(b, row) = Meaning(t, u)
  <2>1. SUFFICES ASSUME Clean(a, row) PROVE Get(b, row) = Meaning(t, u)  OBVIOUS
  <2>2. row \notin b.null  BY <2>1, CleanNotNull
  <2>3. Clean(a.kids[i + 1], row)
    <3>1. CleanDef(a, row)
      <4>1. IsVector(a)  BY FormedFacts
      <4> QED BY <2>1, <4>1, VectorEq
    <3>2. row \in Places(a, row)  BY DEF Places
    <3> QED BY <1>1, <3>1, <3>2 DEF CleanDef
  <2>4. Get(b.kids[i + 1], row) = Meaning(t.kids[i + 1], v)  BY <1>1, <2>3 DEF Wrote
  <2> QED BY <1>6, <2>2, <2>4
<1>10. u # Nil  BY NilIsValue
<1> QED BY <1>4, <1>8, <1>9, <1>10 DEF Wrote

\* Every type takes a NULL.
LEMMA TakesNil ==
  ASSUME Recursion, NEW s \in Chunks, NEW t \in AllTypes(s)
  PROVE  Takes(t, Nil)
BY TypeEq, NilIsValue DEF TakesDef

\* One row of every child.
AtRow(a, row) == {<<k, row>> : k \in DOMAIN a.kids}

\* The other rows of a UNION keep theirs when the children change in one row.
LEMMA UnionRowKept ==
  ASSUME Recursion, NEW s \in Chunks, NEW a, NEW b, Formed(s, a), a.type.kind = "union", NEW row,
         KidsKept(s, a, b, AtRow(a, row)), NEW r \in DOMAIN a.data, r # row
  PROVE  Keeps(a, b, r)
<1>1. ASSUME NEW i \in DOMAIN a.kids, NEW e \in Places(a, r) PROVE <<i, e>> \notin AtRow(a, row)
  <2>1. e = r  BY <1>1 DEF Places
  <2> QED BY <2>1 DEF AtRow
<1> QED BY <1>1, RowIsKept

\* Rows that are kept are kept when fewer are asked for.
LEMMA KidsKeptMore ==
  ASSUME NEW s, NEW a, NEW b, NEW at, NEW more, KidsKept(s, a, b, at), at \subseteq more
  PROVE  KidsKept(s, a, b, more)
BY DEF KidsKept

-----------------------------------------------------------------------------
\* A union's tag and then other children in the same row.
LEMMA TagAndWrites ==
  ASSUME Recursion, NEW s \in Chunks, NEW a, Formed(s, a), Fresh(a), a.type.kind = "union",
         KidsSetRight(s, a.type), NEW row \in DOMAIN a.data, NEW i,
         NEW n \in Nat, NEW ws, ws = [j \in 1..n |-> ws[j]],
         \A j \in 1..n : /\ ws[j] = At(ws[j].kid, row, ws[j].val)
                         /\ ws[j].kid \in DOMAIN a.kids /\ ws[j].kid # 1 /\ ws[j].val \in AllValues(s),
         \A j, k \in 1..n : j # k => ws[j].kid # ws[k].kid
  PROVE  LET d == WriteKids(SetTag(a, row, i), ws)  b == d.vec IN
         /\ KidsKept(s, a, b, AtRow(a, row)) /\ b.kids[1].data[row] = i - 1
         /\ d.ok <=> \A j \in 1..n : Takes(a.type.kids[ws[j].kid], ws[j].val)
         /\ d.ok => \A j \in 1..n : Wrote(a.kids[ws[j].kid], b.kids[ws[j].kid], row, ws[j].val)
         /\ \A k \in DOMAIN a.kids : k # 1 /\ (\A j \in 1..n : ws[j].kid # k) => Keeps(a.kids[k], b.kids[k], row)
<1> DEFINE z == SetTag(a, row, i)
           d == WriteKids(z, ws)
           b == d.vec
<1>1. /\ KidsKept(s, a, z, TagAt(row)) /\ z.kids[1].data[row] = i - 1
      /\ \A k \in DOMAIN a.kids : k # 1 => z.kids[k] = a.kids[k]
  BY SetTagIsRight
<1> HIDE DEF z
<1>2. Formed(s, z) /\ Fresh(z) /\ z.type = a.type /\ z.data = a.data  BY <1>1 DEF KidsKept, Alike
<1>3. DOMAIN z.kids = DOMAIN a.kids
  <2>1. DOMAIN z.kids = DOMAIN z.type.kids  BY <1>2, KidDomain
  <2>2. DOMAIN a.kids = DOMAIN a.type.kids  BY KidDomain
  <2> QED BY <1>2, <2>1, <2>2
<1>4. \A k \in DOMAIN a.kids : row \in DOMAIN z.kids[k].data
  <2>1. \A k \in DOMAIN z.kids : DOMAIN z.kids[k].data = DOMAIN z.data  BY <1>2, UnionFacts
  <2> QED BY <1>2, <1>3, <2>1
<1>5. row \in Nat
  <2>1. DOMAIN a.data = 0..(Rows(a) - 1) /\ Rows(a) \in Nat  BY FormedFacts
  <2> QED BY <2>1
<1>6. \A j \in 1..n : /\ ws[j].row = row
                      /\ ws[j] \in [kid : DOMAIN z.kids, row : Nat, val : AllValues(s)]
  <2>1. TAKE j \in 1..n
  <2>2. /\ ws[j] = At(ws[j].kid, row, ws[j].val)
        /\ ws[j].kid \in DOMAIN z.kids /\ ws[j].val \in AllValues(s)
    BY <1>3
  <2>3. ASSUME NEW x, NEW k \in DOMAIN z.kids, NEW v \in AllValues(s), x = At(k, row, v)
        PROVE  x.row = row /\ x \in [kid : DOMAIN z.kids, row : Nat, val : AllValues(s)]
    BY <1>5, <2>3 DEF At
  <2> QED BY <2>2, <2>3
<1>7. ws \in Seq([kid : DOMAIN z.kids, row : Nat, val : AllValues(s)]) /\ DOMAIN ws = 1..n
  BY <1>6, SeqOf
<1>8. AreWrites(s, z, ws)
  <2>1. ~ (z.type.kind \in {"list", "map"})  BY <1>2
  <2> QED BY <1>3, <1>4, <1>6, <1>7, <2>1 DEF AreWrites
<1>9. KidsWritten(s, z, ws, d)  BY <1>2, <1>8, WriteKidsIsRight
<1> HIDE DEF d
<1>10. KidsKept(s, z, b, Targets(ws))  BY <1>9 DEF KidsWritten
<1>11. KidsKept(s, a, b, AtRow(a, row))
  <2>1. KidsKept(s, a, b, TagAt(row) \cup Targets(ws))  BY <1>1, <1>10, KidsKeptTrans
  <2>2. TagAt(row) \cup Targets(ws) \subseteq AtRow(a, row)
    <3>1. 1 \in DOMAIN a.kids  BY UnionFacts
    <3> QED BY <1>6, <1>7, <3>1 DEF Targets, AtRow, TagAt
  <2> QED BY <2>1, <2>2, KidsKeptMore
<1>12. ASSUME NEW k \in DOMAIN a.kids, \A j \in 1..n : ws[j].kid # k
       PROVE  Keeps(z.kids[k], b.kids[k], row)
  <2>1. <<k, row>> \notin Targets(ws)  BY <1>7, <1>12 DEF Targets
  <2> QED BY <1>3, <1>4, <1>10, <2>1 DEF KidsKept
<1>13. b.kids[1].data[row] = i - 1
  <2>1. 1 \in DOMAIN a.kids  BY UnionFacts
  <2>2. Keeps(z.kids[1], b.kids[1], row)  BY <1>12, <2>1
  <2> QED BY <1>1, <2>2 DEF Keeps
<1>14. d.ok <=> \A j \in 1..n : Takes(a.type.kids[ws[j].kid], ws[j].val)
  BY <1>2, <1>7, <1>9 DEF KidsWritten
<1>15. ASSUME d.ok, NEW j \in 1..n PROVE Wrote(a.kids[ws[j].kid], b.kids[ws[j].kid], row, ws[j].val)
  <2>1. Distinct(ws)  BY <1>7 DEF Distinct
  <2>2. Wrote(z.kids[ws[j].kid], b.kids[ws[j].kid], ws[j].row, ws[j].val)
    BY <1>7, <1>9, <1>15, <2>1 DEF KidsWritten
  <2> QED BY <1>1, <1>6, <2>2
<1>16. \A k \in DOMAIN a.kids : k # 1 /\ (\A j \in 1..n : ws[j].kid # k) => Keeps(a.kids[k], b.kids[k], row)
  BY <1>1, <1>12
<1> QED BY <1>11, <1>13, <1>14, <1>15, <1>16 DEF d, z

\* A value of a UNION that names its member.
LEMMA SetTaggedValue ==
  ASSUME Recursion, NEW s \in Chunks, NEW a, Formed(s, a), Fresh(a), NEW row \in DOMAIN a.data,
         KidsSetRight(s, a.type), NEW v \in AllValues(s), v.go = "Union", a.type.kind = "union"
  PROVE  Outcome(s, a, row, v, SetTagged(a, row, v))
<1> DEFINE t == a.type
           m == Len(t.kids) - 1
           tag == v.tag
           ws == [i \in 1..m |-> At(i + 1, row, IF i = tag THEN v.value ELSE Nil)]
           d == WriteKids(SetTag(a, row, tag), ws)
           b == d.vec
<1>1. /\ m \in Nat /\ Members(a) = 1..m /\ DOMAIN a.kids = 1..(m + 1)
      /\ \A i \in 1..m : i + 1 \in DOMAIN a.kids
      /\ \A k \in DOMAIN a.kids : t.kids[k] \in AllTypes(s)
  BY UnionFacts
<1>2. t \in AllTypes(s)  BY KidDomain
<1>3. Takes(t, v) <=> tag \in 1..m /\ Takes(t.kids[tag + 1], v.value)
  BY <1>2, TypeEq DEF TakesDef, Leaves
<1>4. CASE tag \notin 1..m
  <2>1. SetTagged(a, row, v) = Done(FALSE, a)  BY <1>1, <1>4 DEF SetTagged
  <2> QED BY <1>3, <1>4, <2>1, Untouched
<1>5. CASE tag \in 1..m
  <2>1. SetTagged(a, row, v) = d  BY <1>1, <1>5 DEF SetTagged, MemberWrites
  <2>2. v.value \in AllValues(s)  BY ValueFacts
  <2>3. /\ ws = [i \in 1..m |-> ws[i]]
        /\ \A i \in 1..m : ws[i] = At(i + 1, row, IF i = tag THEN v.value ELSE Nil)
    OBVIOUS
  <2> HIDE DEF ws, m
  <2>4. \A i \in 1..m : /\ ws[i].kid = i + 1 /\ ws[i].val = IF i = tag THEN v.value ELSE Nil
                        /\ ws[i] = At(ws[i].kid, row, ws[i].val)
                        /\ ws[i].kid \in DOMAIN a.kids /\ ws[i].kid # 1 /\ ws[i].val \in AllValues(s)
    <3>1. TAKE i \in 1..m
    <3>2. i + 1 # 1 /\ i + 1 \in DOMAIN a.kids  BY <1>1
    <3>3. ws[i].kid = i + 1 /\ ws[i].val = IF i = tag THEN v.value ELSE Nil  BY <2>3 DEF At
    <3> QED BY <2>2, <2>3, <3>2, <3>3, NilIsValue
  <2>5. \A i, j \in 1..m : i # j => ws[i].kid # ws[j].kid
    <3>1. \A i, j \in 1..m : i # j => i + 1 # j + 1  BY <1>1
    <3> QED BY <2>4, <3>1
  <2>6. /\ KidsKept(s, a, b, AtRow(a, row)) /\ b.kids[1].data[row] = tag - 1
        /\ d.ok <=> \A j \in 1..m : Takes(t.kids[ws[j].kid], ws[j].val)
        /\ d.ok => \A j \in 1..m : Wrote(a.kids[ws[j].kid], b.kids[ws[j].kid], row, ws[j].val)
    <3>1. \A j \in 1..m : /\ ws[j] = At(ws[j].kid, row, ws[j].val)
                          /\ ws[j].kid \in DOMAIN a.kids /\ ws[j].kid # 1 /\ ws[j].val \in AllValues(s)
      BY <2>4
    <3>2. m \in Nat /\ ws = [i \in 1..m |-> ws[i]]  BY <1>1, <2>3
    <3> HIDE DEF tag
    <3>3. ASSUME NEW x PROVE LET e == WriteKids(SetTag(a, row, x), ws)  y == e.vec IN
            /\ KidsKept(s, a, y, AtRow(a, row)) /\ y.kids[1].data[row] = x - 1
            /\ e.ok <=> \A j \in 1..m : Takes(a.type.kids[ws[j].kid], ws[j].val)
            /\ e.ok => \A j \in 1..m : Wrote(a.kids[ws[j].kid], y.kids[ws[j].kid], row, ws[j].val)
      BY <3>2, <2>5, <3>1, TagAndWrites
    <3> QED BY <3>3
  <2> HIDE DEF d
  <2>7. /\ Formed(s, b) /\ Fresh(b) /\ b.type = t /\ b.null = a.null /\ Rows(b) = Rows(a)
        /\ \A r \in DOMAIN a.data : r # row => Keeps(a, b, r)
    <3>1. Formed(s, b) /\ Fresh(b) /\ b.type = t /\ b.null = a.null /\ Rows(b) = Rows(a)
      BY <2>6 DEF KidsKept, Alike, Rows
    <3>2. \A r \in DOMAIN a.data : r # row => Keeps(a, b, r)  BY <2>6, UnionRowKept
    <3> QED BY <3>1, <3>2
  <2>8. d.ok <=> Takes(t, v)
    <3>1. \A j \in 1..m : Takes(t.kids[j + 1], Nil)  BY <1>1, TakesNil
    <3>2. d.ok <=> \A j \in 1..m : Takes(t.kids[j + 1], IF j = tag THEN v.value ELSE Nil)  BY <2>4, <2>6
    <3>3. (\A j \in 1..m : Takes(t.kids[j + 1], IF j = tag THEN v.value ELSE Nil))
            <=> Takes(t.kids[tag + 1], v.value)
      BY <1>5, <3>1
    <3> QED BY <1>3, <1>5, <3>2, <3>3
  <2>9. ASSUME d.ok PROVE Wrote(a, b, row, v)
    <3>1. \A j \in 1..m : Wrote(a.kids[j + 1], b.kids[j + 1], row, IF j = tag THEN v.value ELSE Nil)
      BY <2>4, <2>6, <2>9
    <3>2. Wrote(a.kids[tag + 1], b.kids[tag + 1], row, v.value)  BY <1>5, <3>1
    <3>3. \A j \in 1..m : j # tag => row \in b.kids[j + 1].null  BY <3>1 DEF Wrote
    <3>4. Meaning(t, v) = Union(tag, Meaning(t.kids[tag + 1], v.value))
      <4>1. Meaning(t, v) = MeaningDef(t, v)  BY <1>2, <2>8, <2>9, TypeEq
      <4> QED BY <4>1 DEF MeaningDef, Leaves
    <3>5. v.go # "nil"  OBVIOUS
    <3> QED BY <1>5, <2>6, <2>7, <3>2, <3>3, <3>4, <3>5, UnionWritten DEF m
  <2>10. Outcome(s, a, row, v, d)  BY <2>7, <2>8, <2>9 DEF Outcome
  <2> QED BY <2>1, <2>10
<1> QED BY <1>4, <1>5

-----------------------------------------------------------------------------
\* One member of a UNION is tried.
LEMMA TryMember ==
  ASSUME Recursion, NEW s \in Chunks, NEW a, Formed(s, a), Fresh(a), a.type.kind = "union",
         KidsSetRight(s, a.type), NEW row \in DOMAIN a.data, NEW v \in AllValues(s),
         NEW i \in 1..(Len(a.type.kids) - 1)
  PROVE  LET d == WriteKid(a, At(i + 1, row, v)) IN
         /\ KidsKept(s, a, d.vec, AtRow(a, row))
         /\ \A k \in DOMAIN a.kids : k # i + 1 => d.vec.kids[k] = a.kids[k]
         /\ d.ok <=> Takes(a.type.kids[i + 1], v)
         /\ d.ok => Wrote(a.kids[i + 1], d.vec.kids[i + 1], row, v)
<1>1. i + 1 \in DOMAIN a.kids /\ row \in DOMAIN a.kids[i + 1].data  BY UnionFacts
<1>2. ASSUME NEW k \in DOMAIN a.kids, row \in DOMAIN a.kids[k].data, NEW w, w = At(k, row, v)
      PROVE  LET d == WriteKid(a, w) IN
             /\ KidsKept(s, a, d.vec, AtRow(a, row))
             /\ \A j \in DOMAIN a.kids : j # k => d.vec.kids[j] = a.kids[j]
             /\ d.ok <=> Takes(a.type.kids[k], v)
             /\ d.ok => Wrote(a.kids[k], d.vec.kids[k], row, v)
  <2>1. w.kid = k /\ w.row = row /\ w.val = v  BY <1>2 DEF At
  <2> DEFINE d == WriteKid(a, w)
  <2>2. /\ KidsKept(s, a, d.vec, {<<w.kid, w.row>>})
        /\ \A j \in DOMAIN a.kids : j # w.kid => d.vec.kids[j] = a.kids[j]
        /\ d.ok <=> Takes(a.type.kids[w.kid], w.val)
        /\ d.ok => Wrote(a.kids[w.kid], d.vec.kids[w.kid], w.row, w.val)
    <3>1. /\ w.kid \in DOMAIN a.kids /\ w.row \in DOMAIN a.kids[w.kid].data /\ w.val \in AllValues(s)
          /\ a.type.kind \in {"list", "map"} => w.row < a.size
      BY <1>2, <2>1
    <3> QED BY <3>1, WriteKidIsRight
  <2> HIDE DEF d
  <2>3. {<<w.kid, w.row>>} \subseteq AtRow(a, row)  BY <2>1 DEF AtRow
  <2>4. KidsKept(s, a, d.vec, AtRow(a, row))  BY <2>2, <2>3, KidsKeptMore
  <2> QED BY <2>1, <2>2, <2>4 DEF d
<1> QED BY <1>1, <1>2

\* None of some members of a UNION takes v.
NoneTakes(t, v, members) == \A j \in members : ~ Takes(t.kids[j + 1], v)

\* What the search for a member that takes v finds from member i on.
Found(s, a, row, v, i, f) ==
  /\ KidsKept(s, a, f.vec, AtRow(a, row))
  /\ f.match = 0 => NoneTakes(a.type, v, i..(Len(a.type.kids) - 1))
  /\ f.match # 0 => /\ f.match \in i..(Len(a.type.kids) - 1) /\ Takes(a.type.kids[f.match + 1], v)
                    /\ NoneTakes(a.type, v, i..(f.match - 1))
                    /\ Wrote(a.kids[f.match + 1], f.vec.kids[f.match + 1], row, v)

\* The search finds the first member that takes the value, and the members tried
\* before it keep their other rows.
LEMMA FirstMatchIsRight ==
  ASSUME Recursion, NEW s \in Chunks, NEW row, NEW v \in AllValues(s)
  PROVE  \A n \in Nat : \A a, i :
           /\ Formed(s, a) /\ Fresh(a) /\ a.type.kind = "union" /\ KidsSetRight(s, a.type) /\ row \in DOMAIN a.data
           /\ i \in Nat \ {0} /\ i + n = Len(a.type.kids)
           => Found(s, a, row, v, i, FirstMatch(a, row, v, i))
<1> DEFINE Start(a, i, n) ==
             /\ Formed(s, a) /\ Fresh(a) /\ a.type.kind = "union" /\ KidsSetRight(s, a.type) /\ row \in DOMAIN a.data
             /\ i \in Nat \ {0} /\ i + n = Len(a.type.kids)
           G == {n \in Nat : \A a, i : Start(a, i, n) => Found(s, a, row, v, i, FirstMatch(a, row, v, i))}
<1>0. ASSUME NEW a, NEW i, NEW n \in Nat, Start(a, i, n)
      PROVE  /\ FirstMatch(a, row, v, i) = FirstMatchDef(a, row, v, i)
             /\ Len(a.type.kids) - 1 \in Nat /\ Members(a) = 1..(Len(a.type.kids) - 1)
             /\ DOMAIN a.kids = 1..Len(a.type.kids) /\ Len(a.type.kids) \in Nat
  <2>1. FirstMatch(a, row, v, i) = FirstMatchDef(a, row, v, i)  BY <1>0 DEF Recursion, OfWrites
  <2>2. DOMAIN a.kids = 1..Len(a.type.kids) /\ Len(a.type.kids) \in Nat  BY <1>0, FormedFacts
  <2>3. Len(a.type.kids) - 1 \in Nat /\ Members(a) = 1..(Len(a.type.kids) - 1)  BY <1>0, UnionFacts
  <2> QED BY <2>1, <2>2, <2>3
<1>1. 0 \in G
  <2>1. ASSUME NEW a, NEW i, Start(a, i, 0)
        PROVE  Found(s, a, row, v, i, FirstMatch(a, row, v, i))
    <3>1. i \notin Members(a) /\ \A j \in i..(Len(a.type.kids) - 1) : FALSE
      <4>1. i = Len(a.type.kids) /\ Len(a.type.kids) - 1 \in Nat  BY <1>0, <2>1
      <4>2. Members(a) = 1..(Len(a.type.kids) - 1)  BY <1>0, <2>1
      <4> QED BY <4>1, <4>2
    <3>2. FirstMatch(a, row, v, i) = [match |-> 0, vec |-> a]
      <4>1. FirstMatch(a, row, v, i) = FirstMatchDef(a, row, v, i)  BY <1>0, <2>1
      <4> QED BY <3>1, <4>1 DEF FirstMatchDef
    <3>3. FirstMatch(a, row, v, i).match = 0 /\ FirstMatch(a, row, v, i).vec = a  BY <3>2
    <3>4. KidsKept(s, a, a, AtRow(a, row))  BY <2>1, KidsKeptSelf
    <3> QED BY <3>1, <3>3, <3>4 DEF Found, NoneTakes
  <2> QED BY <2>1
<1>2. ASSUME NEW n \in Nat, n \in G PROVE n + 1 \in G
  <2>1. ASSUME NEW a, NEW i, Start(a, i, n + 1)
        PROVE  Found(s, a, row, v, i, FirstMatch(a, row, v, i))
    <3> DEFINE m == Len(a.type.kids) - 1
               try == WriteKid(a, At(i + 1, row, v))
               b == try.vec
               rest == FirstMatch(b, row, v, i + 1)
               f == FirstMatch(a, row, v, i)
    <3>1. /\ m \in Nat /\ Members(a) = 1..m /\ i \in 1..m /\ i \in Nat \ {0}
          /\ DOMAIN a.kids = 1..(m + 1) /\ i + n = m
      <4>0. n + 1 \in Nat  OBVIOUS
      <4>1. /\ m \in Nat /\ Members(a) = 1..m /\ DOMAIN a.kids = 1..Len(a.type.kids)
            /\ Len(a.type.kids) \in Nat
        BY <1>0, <2>1, <4>0
      <4>2. i \in Nat \ {0} /\ i + (n + 1) = Len(a.type.kids)  BY <2>1
      <4>3. i + n = m /\ m + 1 = Len(a.type.kids) /\ i \in 1..m  BY <4>1, <4>2
      <4> HIDE DEF m
      <4> QED BY <4>1, <4>2, <4>3
    <3>2. f = IF try.ok THEN [match |-> i, vec |-> b] ELSE rest
      <4>0. n + 1 \in Nat  OBVIOUS
      <4>1. f = FirstMatchDef(a, row, v, i)  BY <1>0, <2>1, <4>0
      <4> QED BY <3>1, <4>1 DEF FirstMatchDef
    <3>3. /\ KidsKept(s, a, b, AtRow(a, row))
          /\ \A k \in DOMAIN a.kids : k # i + 1 => b.kids[k] = a.kids[k]
          /\ try.ok <=> Takes(a.type.kids[i + 1], v)
          /\ try.ok => Wrote(a.kids[i + 1], b.kids[i + 1], row, v)
      BY <2>1, <3>1, TryMember
    <3> HIDE DEF try, b, f
    <3>4. CASE try.ok
      <4>1. f.match = i /\ f.vec = b  BY <3>2, <3>4
      <4>2. i # 0 /\ i \in i..m /\ NoneTakes(a.type, v, i..(i - 1))
        <5>1. \A j \in i..(i - 1) : FALSE  BY <3>1
        <5> QED BY <3>1, <5>1 DEF NoneTakes
      <4> QED BY <3>3, <3>4, <4>1, <4>2 DEF Found, f
    <3>5. CASE ~ try.ok
      <4>1. Formed(s, b) /\ Fresh(b) /\ Alike(a, b)  BY <3>3 DEF KidsKept
      <4>2. b.type = a.type /\ row \in DOMAIN b.data  BY <2>1, <4>1 DEF Alike
      <4>3. Start(b, i + 1, n)
        <5>1. i + 1 \in Nat \ {0} /\ (i + 1) + n = Len(a.type.kids)  BY <2>1, <3>1
        <5> QED BY <2>1, <4>1, <4>2, <5>1
      <4>4. f = rest  BY <3>2, <3>5
      <4>5. Found(s, b, row, v, i + 1, f)  BY <1>2, <4>3, <4>4
      <4> HIDE DEF rest
      <4>6. DOMAIN b.kids = DOMAIN a.kids
        <5>1. DOMAIN b.kids = DOMAIN b.type.kids  BY <4>1, KidDomain
        <5>2. DOMAIN a.kids = DOMAIN a.type.kids  BY <2>1, KidDomain
        <5> QED BY <4>2, <5>1, <5>2
      <4>7. KidsKept(s, a, f.vec, AtRow(a, row))
        <5>1. KidsKept(s, b, f.vec, AtRow(a, row))  BY <4>5, <4>6 DEF Found, AtRow
        <5>2. KidsKept(s, a, f.vec, AtRow(a, row) \cup AtRow(a, row))  BY <2>1, <3>3, <5>1, KidsKeptTrans
        <5> QED BY <5>2, KidsKeptMore
      <4>8. ~ Takes(a.type.kids[i + 1], v)  BY <3>3, <3>5
      <4>9. f.match = 0 => NoneTakes(a.type, v, i..m)
        <5>1. \A j \in i..m : j = i \/ j \in (i + 1)..m  BY <3>1
        <5>2. f.match = 0 => NoneTakes(a.type, v, (i + 1)..m)  BY <4>2, <4>5 DEF Found
        <5> HIDE DEF m
        <5> QED BY <4>8, <5>1, <5>2 DEF NoneTakes
      <4>10. ASSUME f.match # 0
             PROVE  /\ f.match \in i..m /\ Takes(a.type.kids[f.match + 1], v)
                    /\ NoneTakes(a.type, v, i..(f.match - 1))
                    /\ Wrote(a.kids[f.match + 1], f.vec.kids[f.match + 1], row, v)
        <5>1. /\ f.match \in (i + 1)..m /\ Takes(a.type.kids[f.match + 1], v)
              /\ NoneTakes(a.type, v, (i + 1)..(f.match - 1))
              /\ Wrote(b.kids[f.match + 1], f.vec.kids[f.match + 1], row, v)
          BY <4>2, <4>5, <4>10 DEF Found
        <5>2. /\ f.match \in i..m /\ f.match + 1 \in DOMAIN a.kids /\ f.match + 1 # i + 1
              /\ \A j \in i..(f.match - 1) : j = i \/ j \in (i + 1)..(f.match - 1)
          BY <3>1, <5>1
        <5>3. b.kids[f.match + 1] = a.kids[f.match + 1]  BY <3>3, <5>2
        <5>4. NoneTakes(a.type, v, i..(f.match - 1))  BY <4>8, <5>1, <5>2 DEF NoneTakes
        <5> QED BY <5>1, <5>2, <5>3, <5>4
      <4> QED BY <4>7, <4>9, <4>10 DEF Found, f
    <3> QED BY <3>4, <3>5 DEF f
  <2> QED BY <2>1
<1>3. \A n \in Nat : n \in G
  <2> HIDE DEF G
  <2> QED BY <1>1, <1>2, NatFrom
<1> QED BY <1>3

\* NULL for every member but k of m.
AreOthers(ws, row, m, k) ==
  /\ m - 1 \in Nat /\ ws = [j \in 1..(m - 1) |-> ws[j]]
  /\ \A j \in 1..(m - 1) : /\ ws[j] = At(ws[j].kid, row, ws[j].val) /\ ws[j].val = Nil
                           /\ ws[j].kid \in 2..(m + 1) /\ ws[j].kid # k + 1
  /\ \A i, j \in 1..(m - 1) : i # j => ws[i].kid # ws[j].kid
  /\ \A i \in 1..m : i # k => \E j \in 1..(m - 1) : ws[j].kid = i + 1

\* The writes of NULL that follow a match are those.
LEMMA OtherWritesIs ==
  ASSUME NEW a, NEW row, NEW m \in Nat, Len(a.type.kids) = m + 1, NEW k \in 1..m
  PROVE  AreOthers(OtherWrites(a, row, k), row, m, k)
<1> DEFINE ws == OtherWrites(a, row, k)
           kid(j) == IF j < k THEN j + 1 ELSE j + 2
<1>1. m - 1 \in Nat /\ Len(a.type.kids) - 2 = m - 1  OBVIOUS
<1>2. ws = [j \in 1..(m - 1) |-> At(kid(j), row, Nil)]  BY <1>1 DEF OtherWrites
<1> HIDE DEF ws
<1>3. ASSUME NEW j \in 1..(m - 1)
      PROVE  /\ kid(j) \in 2..(m + 1) /\ kid(j) # k + 1
             /\ ws[j].kid = kid(j) /\ ws[j].val = Nil /\ ws[j] = At(ws[j].kid, row, ws[j].val)
  <2>1. kid(j) \in 2..(m + 1) /\ kid(j) # k + 1  BY <1>1
  <2> HIDE DEF kid
  <2>2. ws[j] = At(kid(j), row, Nil)  BY <1>2
  <2>3. ws[j].kid = kid(j) /\ ws[j].val = Nil  BY <2>2 DEF At
  <2> QED BY <2>1, <2>2, <2>3
<1>4. \A i, j \in 1..(m - 1) : i # j => kid(i) # kid(j)  BY <1>1
<1>5. ASSUME NEW i \in 1..m, i # k PROVE \E j \in 1..(m - 1) : kid(j) = i + 1
  <2>1. CASE i < k  BY <1>1, <2>1
  <2>2. CASE ~ (i < k)
    <3>1. i - 1 \in 1..(m - 1) /\ ~ (i - 1 < k) /\ i - 1 + 2 = i + 1  BY <1>5, <2>2
    <3>2. kid(i - 1) = i + 1  BY <3>1
    <3> QED BY <3>1, <3>2
  <2> QED BY <2>1, <2>2
<1>6. ws = [j \in 1..(m - 1) |-> ws[j]]  BY <1>2
<1> HIDE DEF kid
<1>7. \A j \in 1..(m - 1) : /\ ws[j] = At(ws[j].kid, row, ws[j].val) /\ ws[j].val = Nil
                            /\ ws[j].kid \in 2..(m + 1) /\ ws[j].kid # k + 1
  BY <1>3
<1>8. \A i, j \in 1..(m - 1) : i # j => ws[i].kid # ws[j].kid  BY <1>3, <1>4
<1>9. \A i \in 1..m : i # k => \E j \in 1..(m - 1) : ws[j].kid = i + 1  BY <1>3, <1>5
<1> QED BY <1>1, <1>6, <1>7, <1>8, <1>9 DEF ws, AreOthers

\* The least member that takes a value.
LEMMA LeastMember ==
  ASSUME NEW t, NEW v, NEW m \in Nat, NEW k \in 1..m, Takes(t.kids[k + 1], v), NoneTakes(t, v, 1..(k - 1))
  PROVE  Min({j \in 1..m : Takes(t.kids[j + 1], v)}) = k
<1> DEFINE S == {j \in 1..m : Takes(t.kids[j + 1], v)}
<1>1. k \in S  OBVIOUS
<1>2. \A y \in S : k <= y /\ y \in Int
  <2>1. ASSUME NEW y \in S PROVE k <= y
    <3>1. y \in 1..m /\ Takes(t.kids[y + 1], v)  OBVIOUS
    <3>2. y \notin 1..(k - 1)  BY <3>1 DEF NoneTakes
    <3> QED BY <3>1, <3>2
  <2> QED BY <2>1
<1> HIDE DEF S
<1>3. \A x \in S : (\A y \in S : x <= y) => x = k  BY <1>1, <1>2
<1> QED BY <1>1, <1>2, <1>3 DEF Min, S

\* Setting a value without a tag, by whether a member was found.
LEMMA SetMatchingIs ==
  ASSUME NEW a, NEW row, NEW v
  PROVE  LET f == FirstMatch(a, row, v, 1) IN
         /\ f.match = 0 => SetMatching(a, row, v) = Done(FALSE, f.vec)
         /\ f.match # 0 => SetMatching(a, row, v) = WriteKids(SetTag(f.vec, row, f.match), OtherWrites(a, row, f.match))
BY DEF SetMatching

\* A value of a UNION that does not name its member.
LEMMA SetMatchingValue ==
  ASSUME Recursion, NEW s \in Chunks, NEW a, Formed(s, a), Fresh(a), NEW row \in DOMAIN a.data,
         KidsSetRight(s, a.type), NEW v \in AllValues(s), v.go \notin {"nil", "Union"}, a.type.kind = "union"
  PROVE  Outcome(s, a, row, v, SetMatching(a, row, v))
<1> DEFINE t == a.type
           m == Len(t.kids) - 1
           f == FirstMatch(a, row, v, 1)
           b == f.vec
           k == f.match
<1>1. /\ m \in Nat /\ DOMAIN a.kids = 1..(m + 1) /\ Len(t.kids) = m + 1
      /\ \A i \in 1..m : i + 1 \in DOMAIN a.kids /\ t.kids[i + 1] \in AllTypes(s)
  <2>1. m \in Nat /\ DOMAIN a.kids = 1..(m + 1) /\ \A i \in 1..m : i + 1 \in DOMAIN a.kids  BY UnionFacts
  <2>2. \A j \in DOMAIN a.kids : t.kids[j] \in AllTypes(s)  BY UnionFacts
  <2>3. Len(t.kids) \in Nat  BY FormedFacts
  <2> QED BY <2>1, <2>2, <2>3
<1>2. t \in AllTypes(s)  BY KidDomain
<1>3. Takes(t, v) <=> \E i \in 1..m : Takes(t.kids[i + 1], v)
  <2>1. Takes(t, v) <=> \E i \in 2..Len(t.kids) : Takes(t.kids[i], v)
    BY <1>2, TypeEq DEF TakesDef, Leaves
  <2>2. \A i \in 2..Len(t.kids) : i - 1 \in 1..m /\ i - 1 + 1 = i  BY <1>1
  <2>3. \A i \in 1..m : i + 1 \in 2..Len(t.kids)  BY <1>1
  <2> HIDE DEF m
  <2> QED BY <2>1, <2>2, <2>3
<1>4. Found(s, a, row, v, 1, f)
  <2>1. 1 \in Nat \ {0} /\ 1 + m = Len(t.kids)  BY <1>1
  <2> HIDE DEF m
  <2> QED BY <1>1, <2>1, FirstMatchIsRight
<1>5. /\ k = 0 => SetMatching(a, row, v) = Done(FALSE, b)
      /\ k # 0 => SetMatching(a, row, v) = WriteKids(SetTag(b, row, k), OtherWrites(a, row, k))
  BY SetMatchingIs
<1> HIDE DEF f
<1>6. KidsKept(s, a, b, AtRow(a, row))  BY <1>4 DEF Found
<1>7. Formed(s, b) /\ Fresh(b) /\ b.type = t /\ b.data = a.data /\ b.null = a.null /\ DOMAIN b.kids = DOMAIN a.kids
  <2>1. Formed(s, b) /\ Fresh(b) /\ b.type = t /\ b.data = a.data /\ b.null = a.null  BY <1>6 DEF KidsKept, Alike
  <2>2. DOMAIN b.kids = DOMAIN b.type.kids  BY <2>1, KidDomain
  <2>3. DOMAIN a.kids = DOMAIN t.kids  BY KidDomain
  <2> QED BY <2>1, <2>2, <2>3
<1>8. CASE k = 0
  <2>1. SetMatching(a, row, v) = Done(FALSE, b)  BY <1>5, <1>8
  <2>2. ~ Takes(t, v)  BY <1>3, <1>4, <1>8 DEF Found, NoneTakes
  <2>3. Done(FALSE, b).ok = FALSE /\ Done(FALSE, b).vec = b  BY DEF Done
  <2>4. \A r \in DOMAIN a.data : r # row => Keeps(a, b, r)  BY <1>6, UnionRowKept
  <2>5. Rows(b) = Rows(a)  BY <1>7 DEF Rows
  <2>6. Outcome(s, a, row, v, Done(FALSE, b))  BY <1>7, <2>2, <2>3, <2>4, <2>5 DEF Outcome
  <2> QED BY <2>1, <2>6
<1>9. CASE k # 0
  <2> DEFINE ws == OtherWrites(a, row, k)
             d == WriteKids(SetTag(b, row, k), ws)
             c == d.vec
  <2>1. SetMatching(a, row, v) = d  BY <1>5, <1>9
  <2>2. /\ k \in 1..m /\ Takes(t.kids[k + 1], v) /\ NoneTakes(t, v, 1..(k - 1))
        /\ Wrote(a.kids[k + 1], b.kids[k + 1], row, v)
    BY <1>4, <1>9 DEF Found
  <2> HIDE DEF m, k
  <2>3. /\ m - 1 \in Nat /\ ws = [j \in 1..(m - 1) |-> ws[j]]
        /\ \A j \in 1..(m - 1) : /\ ws[j] = At(ws[j].kid, row, ws[j].val) /\ ws[j].val = Nil
                                 /\ ws[j].kid \in 2..(m + 1) /\ ws[j].kid # k + 1
        /\ \A i, j \in 1..(m - 1) : i # j => ws[i].kid # ws[j].kid
        /\ \A i \in 1..m : i # k => \E j \in 1..(m - 1) : ws[j].kid = i + 1
    <3>1. Len(a.type.kids) = m + 1  BY <1>1
    <3>2. AreOthers(ws, row, m, k)  BY <1>1, <2>2, <3>1, OtherWritesIs
    <3> HIDE DEF ws
    <3> QED BY <3>2 DEF AreOthers
  <2> HIDE DEF ws
  <2>4. \A j \in 1..(m - 1) : /\ ws[j].kid \in DOMAIN b.kids /\ ws[j].kid # 1 /\ ws[j].val \in AllValues(s)
    <3>1. \A e \in 2..(m + 1) : e \in 1..(m + 1) /\ e # 1  BY <1>1
    <3> QED BY <1>1, <1>7, <2>3, <3>1, NilIsValue
  <2>5. /\ KidsKept(s, b, c, AtRow(b, row)) /\ c.kids[1].data[row] = k - 1
        /\ d.ok <=> \A j \in 1..(m - 1) : Takes(t.kids[ws[j].kid], ws[j].val)
        /\ d.ok => \A j \in 1..(m - 1) : Wrote(b.kids[ws[j].kid], c.kids[ws[j].kid], row, ws[j].val)
        /\ \A e \in DOMAIN b.kids : e # 1 /\ (\A j \in 1..(m - 1) : ws[j].kid # e) => Keeps(b.kids[e], c.kids[e], row)
    <3>1. /\ Formed(s, b) /\ Fresh(b) /\ b.type.kind = "union" /\ KidsSetRight(s, b.type) /\ row \in DOMAIN b.data
      BY <1>7
    <3>2. ASSUME NEW x, NEW n, n = m - 1 PROVE LET e == WriteKids(SetTag(b, row, x), ws)  y == e.vec IN
            /\ KidsKept(s, b, y, AtRow(b, row)) /\ y.kids[1].data[row] = x - 1
            /\ e.ok <=> \A j \in 1..n : Takes(b.type.kids[ws[j].kid], ws[j].val)
            /\ e.ok => \A j \in 1..n : Wrote(b.kids[ws[j].kid], y.kids[ws[j].kid], row, ws[j].val)
            /\ \A e0 \in DOMAIN b.kids : e0 # 1 /\ (\A j \in 1..n : ws[j].kid # e0) => Keeps(b.kids[e0], y.kids[e0], row)
      <4>1. /\ n \in Nat /\ ws = [j \in 1..n |-> ws[j]]
            /\ \A j \in 1..n : /\ ws[j] = At(ws[j].kid, row, ws[j].val)
                               /\ ws[j].kid \in DOMAIN b.kids /\ ws[j].kid # 1 /\ ws[j].val \in AllValues(s)
            /\ \A i, j \in 1..n : i # j => ws[i].kid # ws[j].kid
        BY <2>3, <2>4, <3>2
      <4> HIDE DEF b
      <4> QED BY <3>1, <4>1, TagAndWrites
    <3> QED BY <1>7, <3>2
  <2> HIDE DEF d
  <2>6. d.ok
    <3>1. \A j \in 1..(m - 1) : t.kids[ws[j].kid] \in AllTypes(s)  BY <1>7, <2>4, UnionFacts
    <3> QED BY <2>3, <2>5, <3>1, TakesNil
  <2>7. KidsKept(s, a, c, AtRow(a, row))
    <3>1. KidsKept(s, b, c, AtRow(a, row))  BY <1>7, <2>5 DEF AtRow
    <3>2. KidsKept(s, a, c, AtRow(a, row) \cup AtRow(a, row))  BY <1>6, <3>1, KidsKeptTrans
    <3> QED BY <3>2, KidsKeptMore
  <2>8. /\ Formed(s, c) /\ Fresh(c) /\ c.type = t /\ c.null = a.null /\ Rows(c) = Rows(a)
        /\ \A r \in DOMAIN a.data : r # row => Keeps(a, c, r)
    <3>1. Formed(s, c) /\ Fresh(c) /\ c.type = t /\ c.null = a.null /\ Rows(c) = Rows(a)
      BY <2>7 DEF KidsKept, Alike, Rows
    <3>2. \A r \in DOMAIN a.data : r # row => Keeps(a, c, r)  BY <2>7, UnionRowKept
    <3> QED BY <3>1, <3>2
  <2>9. Takes(t, v)  BY <1>3, <2>2
  <2>10. Wrote(a.kids[k + 1], c.kids[k + 1], row, v)
    <3>1. k + 1 \in DOMAIN b.kids /\ k + 1 # 1  BY <1>1, <1>7, <2>2
    <3>2. Keeps(b.kids[k + 1], c.kids[k + 1], row)  BY <2>3, <2>5, <3>1
    <3> QED BY <2>2, <3>2, WroteKept
  <2>11. \A j \in 1..m : j # k => row \in c.kids[j + 1].null
    <3>1. ASSUME NEW j \in 1..m, j # k PROVE row \in c.kids[j + 1].null
      <4>1. PICK i \in 1..(m - 1) : ws[i].kid = j + 1  BY <2>3, <3>1
      <4>2. Wrote(b.kids[j + 1], c.kids[j + 1], row, Nil)  BY <2>3, <2>5, <2>6, <4>1
      <4> QED BY <4>2 DEF Wrote
    <3> QED BY <3>1
  <2>12. Meaning(t, v) = Union(k, Meaning(t.kids[k + 1], v))
    <3>1. Meaning(t, v) = MeaningDef(t, v)  BY <1>2, <2>9, TypeEq
    <3>2. Min({j \in 1..m : Takes(t.kids[j + 1], v)}) = k  BY <1>1, <2>2, LeastMember
    <3>3. MeaningDef(t, v) = LET i == Min({j \in 1..m : Takes(t.kids[j + 1], v)})
                             IN Union(i, Meaning(t.kids[i + 1], v))
      BY DEF MeaningDef, Leaves, m
    <3> QED BY <3>1, <3>2, <3>3
  <2>13. Wrote(a, c, row, v)
    BY <2>2, <2>5, <2>8, <2>10, <2>11, <2>12, UnionWritten DEF m
  <2>14. Outcome(s, a, row, v, d)  BY <2>6, <2>8, <2>9, <2>13 DEF Outcome
  <2> QED BY <2>1, <2>14
<1> QED BY <1>8, <1>9

-----------------------------------------------------------------------------
\* setFn writes what it should, to every type.
LEMMA SetIsRight ==
  ASSUME Recursion, NEW s \in Chunks
  PROVE  \A t \in AllTypes(s) : SetsRight(s, t)
<1> DEFINE G == {t \in AllTypes(s) : SetsRight(s, t)}
<1>1. ASSUME NEW t \in AllTypes(s), \A i \in DOMAIN t.kids : t.kids[i] \in G
      PROVE  t \in G
  <2>1. KidsSetRight(s, t)  BY <1>1 DEF KidsSetRight
  <2>2. ASSUME NEW a, Formed(s, a), Fresh(a), a.type = t, NEW row \in DOMAIN a.data, NEW v \in AllValues(s)
        PROVE  Outcome(s, a, row, v, Set(a, row, v))
    <3>1. KidsSetRight(s, a.type)  BY <2>1, <2>2
    <3>2. CASE v.go = "nil"
      <4>1. v = Nil  BY <3>2, ValueFacts
      <4> QED BY <2>2, <4>1, SetNil
    <3>3. CASE v.go # "nil"
      <4>1. a.type.kind \in Leaves \cup {"enum", "list", "array", "struct", "map", "union"}
        BY <2>2, FormedFacts DEF IsType, Nested
      <4>2. CASE a.type.kind \in Leaves  BY <2>2, <3>3, <4>2, SetLeaf
      <4>3. CASE a.type.kind = "enum"  BY <2>2, <3>3, <4>3, SetEnumValue
      <4>4. CASE a.type.kind = "list"  BY <2>2, <3>1, <3>3, <4>4, SetListValue
      <4>5. CASE a.type.kind = "array"  BY <2>2, <3>1, <3>3, <4>5, SetArrayValue
      <4>6. CASE a.type.kind = "map"  BY <2>2, <3>1, <3>3, <4>6, SetMapValue
      <4>7. CASE a.type.kind = "struct"
        <5>1. CASE v.go = "map[string]any"
          <6>1. Set(a, row, v) = SetStruct(a, row, v.fields)  BY <2>2, <3>3, <4>7, <5>1, Dispatch
          <6>2. Outcome(s, a, row, v, SetStruct(a, row, v.fields))  BY <2>2, <3>1, <4>7, <5>1, SetStructValue
          <6> QED BY <6>1, <6>2
        <5>2. CASE v.go # "map[string]any"
          <6>1. Set(a, row, v) = Done(FALSE, a)  BY <2>2, <3>3, <4>7, <5>2, Dispatch
          <6>2. ~ Takes(a.type, v)  BY <2>2, <3>3, <4>7, <5>2, TypeEq DEF TakesDef, Leaves
          <6>3. Outcome(s, a, row, v, Done(FALSE, a))  BY <2>2, <6>2, Untouched
          <6> QED BY <6>1, <6>3
        <5> QED BY <5>1, <5>2
      <4>8. CASE a.type.kind = "union"
        <5>1. CASE v.go = "Union"
          <6>1. Set(a, row, v) = SetTagged(a, row, v)  BY <2>2, <3>3, <4>8, <5>1, Dispatch
          <6>2. Outcome(s, a, row, v, SetTagged(a, row, v))  BY <2>2, <3>1, <4>8, <5>1, SetTaggedValue
          <6> QED BY <6>1, <6>2
        <5>2. CASE v.go # "Union"
          <6>1. Set(a, row, v) = SetMatching(a, row, v)  BY <2>2, <3>3, <4>8, <5>2, Dispatch
          <6>2. Outcome(s, a, row, v, SetMatching(a, row, v))  BY <2>2, <3>1, <3>3, <4>8, <5>2, SetMatchingValue
          <6> QED BY <6>1, <6>2
        <5> QED BY <5>1, <5>2
      <4> QED BY <4>1, <4>2, <4>3, <4>4, <4>5, <4>6, <4>7, <4>8
    <3> QED BY <3>2, <3>3
  <2> QED BY <2>2 DEF SetsRight
<1>2. \A t \in AllTypes(s) : t \in G
  <2> HIDE DEF G
  <2> QED BY <1>1, TypeInduction
<1> QED BY <1>2

\* DataChunk.reset gives new vectors, all of them looked up again.
LEMMA ResetVectorIsRight ==
  ASSUME Recursion, NEW s \in Chunks, NEW a, Formed(s, a), Rows(a) = Capacity
  PROVE  AsNew(s, ResetVector(a), a.type, Capacity) /\ Fresh(ResetVector(a))
<1> DEFINE z == Shrink(a, Capacity)
           y == [z EXCEPT !.fresh = TRUE]
           b == ResetChildData(y)
<1>1. ResetVector(a) = b  BY DEF ResetVector, InitVectors
<1>2. AsNew(s, z, a.type, Capacity)  BY CapacityAssumption, ShrinkAsNew
<1> HIDE DEF z
<1>3. Formed(s, y) /\ Alike(z, y) /\ KeepsAll(z, y) /\ y.fresh  BY <1>2, LookedUp DEF AsNew
<1> HIDE DEF y
<1>4. ResetRight(s, y, b)  BY <1>3, ResetChildDataIsRight
<1> HIDE DEF b
<1>5. Formed(s, b) /\ Alike(y, b) /\ KeepsAll(y, b) /\ b.fresh /\ \A i \in DOMAIN b.kids : Fresh(b.kids[i])
  BY <1>3, <1>4 DEF ResetRight
<1>6. Fresh(b)  BY <1>5, FreshEq
<1>7. b.type = a.type /\ Rows(b) = Capacity /\ b.data = z.data /\ y.data = z.data
  BY <1>2, <1>3, <1>5 DEF Alike, AsNew, Rows
<1>8. \A r \in 0..(Capacity - 1) : Clean(b, r)
  <2>1. DOMAIN z.data = 0..(Capacity - 1)  BY <1>2, FormedFacts DEF AsNew
  <2> QED BY <1>2, <1>3, <1>5, <1>7, <2>1 DEF AsNew, KeepsAll, Keeps
<1> QED BY <1>1, <1>5, <1>6, <1>7, <1>8 DEF AsNew

-----------------------------------------------------------------------------
\* A column and what a cell of it was told.
ColumnRight(i) ==
  /\ Formed(setup, columns[i]) /\ Fresh(columns[i])
  /\ columns[i].type = Types[i] /\ Rows(columns[i]) = Capacity

\* What a cell is, by what its last write should have made of it.
CellRight(col, r, t) ==
  /\ t = New => Clean(col, r)
  /\ t.is \in {"once", "again"} => Sound(col, r) /\ LostToNull(Get(col, r), t.reads)
  /\ t.is = "once" => Get(col, r) = t.reads

\* The inductive invariant.
IInv ==
  /\ setup \in Chunks
  /\ columns = [i \in DOMAIN Types |-> columns[i]]
  /\ \A i \in DOMAIN Types : ColumnRight(i)
  /\ told = [c \in Projected |-> [r \in Row |-> told[c][r]]]
  /\ \A c \in Projected : \A r \in Row : CellRight(columns[ChunkColumn(c)], r, told[c][r])

\* Columns are of types of the chunk, and no two that users see are the same.
LEMMA ColumnsOfChunk ==
  ASSUME setup \in Chunks
  PROVE  /\ \A i \in DOMAIN Types : Types[i] \in AllTypes(setup)
         /\ \A c \in Projected : ChunkColumn(c) \in DOMAIN Types
         /\ \A c, d \in Projected : ChunkColumn(c) = ChunkColumn(d) => c = d
         /\ setup.values \subseteq AllValues(setup)
<1>1. /\ Types \in Seq(AllTypes(setup)) /\ setup.values \subseteq AllValues(setup)
      /\ setup.projection \in Seq(0..Len(Types))
      /\ \A c, d \in DOMAIN setup.projection :
           setup.projection[c] = setup.projection[d] /\ c # d => setup.projection[c] = 0
  BY ChunksAssumption DEF Types
<1>2. \A i \in DOMAIN Types : Types[i] \in AllTypes(setup)  BY <1>1
<1>3. DOMAIN Types = 1..Len(Types) /\ Len(Types) \in Nat  BY <1>1
<1>4. \A c \in DOMAIN setup.projection : setup.projection[c] \in 0..Len(Types)  BY <1>1
<1>5. \A c \in Projected : ChunkColumn(c) \in DOMAIN Types
  BY <1>3, <1>4 DEF Projected, TableColumn, ChunkColumn
<1>6. \A c, d \in Projected : ChunkColumn(c) = ChunkColumn(d) => c = d
  BY <1>1 DEF Projected, TableColumn, ChunkColumn
<1> QED BY <1>1, <1>2, <1>5, <1>6

\* A new cell is right,
LEMMA NewCell ==
  ASSUME NEW col, NEW r, Clean(col, r)
  PROVE  CellRight(col, r, New)
BY DEF CellRight, New

\* and stays so when its row is kept.
LEMMA KeptCell ==
  ASSUME NEW a, NEW b, NEW r, NEW t, Keeps(a, b, r), CellRight(a, r, t)
  PROVE  CellRight(b, r, t)
BY DEF CellRight, Keeps

\* It holds of a new chunk,
LEMMA InitIsRight ==
  ASSUME Recursion, Init
  PROVE  IInv
<1>1. setup \in Chunks /\ columns = [i \in DOMAIN Types |-> NewVector(Types[i], Capacity)]
      /\ told = [c \in Projected |-> [r \in Row |-> New]]
  BY DEF Init
<1>2. \A i \in DOMAIN Types : AsNew(setup, columns[i], Types[i], Capacity) /\ Fresh(columns[i])
  <2>1. ASSUME NEW i \in DOMAIN Types
        PROVE  AsNew(setup, columns[i], Types[i], Capacity) /\ Fresh(columns[i])
    <3>1. columns[i] = NewVector(Types[i], Capacity)  BY <1>1
    <3>2. Types[i] \in AllTypes(setup)  BY <1>1, ColumnsOfChunk
    <3> QED BY <1>1, <3>1, <3>2, CapacityAssumption, NewVectorAsNew
  <2> QED BY <2>1
<1>3. \A i \in DOMAIN Types : ColumnRight(i)  BY <1>2 DEF ColumnRight, AsNew
<1>4. ASSUME NEW c \in Projected, NEW r \in Row
      PROVE  CellRight(columns[ChunkColumn(c)], r, told[c][r])
  <2>1. told[c][r] = New  BY <1>1
  <2>2. Clean(columns[ChunkColumn(c)], r)  BY <1>1, <1>2, ColumnsOfChunk DEF AsNew, Row
  <2> QED BY <2>1, <2>2, NewCell
<1>5. /\ columns = [i \in DOMAIN Types |-> columns[i]]
      /\ told = [c \in Projected |-> [r \in Row |-> told[c][r]]]
  BY <1>1
<1> QED BY <1>1, <1>3, <1>4, <1>5 DEF IInv

\* after a write to a projected column,
LEMMA WriteIsRight ==
  ASSUME Recursion, IInv, NEW c \in Projected, NEW r \in Row, NEW v \in setup.values,
         Write(c, r, v), UNCHANGED setup
  PROVE  IInv'
<1> DEFINE i == ChunkColumn(c)
           a == columns[i]
           o == Set(a, r, v)
           b == o.vec
           said == IF Takes(Types[i], v)
                     THEN Told(IF told[c][r] = New THEN "once" ELSE "again", Meaning(Types[i], v))
                     ELSE IF o.ok THEN Told("once", Torn) ELSE Torn
<1>1. /\ columns' = [columns EXCEPT ![i] = b]
      /\ told' = [told EXCEPT ![c][r] = said]
  BY DEF Write
<1>2. setup \in Chunks /\ Types' = Types /\ Projected' = Projected /\ \A d : ChunkColumn(d)' = ChunkColumn(d)
  BY DEF IInv, Types, Projected, TableColumn, ChunkColumn
<1>3. i \in DOMAIN Types /\ v \in AllValues(setup) /\ Types[i] \in AllTypes(setup)  BY <1>2, ColumnsOfChunk
<1>4. Formed(setup, a) /\ Fresh(a) /\ a.type = Types[i] /\ Rows(a) = Capacity  BY <1>3 DEF IInv, ColumnRight
<1>5. r \in DOMAIN a.data
  <2>1. DOMAIN a.data = 0..(Capacity - 1)  BY <1>2, <1>4, FormedFacts
  <2> QED BY <2>1 DEF Row
<1>6. Outcome(setup, a, r, v, o)
  <2>1. SetsRight(setup, a.type)  BY <1>2, <1>3, <1>4, SetIsRight
  <2> QED BY <1>3, <1>4, <1>5, <2>1 DEF SetsRight
<1>7. CellRight(a, r, told[c][r])  BY DEF IInv
<1> HIDE DEF o
<1>8. CellRight(b, r, said)
  <2>1. CASE Takes(Types[i], v)
    <3>1. Wrote(a, b, r, v)  BY <1>4, <1>6, <2>1 DEF Outcome
    <3>2. Sound(b, r) /\ LostToNull(Get(b, r), Meaning(Types[i], v))  BY <1>4, <3>1 DEF Wrote
    <3>3. CASE told[c][r] = New
      <4>1. said = Told("once", Meaning(Types[i], v))  BY <2>1, <3>3
      <4>2. said.is = "once" /\ said.reads = Meaning(Types[i], v) /\ said # New
        BY <4>1 DEF Told, New
      <4>3. Get(b, r) = Meaning(Types[i], v)  BY <1>4, <1>7, <3>1, <3>3 DEF CellRight, Wrote
      <4> HIDE DEF said
      <4> QED BY <3>2, <4>2, <4>3 DEF CellRight
    <3>4. CASE told[c][r] # New
      <4>1. said = Told("again", Meaning(Types[i], v))  BY <2>1, <3>4
      <4>2. said.is = "again" /\ said.reads = Meaning(Types[i], v) /\ said # New
        BY <4>1 DEF Told, New
      <4> HIDE DEF said
      <4> QED BY <3>2, <4>2 DEF CellRight
    <3> QED BY <3>3, <3>4
  <2>2. CASE ~ Takes(Types[i], v)
    <3>1. ~ o.ok  BY <1>4, <1>6, <2>2 DEF Outcome
    <3>2. said = Torn  BY <2>2, <3>1
    <3> HIDE DEF said
    <3> QED BY <3>2 DEF CellRight, Torn, New
  <2> QED BY <2>1, <2>2
<1> HIDE DEF said
<1>9. /\ columns' = [j \in DOMAIN Types |-> columns'[j]]
      /\ columns'[i] = b /\ \A j \in DOMAIN Types : j # i => columns'[j] = columns[j]
  <2>1. columns = [j \in DOMAIN Types |-> columns[j]]  BY DEF IInv
  <2> HIDE DEF i, b
  <2> QED BY <1>1, <1>3, <2>1
<1>10. \A j \in DOMAIN Types : ColumnRight(j)'
  <2>1. ASSUME NEW j \in DOMAIN Types
        PROVE  /\ Formed(setup, columns'[j]) /\ Fresh(columns'[j])
               /\ columns'[j].type = Types[j] /\ Rows(columns'[j]) = Capacity
    <3>1. CASE j = i  BY <1>4, <1>6, <1>9, <3>1 DEF Outcome
    <3>2. CASE j # i  BY <1>9, <3>2 DEF IInv, ColumnRight
    <3> QED BY <3>1, <3>2
  <2>2. setup' = setup  OBVIOUS
  <2> QED BY <1>2, <2>1, <2>2 DEF ColumnRight, Formed, LocallyFormed, Fresh, Rows
<1>11. /\ told' = [d \in Projected |-> [q \in Row |-> told'[d][q]]]
       /\ told'[c][r] = said
       /\ \A d \in Projected : \A q \in Row : (d # c \/ q # r) => told'[d][q] = told[d][q]
  <2>1. told = [d \in Projected |-> [q \in Row |-> told[d][q]]]  BY DEF IInv
  <2> QED BY <1>1, <2>1
<1>12. ASSUME NEW d \in Projected, NEW q \in Row
       PROVE  CellRight(columns'[ChunkColumn(d)], q, told'[d][q])
  <2>1. ChunkColumn(d) \in DOMAIN Types /\ (d # c => ChunkColumn(d) # i)  BY <1>2, ColumnsOfChunk
  <2>2. CellRight(columns[ChunkColumn(d)], q, told[d][q])  BY DEF IInv
  <2>3. CASE d = c /\ q = r  BY <1>8, <1>9, <1>11, <2>3
  <2>4. CASE d = c /\ q # r
    <3>1. q \in DOMAIN a.data
      <4>1. DOMAIN a.data = 0..(Capacity - 1)  BY <1>2, <1>4, FormedFacts
      <4> QED BY <4>1 DEF Row
    <3>2. Keeps(a, b, q)  BY <1>6, <2>4, <3>1 DEF Outcome
    <3>3. CellRight(b, q, told[d][q])  BY <2>2, <2>4, <3>2, KeptCell
    <3> QED BY <1>9, <1>11, <2>4, <3>3
  <2>5. CASE d # c  BY <1>9, <1>11, <2>1, <2>2, <2>5
  <2> QED BY <2>3, <2>4, <2>5
<1> QED
  <2>1. setup' \in Chunks /\ Row' = Row  BY <1>2 DEF Row
  <2>2. \A d \in Projected : \A q \in Row : CellRight(columns[ChunkColumn(d)], q, told[d][q])'
    BY <1>2, <1>12 DEF CellRight, Sound, Here, Tag, Members, New
  <2> QED BY <1>2, <1>9, <1>10, <1>11, <2>1, <2>2 DEF IInv

-----------------------------------------------------------------------------
\* after a reset,
LEMMA ResetIsRight ==
  ASSUME Recursion, IInv, Reset
  PROVE  IInv'
<1>1. /\ setup' = setup /\ columns' = [i \in DOMAIN columns |-> ResetVector(columns[i])]
      /\ told' = [c \in Projected |-> [r \in Row |-> New]]
  BY DEF Reset
<1>2. setup \in Chunks /\ Types' = Types /\ Projected' = Projected /\ \A d : ChunkColumn(d)' = ChunkColumn(d)
  BY <1>1 DEF IInv, Types, Projected, TableColumn, ChunkColumn
<1>3. DOMAIN columns = DOMAIN Types  BY DEF IInv
<1>4. \A i \in DOMAIN Types : AsNew(setup, columns'[i], Types[i], Capacity) /\ Fresh(columns'[i])
  <2>1. ASSUME NEW i \in DOMAIN Types
        PROVE  AsNew(setup, columns'[i], Types[i], Capacity) /\ Fresh(columns'[i])
    <3>1. columns'[i] = ResetVector(columns[i])  BY <1>1, <1>3
    <3>2. Formed(setup, columns[i]) /\ columns[i].type = Types[i] /\ Rows(columns[i]) = Capacity
      BY DEF IInv, ColumnRight
    <3> QED BY <1>2, <3>1, <3>2, ResetVectorIsRight
  <2> QED BY <2>1
<1>5. \A i \in DOMAIN Types : ColumnRight(i)'
  <2>1. \A i \in DOMAIN Types : /\ Formed(setup, columns'[i]) /\ Fresh(columns'[i])
                                /\ columns'[i].type = Types[i] /\ Rows(columns'[i]) = Capacity
    BY <1>4 DEF AsNew
  <2>2. setup' = setup  BY <1>1
  <2> QED BY <1>2, <2>1, <2>2 DEF ColumnRight, Formed, LocallyFormed, Fresh, Rows
<1>6. ASSUME NEW c \in Projected, NEW r \in Row
      PROVE  CellRight(columns'[ChunkColumn(c)], r, told'[c][r])
  <2>1. told'[c][r] = New  BY <1>1
  <2>2. Clean(columns'[ChunkColumn(c)], r)  BY <1>2, <1>4, ColumnsOfChunk DEF AsNew, Row
  <2> QED BY <2>1, <2>2, NewCell
<1>7. /\ columns' = [i \in DOMAIN Types |-> columns'[i]]
      /\ told' = [c \in Projected |-> [r \in Row |-> told'[c][r]]]
  BY <1>1, <1>3
<1>8. setup' \in Chunks /\ Row' = Row  BY <1>1, <1>2 DEF Row
<1>9. \A d \in Projected : \A q \in Row : CellRight(columns[ChunkColumn(d)], q, told[d][q])'
  BY <1>2, <1>6 DEF CellRight, Sound, Here, Tag, Members, New
<1> QED BY <1>2, <1>5, <1>7, <1>8, <1>9 DEF IInv

\* when nothing is written,
LEMMA NothingIsRight ==
  ASSUME IInv, UNCHANGED <<setup, columns, told>>
  PROVE  IInv'
<1>1. Types' = Types /\ Projected' = Projected /\ (\A d : ChunkColumn(d)' = ChunkColumn(d)) /\ Row' = Row
  BY DEF Types, Projected, TableColumn, ChunkColumn, Row
<1>2. \A i \in DOMAIN Types : ColumnRight(i)'
  <2>1. \A i \in DOMAIN Types : /\ Formed(setup, columns'[i]) /\ Fresh(columns'[i])
                                /\ columns'[i].type = Types[i] /\ Rows(columns'[i]) = Capacity
    <3>1. \A i \in DOMAIN Types : /\ Formed(setup, columns[i]) /\ Fresh(columns[i])
                                  /\ columns[i].type = Types[i] /\ Rows(columns[i]) = Capacity
      BY DEF IInv, ColumnRight
    <3> QED BY <3>1
  <2>2. setup' = setup  OBVIOUS
  <2> QED BY <1>1, <2>1, <2>2 DEF ColumnRight, Formed, LocallyFormed, Fresh, Rows
<1>3. \A d \in Projected : \A q \in Row : CellRight(columns[ChunkColumn(d)], q, told[d][q])'
  <2>1. ASSUME NEW d \in Projected, NEW q \in Row PROVE CellRight(columns[ChunkColumn(d)], q, told[d][q])'
    <3>1. CellRight(columns[ChunkColumn(d)], q, told[d][q])  BY DEF IInv
    <3>2. columns'[ChunkColumn(d)] = columns[ChunkColumn(d)] /\ told' = told  OBVIOUS
    <3> QED BY <1>1, <3>1, <3>2 DEF CellRight, Sound, Here, Tag, Members, New
  <2> QED BY <2>1
<1>4. setup' \in Chunks /\ columns' = [i \in DOMAIN Types |-> columns'[i]]
      /\ told' = [c \in Projected |-> [r \in Row |-> told'[c][r]]]
  BY DEF IInv
<1> QED BY <1>1, <1>2, <1>3, <1>4 DEF IInv

\* and so after every step.
LEMMA StepIsRight ==
  ASSUME Recursion, IInv, [Next]_vars
  PROVE  IInv'
<1>1. ASSUME NEW c \in TableColumn, NEW r \in Row, NEW v \in setup.values, SetValue(c, r, v) PROVE IInv'
  <2>1. CASE c \in Projected
    <3>1. Write(c, r, v) /\ UNCHANGED setup  BY <1>1, <2>1 DEF SetValue
    <3> QED BY <2>1, <3>1, WriteIsRight
  <2>2. CASE c \notin Projected
    <3>1. UNCHANGED <<setup, columns, told>>  BY <1>1, <2>2 DEF SetValue
    <3> QED BY <3>1, NothingIsRight
  <2> QED BY <2>1, <2>2
<1>2. ASSUME NEW c \in TableColumn, NEW r \in Row, NEW v \in setup.values, SetChunkValue(c, r, v) PROVE IInv'
  <2>1. c \in Projected /\ UNCHANGED setup  BY <1>2 DEF SetChunkValue
  <2>2. CASE Types[ChunkColumn(c)].kind \in {"map", "array"}
    <3>1. UNCHANGED <<setup, columns, told>>  BY <1>2, <2>2 DEF SetChunkValue
    <3> QED BY <3>1, NothingIsRight
  <2>3. CASE Types[ChunkColumn(c)].kind \notin {"map", "array"}
    <3>1. Write(c, r, v)  BY <1>2, <2>3 DEF SetChunkValue
    <3> QED BY <2>1, <3>1, WriteIsRight
  <2> QED BY <2>2, <2>3
<1>3. CASE Reset  BY <1>3, ResetIsRight
<1>4. CASE UNCHANGED vars
  <2>1. UNCHANGED <<setup, columns, told>>  BY <1>4 DEF vars
  <2> QED BY <2>1, NothingIsRight
<1> QED BY <1>1, <1>2, <1>3, <1>4 DEF Next

\* Whatever is written, refused or reset, in any order: every column stays well
\* formed, and every cell reads what its last write should have made of it.
THEOREM ColumnsAreRight ==
  ASSUME Recursion PROVE Spec => []IInv
<1>1. Init => IInv  BY InitIsRight
<1>2. IInv /\ [Next]_vars => IInv'  BY StepIsRight
<1> QED BY <1>1, <1>2, PTL DEF Spec

\* data_chunk.go, vector_setters.go, vector_getters.go: a cell that was written
\* once since the chunk was new reads back as the value it was given.
THEOREM WrittenReadsBack ==
  ASSUME Recursion PROVE Spec => []WrittenOnceReadsBack
<1>1. IInv => WrittenOnceReadsBack
  <2>1. ASSUME IInv, NEW c \in Projected, NEW r \in Row, told[c][r].is = "once"
        PROVE  Get(columns[ChunkColumn(c)], r) = told[c][r].reads
    BY <2>1 DEF IInv, CellRight
  <2> QED BY <2>1 DEF WrittenOnceReadsBack, Is, Cells, Reads, Should, GetValue
<1> QED BY <1>1, ColumnsAreRight, PTL

\* data_chunk.go, vector_setters.go: a cell that is written over is never a mix of
\* two values; it may only have lost parts to an earlier NULL.
THEOREM RewritesOnlyLose ==
  ASSUME Recursion PROVE Spec => []RewriteOnlyLoses
<1>1. IInv => RewriteOnlyLoses
  <2>1. ASSUME IInv, NEW c \in Projected, NEW r \in Row, told[c][r].is = "again"
        PROVE  LostToNull(Get(columns[ChunkColumn(c)], r), told[c][r].reads)
    BY <2>1 DEF IInv, CellRight
  <2> QED BY <2>1 DEF RewriteOnlyLoses, Is, Cells, Reads, Should, GetValue
<1> QED BY <1>1, ColumnsAreRight, PTL

\* The parts of a row are vectors of the tree.
LEMMA PartsAreFormed ==
  ASSUME Recursion, NEW s \in Chunks
  PROVE  \A t \in AllTypes(s) : \A vec, row :
           Formed(s, vec) /\ vec.type = t /\ Sound(vec, row) => \A p \in Parts(vec, row) : Formed(s, p.vec)
<1> DEFINE G == {t \in AllTypes(s) : \A vec, row : Formed(s, vec) /\ vec.type = t /\ Sound(vec, row) =>
                                                      \A p \in Parts(vec, row) : Formed(s, p.vec)}
<1>1. ASSUME NEW t \in AllTypes(s), \A i \in DOMAIN t.kids : t.kids[i] \in G,
             NEW vec, NEW row, Formed(s, vec), vec.type = t, Sound(vec, row), NEW p \in Parts(vec, row)
      PROVE  Formed(s, p.vec)
  <2>1. Parts(vec, row) = IF row \in vec.null THEN {}
          ELSE {[vec |-> vec, row |-> row]} \cup UNION {Parts(b.kid, b.row) : b \in Below(vec, row)}
    BY DEF Recursion, OfParts, PartsDef
  <2>2. row \notin vec.null  BY <1>1, <2>1
  <2>3. Here(vec, row) /\ \A b \in Below(vec, row) : Sound(b.kid, b.row)  BY <1>1, <2>2, SoundEq
  <2>4. ASSUME NEW b \in Below(vec, row) PROVE \E i \in DOMAIN vec.kids : b.kid = vec.kids[i]
    <3>1. vec.type.kind \in {"union", "struct", "list", "map", "array"}  BY DEF Below
    <3>2. CASE vec.type.kind = "union"
      <4>1. Tag(vec, row) \in Members(vec)  BY <2>3, <3>2 DEF Here
      <4>2. Tag(vec, row) + 1 \in DOMAIN vec.kids  BY <1>1, <3>2, <4>1, UnionFacts
      <4>3. b.kid = vec.kids[Tag(vec, row) + 1]  BY <3>2 DEF Below
      <4> QED BY <4>2, <4>3
    <3>3. CASE vec.type.kind = "struct"  BY <3>3 DEF Below
    <3>4. CASE vec.type.kind \in {"list", "map", "array"}
      <4>1. 1 \in DOMAIN vec.kids  BY <1>1, <3>4, FormedFacts DEF IsType
      <4>2. b.kid = vec.kids[1]  BY <3>4 DEF Below
      <4> QED BY <4>1, <4>2
    <3> QED BY <3>1, <3>2, <3>3, <3>4
  <2>5. ASSUME NEW b \in Below(vec, row), p \in Parts(b.kid, b.row) PROVE Formed(s, p.vec)
    <3>1. PICK i \in DOMAIN vec.kids : b.kid = vec.kids[i]  BY <2>4
    <3>2. Formed(s, b.kid) /\ b.kid.type = t.kids[i] /\ i \in DOMAIN t.kids  BY <1>1, <3>1, FormedFacts, KidDomain
    <3>3. t.kids[i] \in G  BY <1>1, <3>2
    <3> QED BY <2>3, <2>5, <3>2, <3>3
  <2>6. p = [vec |-> vec, row |-> row] \/ \E b \in Below(vec, row) : p \in Parts(b.kid, b.row)  BY <2>1, <2>2
  <2> QED BY <1>1, <2>5, <2>6
<1>2. ASSUME NEW t \in AllTypes(s), \A i \in DOMAIN t.kids : t.kids[i] \in G PROVE t \in G  BY <1>1, <1>2
<1>3. \A t \in AllTypes(s) : t \in G
  <2> HIDE DEF G
  <2> QED BY <1>2, TypeInduction
<1> QED BY <1>3

\* The parts of a written cell are in order,
LEMMA WrittenIsSound ==
  ASSUME IInv, NEW cell \in Written
  PROVE  \A p \in PartsOf(cell) : Here(p.vec, p.row)
<1>1. ASSUME NEW c \in Projected, NEW r \in Row, told[c][r].is \in {"once", "again"}
      PROVE  Sound(columns[ChunkColumn(c)], r)
  BY <1>1 DEF IInv, CellRight
<1>2. PICK c \in Projected, r \in Row : cell = <<c, r>> /\ told[c][r].is \in {"once", "again"}
  BY DEF Written, Is, Cells
<1>3. Sound(columns[ChunkColumn(c)], r)  BY <1>1, <1>2
<1> QED BY <1>2, <1>3 DEF Sound, PartsOf

\* and are vectors with a size.
LEMMA WrittenIsFormed ==
  ASSUME Recursion, IInv, NEW cell \in Written
  PROVE  \A p \in PartsOf(cell) : p.vec.size \in Nat
<1>1. PICK c \in Projected, r \in Row : cell = <<c, r>> /\ told[c][r].is \in {"once", "again"}
  BY DEF Written, Is, Cells
<1> DEFINE a == columns[ChunkColumn(c)]
<1>2. setup \in Chunks /\ ChunkColumn(c) \in DOMAIN Types  BY ColumnsOfChunk DEF IInv
<1>3. Formed(setup, a) /\ Sound(a, r)  BY <1>1, <1>2 DEF IInv, ColumnRight, CellRight
<1>4. a.type \in AllTypes(setup)  BY <1>2, <1>3, KidDomain
<1>5. \A p \in Parts(a, r) : Formed(setup, p.vec)
  <2>1. \A v, row : Formed(setup, v) /\ v.type = a.type /\ Sound(v, row) => \A p \in Parts(v, row) : Formed(setup, p.vec)
    BY <1>2, <1>4, PartsAreFormed
  <2> HIDE DEF a
  <2> QED BY <1>3, <2>1
<1>6. \A p \in Parts(a, r) : p.vec.size \in Nat
  <2>1. ASSUME NEW w, Formed(setup, w) PROVE w.size \in Nat  BY <1>2, <2>1, FormedFacts DEF LocallyFormed
  <2> QED BY <1>5, <2>1
<1> QED BY <1>1, <1>6 DEF PartsOf

\* setList, resizeListVector: no list reaches past what its child holds, and no
\* child holds more than was reserved for it.
THEOREM ListsStayInBounds ==
  ASSUME Recursion PROVE Spec => []ListsInBounds
<1>1. ASSUME NEW vec, NEW row, Here(vec, row), vec.size \in Nat PROVE InBounds(vec, row)
  <2>1. SUFFICES ASSUME vec.type.kind \in {"list", "map"}, NEW i \in 1..Count(vec, row)
                 PROVE  First(vec, row) + i - 1 < vec.size
    BY DEF InBounds
  <2>2. PICK o, n \in Nat : vec.data[row] = <<o, n>> /\ o + n <= vec.size  BY <1>1, <2>1 DEF Here
  <2>3. First(vec, row) = o /\ Count(vec, row) = n  BY <2>1, <2>2 DEF First, Count
  <2>4. i \in 1..n  BY <2>3
  <2> QED BY <1>1, <2>2, <2>3, <2>4
<1>2. IInv => ListsInBounds
  <2>1. SUFFICES ASSUME IInv PROVE ListsInBounds  OBVIOUS
  <2>2. \A cell \in Written : \A p \in PartsOf(cell) : InBounds(p.vec, p.row)
    BY <1>1, <2>1, WrittenIsSound, WrittenIsFormed
  <2>3. ASSUME NEW c \in DOMAIN columns, NEW vec \in Tree(columns[c]), vec.type.kind \in {"list", "map"}
        PROVE  vec.size <= Rows(vec.kids[1])
    <3>1. DOMAIN columns = DOMAIN Types /\ setup \in Chunks  BY <2>1 DEF IInv
    <3>2. LocallyFormed(setup, vec)  BY <2>1, <3>1 DEF IInv, ColumnRight, Formed
    <3>3. vec.type \in AllTypes(setup) /\ DOMAIN vec.kids = DOMAIN vec.type.kids /\ vec.size \in Nat
      BY <3>2 DEF LocallyFormed
    <3>4. 1 \in DOMAIN vec.kids  BY <2>3, <3>1, <3>3, TypeFacts DEF IsType
    <3>5. Rows(vec.kids[1]) >= vec.size  BY <2>3, <3>2, <3>4 DEF LocallyFormed
    <3> QED BY <3>5
  <2> QED BY <2>2, <2>3 DEF ListsInBounds
<1> QED BY <1>2, ColumnsAreRight, PTL

\* setUnion: the members of a union that its tag does not name are NULL.
THEOREM UnionsHoldOneMember ==
  ASSUME Recursion PROVE Spec => []OneMember
<1>1. ASSUME NEW vec, NEW row, Here(vec, row) PROVE OnlyTagged(vec, row)
  BY <1>1 DEF Here, OnlyTagged
<1>2. IInv => OneMember  BY <1>1, WrittenIsSound DEF OneMember
<1> QED BY <1>2, ColumnsAreRight, PTL

\* resetChildData: no vector keeps an address that a list has outgrown.
THEOREM PointersStayFresh ==
  ASSUME Recursion PROVE Spec => []NoStalePointer
<1>1. IInv => NoStalePointer
  <2>1. SUFFICES ASSUME IInv PROVE NoStalePointer  OBVIOUS
  <2>2. DOMAIN columns = DOMAIN Types  BY <2>1 DEF IInv
  <2> QED BY <2>1, <2>2 DEF IInv, ColumnRight, Fresh, NoStalePointer
<1> QED BY <1>1, ColumnsAreRight, PTL
=============================================================================

--------------------------- MODULE FlowApiProofs ---------------------------
(***************************************************************************)
(* Proofs about FlowApi for every set of instances, every definition and   *)
(* option, and every duration of a tick: whoever calls what, a writer      *)
(* keeps its flow, the sizes of a flow fit together, and index and time    *)
(* agree at the rate of every flow.                                        *)
(***************************************************************************)
EXTENDS FlowApi, WellFoundedInduction, TLAPS

(* --- Arithmetic ---------------------------------------------------------- *)

(* The quotient of the integer division that every size is computed with.   *)
LEMMA DivBounds ==
  ASSUME NEW a \in Nat, NEW b \in Nat, b > 0
  PROVE  a \div b \in Nat /\ (a \div b) * b <= a /\ a < (a \div b) * b + b
BY SMT

(* Products keep an order.                                                  *)
LEMMA Monotone ==
  ASSUME NEW p \in Nat, NEW q \in Nat, NEW b \in Nat, p <= q
  PROVE  p * b \in Nat /\ q * b \in Nat /\ p * b <= q * b
BY SMT

(* The quotient is the largest factor.                                      *)
LEMMA AtMostQuotient ==
  ASSUME NEW a \in Nat, NEW b \in Nat, b > 0, NEW q \in Nat, q * b <= a
  PROVE  q <= a \div b
<1>1. a \div b \in Nat /\ a < (a \div b) * b + b
  BY DivBounds
<1>2. SUFFICES ASSUME a \div b + 1 <= q PROVE FALSE
  BY <1>1
<1>3. (a \div b + 1) * b <= q * b
  BY <1>1, <1>2, Monotone
<1>4. (a \div b + 1) * b = (a \div b) * b + b
  BY <1>1
<1> QED BY <1>1, <1>3, <1>4, Monotone

(* What lies between two multiples has the quotient of the lower one.       *)
LEMMA QuotientIs ==
  ASSUME NEW a \in Nat, NEW b \in Nat, b > 0, NEW q \in Nat,
         q * b <= a, a < q * b + b
  PROVE  a \div b = q
<1>1. a \div b \in Nat /\ (a \div b) * b <= a
  BY DivBounds
<1>2. q <= a \div b
  BY AtMostQuotient
<1>3. SUFFICES ASSUME q + 1 <= a \div b PROVE FALSE
  BY <1>1, <1>2
<1>4. (q + 1) * b <= (a \div b) * b
  BY <1>1, <1>3, Monotone
<1>5. (q + 1) * b = q * b + b
  OBVIOUS
<1> QED BY <1>1, <1>4, <1>5, Monotone

Less == {ss \in Nat \X Nat : ss[1] < ss[2]}

(* A set of natural numbers has a smallest element.                         *)
LEMMA SmallestElement ==
  ASSUME NEW T, T \subseteq Nat, T # {}
  PROVE  \E x \in T : \A y \in T : x <= y
<1>1. IsWellFoundedOn(Less, Nat)
  BY NatLessThanWellFounded, Zenon DEF OpToRel, Less
<1>2. PICK x \in T : \A y \in T : ~ (<<y, x>> \in Less)
  BY <1>1, WFMin
<1>3. \A y \in T : ~ (y < x)
  BY <1>2 DEF Less
<1> QED BY <1>3

(* std::gcd: there is a greatest common divisor, and it is 0 only for 0, 0. *)
LEMMA GcdType ==
  ASSUME NEW a \in Nat, NEW b \in Nat
  PROVE  gcd(a, b) \in Nat /\ (gcd(a, b) = 0 => b = 0)
<1>1. CASE a = 0 \/ b = 0
  BY <1>1 DEF gcd
<1>2. CASE a # 0 /\ b # 0
  <2> DEFINE T == {b - k : k \in CommonDivisors(a, b)}
  <2>1. T \subseteq Nat
    BY DEF CommonDivisors
  <2>2. 1 \in CommonDivisors(a, b)
    BY <1>2 DEF CommonDivisors
  <2>3. T # {}
    BY <2>2
  <2>4. PICK x \in T : \A y \in T : x <= y
    BY <2>1, <2>3, SmallestElement
  <2>5. PICK g \in CommonDivisors(a, b) : x = b - g
    BY <2>4
  <2>6. \A k \in CommonDivisors(a, b) : b - g <= b - k
    BY <2>4, <2>5
  <2>7. \A k \in CommonDivisors(a, b) : k <= g
    <3>1. CommonDivisors(a, b) \subseteq Nat
      BY DEF CommonDivisors
    <3> QED BY <2>6, <3>1
  <2>8. gcd(a, b) \in CommonDivisors(a, b)
    BY <1>2, <2>7, Zenon DEF gcd
  <2> QED BY <2>8 DEF CommonDivisors
<1> QED BY <1>1, <1>2

(* extractRational and the doubling for fields keep both parts natural.     *)
LEMMA RateType ==
  ASSUME NEW d, d.num \in Nat, d.den \in Nat
  PROVE  grainRate(d) \in [num : Nat, den : Nat]
<1> DEFINE g == gcd(d.num, d.den)
<1>1. g \in Nat
  BY GcdType
<1>2. extractRational(d) \in [num : Nat, den : Nat]
  <2>1. CASE g = 0
    BY <2>1 DEF extractRational
  <2>2. CASE g > 0
    <3>1. d.num \div g \in Nat /\ d.den \div g \in Nat
      BY <1>1, <2>2, DivBounds
    <3>2. extractRational(d) = [num |-> d.num \div g, den |-> d.den \div g]
      BY <1>1, <2>2 DEF extractRational
    <3> QED BY <3>1, <3>2
  <2> QED BY <1>1, <2>1, <2>2
<1> QED BY <1>2 DEF grainRate

(* --- Index and time ------------------------------------------------------ *)

(* A second is two halves of it.                                            *)
LEMMA SecondIsEven ==
  Second \in Nat /\ Second > 0 /\ Second \div 2 \in Nat /\ Second = 2 * (Second \div 2)
BY ApiAssumption

(* The index of the time of an index is that index, when the period is      *)
(* longer than a tick: both conversions round by less than half a period.   *)
LEMMA RoundTrip ==
  ASSUME NEW num \in Nat, NEW den \in Nat, num > 0, num < Second * den, NEW index \in Nat
  PROVE  LET rate == [num |-> num, den |-> den]
         IN  /\ mxlIndexToTimestamp(rate, index) \in Nat
             /\ timestampToIndex(rate, mxlIndexToTimestamp(rate, index)) = index
<1> DEFINE rate == [num |-> num, den |-> den]
           H == (Second \div 2) * den
           X == index * den * Second
           T == (X + num \div 2) \div num
<1>1. /\ Second \in Nat /\ Second > 0 /\ Second \div 2 \in Nat
      /\ Second = 2 * (Second \div 2)
  BY SecondIsEven
<1>2. den > 0
  BY <1>1
<1>3. H \in Nat /\ Second * den = 2 * H
  BY <1>1
<1>4. X \in Nat /\ X = index * (Second * den)
  BY <1>1
<1>5. num \div 2 \in Nat /\ num = 2 * (num \div 2) + (num % 2) /\ num % 2 \in {0, 1}
  OBVIOUS
<1>6. /\ T \in Nat
      /\ T * num <= X + num \div 2
      /\ X + num \div 2 < T * num + num
  <2>1. X + num \div 2 \in Nat
    BY <1>4, <1>5
  <2> QED BY <2>1, DivBounds
<1>7. T * num \in Nat
  BY <1>6
<1>8. T # 0 \/ index = 0
  <2>1. SUFFICES ASSUME index >= 1, T = 0 PROVE FALSE
    BY <1>6
  <2>2. 1 * (Second * den) <= index * (Second * den)
    BY <1>3, <2>1, Monotone
  <2>3. X + num \div 2 < num
    BY <1>6, <2>1
  <2> QED BY <1>3, <1>4, <1>5, <2>2, <2>3
<1>9. mxlIndexToTimestamp(rate, index) = T
  BY <1>2, <1>8 DEF mxlIndexToTimestamp, indexToTimestamp, isRate
<1>10. index * (2 * H) <= T * num + H /\ T * num + H < index * (2 * H) + 2 * H
  <2> HIDE DEF T, H, X
  <2>1. X = index * (2 * H) /\ num < 2 * H
    BY <1>3, <1>4
  <2>2. X <= T * num + H
    BY <1>3, <1>4, <1>5, <1>6, <1>7, <2>1
  <2>3. T * num + H < X + 2 * H
    BY <1>3, <1>4, <1>5, <1>6, <1>7, <2>1
  <2> QED BY <2>1, <2>2, <2>3
<1>11. (T * num + H) \div (2 * H) = index
  <2>1. T * num + H \in Nat /\ 2 * H \in Nat /\ 2 * H > 0
    BY <1>3, <1>7
  <2> HIDE DEF T, H
  <2> QED BY <1>10, <2>1, QuotientIs
<1>12. timestampToIndex(rate, T) = index
  BY <1>2, <1>3, <1>11 DEF timestampToIndex, isRate
<1> QED BY <1>6, <1>9, <1>12

(* A later time has the same or a later index.                              *)
LEMMA IndexGrows ==
  ASSUME NEW num \in Nat, NEW den \in Nat, num > 0, den > 0,
         NEW s \in Nat, NEW t \in Nat, s <= t
  PROVE  LET rate == [num |-> num, den |-> den]
         IN  timestampToIndex(rate, s) <= timestampToIndex(rate, t)
<1> DEFINE H == (Second \div 2) * den
           M == Second * den
<1>1. H \in Nat /\ M \in Nat /\ M > 0
  BY SecondIsEven
<1> HIDE DEF H, M
<1>2. s * num + H \in Nat /\ t * num + H \in Nat /\ s * num + H <= t * num + H
  BY <1>1, Monotone
<1> DEFINE Q == (s * num + H) \div M
<1>3. Q \in Nat /\ Q * M <= s * num + H
  BY <1>1, <1>2, DivBounds
<1>4. Q * M \in Nat
  BY <1>1, <1>3
<1>5. Q * M <= t * num + H
  BY <1>2, <1>3, <1>4
<1> HIDE DEF Q
<1>6. Q <= (t * num + H) \div M
  BY <1>1, <1>2, <1>3, <1>5, AtMostQuotient
<1> QED BY <1>6 DEF timestampToIndex, isRate, H, M, Q

(* Whoever sleeps until an index finds it, or a later one, to be current.   *)
LEMMA SleepReachesIndex ==
  ASSUME NEW num \in Nat, NEW den \in Nat, num > 0, num < Second * den,
         NEW index \in Nat, NEW now \in Nat, now > 0
  PROVE  LET rate == [num |-> num, den |-> den]
         IN  mxlGetCurrentIndex(rate, now + mxlGetNsUntilIndex(rate, index, now)) >= index
<1> DEFINE rate == [num |-> num, den |-> den]
           target == mxlIndexToTimestamp(rate, index)
<1>1. target \in Nat /\ timestampToIndex(rate, target) = index
  BY RoundTrip
<1>2. den > 0 /\ isRate(rate)
  BY SecondIsEven DEF isRate
<1> DEFINE wake == now + mxlGetNsUntilIndex(rate, index, now)
<1> HIDE DEF target
<1>3. wake \in Nat /\ wake # 0 /\ target <= wake
  BY <1>1, <1>2 DEF mxlGetNsUntilIndex, target
<1> HIDE DEF wake
<1>4. timestampToIndex(rate, target) <= timestampToIndex(rate, wake)
  BY <1>1, <1>2, <1>3, IndexGrows
<1>5. mxlGetCurrentIndex(rate, wake) = timestampToIndex(rate, wake)
  BY <1>2, <1>3 DEF mxlGetCurrentIndex
<1>6. timestampToIndex(rate, wake) \in Nat
  <2>1. wake * num + (Second \div 2) * den \in Nat /\ Second * den \in Nat /\ Second * den > 0
    BY <1>2, <1>3, SecondIsEven
  <2>2. timestampToIndex(rate, wake)
          = (wake * num + (Second \div 2) * den) \div (Second * den)
    BY <1>2 DEF timestampToIndex
  <2> QED BY <2>1, <2>2, DivBounds
<1> QED BY <1>1, <1>4, <1>5, <1>6 DEF wake

(* --- The geometry of a flow ---------------------------------------------- *)

(* What a configuration is made from.                                       *)
Configured(c) ==
  \E r \in Requests, duration \in Nat :
    isConfigured(r[1], r[2], duration) /\ c = configure(r[1], r[2], duration)

(* Rounding up to whole pages never shortens a buffer.                      *)
LEMMA RoundUpBounds ==
  ASSUME NEW n \in Nat, NEW unit \in Nat, unit > 0
  PROVE  roundUp(n, unit) \in Nat /\ n <= roundUp(n, unit)
<1>1. n + unit - 1 \in Nat
  OBVIOUS
<1> DEFINE q == (n + unit - 1) \div unit
<1>2. q \in Nat /\ n + unit - 1 < q * unit + unit
  BY <1>1, DivBounds
<1> HIDE DEF q
<1>3. q * unit \in Nat
  BY <1>2
<1> QED BY <1>2, <1>3 DEF roundUp, q

(* The slices of all planes make up the grain.                              *)
LEMMA SlicesMakeTheGrain ==
  ASSUME NEW d, d.width \in Nat, d.height \in Nat, isDiscrete(d.format)
  PROVE  getPayloadSize(d) = getTotalPayloadSlices(d)
           * (getPayloadSliceLengths(d)[1] + getPayloadSliceLengths(d)[2])
<1>1. CASE d.format = "data"
  <2>1. /\ getPayloadSize(d) = GrainSize /\ getTotalPayloadSlices(d) = GrainSize
        /\ getPayloadSliceLengths(d) = <<1, 0>>
    BY <1>1 DEF getPayloadSize, getTotalPayloadSlices, getPayloadSliceLengths
  <2> QED BY <2>1, ApiAssumption
<1>2. CASE d.format = "video"
  <2> DEFINE fill == getV210LineLength(d.width)
             key == IF d.media = "video/v210a" THEN get10BitAlphaLineLength(d.width) ELSE 0
  <2>1. getPayloadSize(d) = lines(d) * (fill + key)
    BY <1>2 DEF getPayloadSize, lines
  <2>2. getTotalPayloadSlices(d) = lines(d)
    BY <1>2 DEF getTotalPayloadSlices
  <2>3. getPayloadSliceLengths(d) = <<fill, key>>
    BY <1>2 DEF getPayloadSliceLengths
  <2> HIDE DEF fill, key
  <2> QED BY <2>1, <2>2, <2>3
<1> QED BY <1>1, <1>2 DEF isDiscrete

(* Half of a ring holds the history, and the default commit of a writer.    *)
LEMMA HalfHoldsTheHistory ==
  ASSUME NEW num \in Nat, NEW den \in Nat, den > 0, NEW duration \in Nat,
         NEW unit \in Nat, unit > 0,
         NEW length, length = roundUp(bufferLength([num |-> num, den |-> den], duration), unit)
  PROVE  /\ length \in Nat
         /\ (length + 1) * Second * den > 2 * duration * num
         /\ 100 * duration >= Second => num \div (100 * den) <= length \div 2
<1> DEFINE H == (Second \div 2) * den
           P == duration * num
           n == P \div H
<1>1. /\ Second \in Nat /\ Second > 0 /\ Second \div 2 \in Nat
      /\ Second = 2 * (Second \div 2)
  BY SecondIsEven
<1>2. H \in Nat /\ H > 0 /\ P \in Nat /\ Second * den = 2 * H
  BY <1>1
<1> HIDE DEF H, P
<1>3. n \in Nat /\ P < n * H + H
  BY <1>2, DivBounds
<1>4. n = bufferLength([num |-> num, den |-> den], duration)
  BY DEF bufferLength, H, P
<1> HIDE DEF n
<1>5. length \in Nat /\ n <= length
  BY <1>3, <1>4, RoundUpBounds
<1>6. (length + 1) * Second * den > 2 * duration * num
  <2>1. n * H \in Nat /\ length * H \in Nat /\ n * H <= length * H
    BY <1>2, <1>3, <1>5, Monotone
  <2>2. (length + 1) * Second * den = 2 * (length * H) + 2 * H
    <3>1. (length + 1) * Second * den = (length + 1) * (Second * den)
      BY <1>1, <1>5
    <3>2. (length + 1) * (2 * H) = 2 * (length * H) + 2 * H
      BY <1>2, <1>5
    <3> QED BY <1>2, <3>1, <3>2
  <2>3. 2 * duration * num = 2 * P
    BY DEF P
  <2> QED BY <1>2, <1>3, <2>1, <2>2, <2>3
<1>7. ASSUME 100 * duration >= Second
      PROVE  num \div (100 * den) <= length \div 2
  <2> DEFINE k == num \div (100 * den)
  <2>1. 100 * den \in Nat /\ 100 * den > 0
    OBVIOUS
  <2>2. k \in Nat /\ k * (100 * den) <= num
    BY <2>1, DivBounds
  <2> HIDE DEF k
  <2>3. (k * den) * Second <= (k * den) * (100 * duration)
    <3>1. k * den \in Nat /\ 100 * duration \in Nat
      BY <2>2
    <3>2. Second * (k * den) <= (100 * duration) * (k * den)
      BY <1>1, <1>7, <3>1, Monotone
    <3> QED BY <1>1, <3>1, <3>2
  <2>4. (k * (100 * den)) * duration <= num * duration
    <3>1. k * (100 * den) \in Nat
      BY <2>2
    <3> QED BY <2>2, <3>1, Monotone
  <2>5. (k * den) * (100 * duration) = (k * (100 * den)) * duration
    BY <2>2
  <2>6. (k * den) * Second = (2 * k) * H
    <3>1. (k * den) * Second = k * (Second * den)
      BY <1>1, <2>2
    <3> QED BY <1>2, <2>2, <3>1
  <2>7. num * duration = P
    BY DEF P
  <2>8. (2 * k) * H \in Nat /\ (k * (100 * den)) * duration \in Nat
    BY <1>2, <2>2
  <2>9. (2 * k) * H <= P
    BY <1>2, <2>3, <2>4, <2>5, <2>6, <2>7, <2>8
  <2>10. 2 * k <= n
    BY <1>2, <2>2, <2>9, AtMostQuotient DEF n
  <2>11. k <= length \div 2
    BY <1>3, <1>5, <2>2, <2>10
  <2> QED BY <2>11 DEF k
<1> QED BY <1>5, <1>6, <1>7

(* Who attaches divides the mapped bytes by the samples of all channels.    *)
LEMMA WordSizeIsFound ==
  ASSUME NEW channels \in Nat, channels > 0, NEW length \in Nat, length > 0, NEW word \in Nat
  PROVE  (channels * length * word) \div (channels * length) = word
<1>1. channels * length \in Nat /\ channels * length > 0
  OBVIOUS
<1> DEFINE b == channels * length
<1>2. channels * length * word = word * b
  OBVIOUS
<1> HIDE DEF b
<1>3. b \in Nat /\ b > 0
  BY <1>1 DEF b
<1>4. word * b \in Nat
  BY <1>3
<1>5. (word * b) \div b = word
  BY <1>3, <1>4, QuotientIs
<1> QED BY <1>2, <1>5 DEF b

(* What GeometryFits says of a configuration alone.                         *)
Fits(c) ==
  /\ c.kind \in {"discrete", "continuous"}
  /\ c.rate \in [num : Nat, den : Nat]
  /\ c.kind = "discrete" => c.grainSize = c.slices * (c.sliceSizes[1] + c.sliceSizes[2])
  /\ c.kind = "continuous" =>
       /\ (c.length + 1) * Second * c.rate.den > 2 * c.history * c.rate.num
       /\ c.defaults /\ 100 * c.history >= Second => c.commit <= c.length \div 2
       /\ mappedWordSize(c) = c.grainSize
  /\ mappedWordSize(c) \in Nat

(* Every configuration that a flow can be created with fits.                *)
LEMMA ConfiguredFits ==
  ASSUME NEW c, Configured(c)
  PROVE  Fits(c)
<1>1. PICK r \in Requests, duration \in Nat :
        isConfigured(r[1], r[2], duration) /\ c = configure(r[1], r[2], duration)
  BY DEF Configured
<1> DEFINE d == r[1]
           o == r[2]
           rate == grainRate(d)
<1>2. d \in DefinitionRecords /\ o \in OptionRecords
  BY ApiAssumption
<1>3. /\ d.num \in Nat /\ d.den \in Nat /\ d.width \in Nat /\ d.height \in Nat
      /\ d.depth \in Nat /\ d.channels \in Nat \cup {Absent}
  BY <1>2 DEF DefinitionRecords
<1>4. rate \in [num : Nat, den : Nat]
  BY <1>3, RateType
<1>5. rate.den # 0 /\ payloadIsSupported(d) /\ geometryIsValid(c) /\ parses(d)
  BY <1>1 DEF isConfigured
<1>6. CASE isDiscrete(d.format)
  <2>1. c = discreteConfig(d, o, duration)
    BY <1>1, <1>6 DEF configure
  <2>2. /\ c.kind = "discrete" /\ c.rate = rate
        /\ c.grainSize = getPayloadSize(d) /\ c.slices = getTotalPayloadSlices(d)
        /\ c.sliceSizes = getPayloadSliceLengths(d)
    BY <2>1 DEF discreteConfig
  <2>3. c.grainSize = c.slices * (c.sliceSizes[1] + c.sliceSizes[2])
    BY <1>3, <1>6, <2>2, SlicesMakeTheGrain
  <2>4. mappedWordSize(c) = 0
    BY <2>2 DEF mappedWordSize
  <2> QED BY <1>4, <2>2, <2>3, <2>4 DEF Fits
<1>7. CASE ~isDiscrete(d.format)
  <2>1. c = continuousConfig(d, o, duration)
    BY <1>1, <1>7 DEF configure
  <2>2. d.format = "audio"
    BY <1>5, <1>7 DEF parses, isDiscrete
  <2> DEFINE word == d.depth \div 8
  <2>3. d.depth \in {32, 64} /\ d.channels # 0 /\ getPayloadSize(d) = word
    BY <1>5, <2>2 DEF payloadIsSupported, getPayloadSize
  <2>4. word \in {4, 8}
    BY <2>3
  <2> HIDE DEF word
  <2>5. PageSize \div word \in Nat /\ PageSize \div word > 0
    BY <2>4, ApiAssumption
  <2> DEFINE length == roundUp(bufferLength(rate, duration), PageSize \div word)
  <2>6. /\ c.kind = "continuous" /\ c.rate = rate /\ c.length = length
        /\ c.grainSize = word /\ c.channels = getChannelCount(d)
        /\ c.bytes = getChannelCount(d) * length * word
        /\ c.history = duration /\ c.defaults = (o.commit = Absent)
        /\ c.commit = valueOr(o.commit, rate.num \div (100 * rate.den))
    BY <2>1, <2>3 DEF continuousConfig
  <2> HIDE DEF length
  <2>7. /\ length \in Nat
        /\ (length + 1) * Second * rate.den > 2 * duration * rate.num
        /\ 100 * duration >= Second => rate.num \div (100 * rate.den) <= length \div 2
    <3>1. rate = [num |-> rate.num, den |-> rate.den] /\ rate.num \in Nat /\ rate.den \in Nat
      BY <1>4
    <3>2. rate.den > 0
      BY <1>5, <3>1
    <3>3. length = roundUp(bufferLength([num |-> rate.num, den |-> rate.den], duration),
                           PageSize \div word)
      BY <3>1 DEF length
    <3> HIDE DEF rate
    <3> QED BY <2>5, <3>1, <3>2, <3>3, HalfHoldsTheHistory
  <2>8. getChannelCount(d) \in Nat /\ getChannelCount(d) > 0
    BY <1>3, <2>3 DEF getChannelCount, Absent
  <2>9. length > 0
    BY <1>5, <2>6, <2>7 DEF geometryIsValid
  <2>10. mappedWordSize(c) = word
    <3>1. mappedWordSize(c)
            = (getChannelCount(d) * length * word) \div (getChannelCount(d) * length)
      BY <2>6 DEF mappedWordSize
    <3> QED BY <2>4, <2>7, <2>8, <2>9, <3>1, WordSizeIsFound
  <2>11. c.defaults => c.commit = rate.num \div (100 * rate.den)
    BY <2>6 DEF valueOr
  <2> HIDE DEF rate
  <2> QED BY <1>4, <2>4, <2>6, <2>7, <2>10, <2>11 DEF Fits
<1> QED BY <1>6, <1>7

(* --- The invariant ------------------------------------------------------- *)

Handles == [gen : Gens \cup {None}, refs : Nat, word : Nat, current : Nat \cup {Absent}]

Types ==
  /\ history \in [Instances -> Nat \cup {Absent}]
  /\ created \in 0 .. MaxGen
  /\ path \in 0 .. created
  /\ config = [g \in Gens |-> config[g]]
  /\ writers \in [Instances -> Handles]
  /\ readers \in [Instances -> Handles]

(* A handle that counts is of a generation that exists, with its word size. *)
Attached(h) ==
  h.refs > 0 => h.gen \in 1 .. created /\ h.word = mappedWordSize(config[h.gen])

ApiInv ==
  /\ Types
  /\ \A g \in 1 .. created : Configured(config[g])
  /\ \A i \in Instances : Attached(writers[i]) /\ Attached(readers[i])
  /\ WriterKeepsItsFlow

(* Before any call there is no instance, no handle and no flow.             *)
LEMMA InitApiInv == Init => ApiInv
<1> SUFFICES ASSUME Init PROVE ApiInv
  OBVIOUS
<1>1. Types
  BY ApiAssumption DEF Init, Types, Handles, Detached, Gens, None, Absent
<1>2. \A i \in Instances : writers[i].refs = 0 /\ readers[i].refs = 0
  BY DEF Init, Detached
<1>3. created = 0
  BY DEF Init
<1> QED BY <1>1, <1>2, <1>3 DEF ApiInv, Attached, WriterKeepsItsFlow

(* Steps that leave the flow and the references alone: answers, and the     *)
(* calls on data.                                                           *)
LEMMA DataStep ==
  ASSUME ApiInv, UNCHANGED <<history, path, created, config, readers>>,
         writers' \in [Instances -> Handles],
         \A i \in Instances : /\ writers'[i].gen = writers[i].gen
                               /\ writers'[i].refs = writers[i].refs
                               /\ writers'[i].word = writers[i].word
  PROVE  ApiInv'
<1>1. Types'
  BY DEF ApiInv, Types
<1>2. \A g \in 1 .. created' : Configured(config'[g])
  BY DEF ApiInv
<1>3. \A i \in Instances : Attached(writers[i])' /\ Attached(readers[i])'
  BY DEF ApiInv, Attached
<1>4. WriterKeepsItsFlow'
  BY DEF ApiInv, WriterKeepsItsFlow, Alive
<1> QED BY <1>1, <1>2, <1>3, <1>4 DEF ApiInv

(* A call that only answers keeps the invariant.                            *)
LEMMA AnswerStep ==
  ASSUME ApiInv, NEW status, Answer(status)
  PROVE  ApiInv'
<1>1. writers' = writers /\ writers \in [Instances -> Handles]
  BY DEF Answer, ApiInv, Types
<1> QED BY <1>1, DataStep DEF Answer, flowVars

(* Opening, committing and cancelling move only the open index of a writer. *)
LEMMA CurrentStep ==
  ASSUME ApiInv, UNCHANGED <<history, path, created, config, readers>>,
         NEW i \in Instances, NEW index \in Nat \cup {Absent},
         writers' = [writers EXCEPT ![i].current = index]
  PROVE  ApiInv'
<1>1. writers \in [Instances -> Handles]
  BY DEF ApiInv, Types
<1>2. writers' \in [Instances -> Handles]
  BY <1>1 DEF Handles
<1>3. \A j \in Instances : /\ writers'[j].gen = writers[j].gen
                           /\ writers'[j].refs = writers[j].refs
                           /\ writers'[j].word = writers[j].word
  BY <1>1 DEF Handles
<1> QED BY <1>2, <1>3, DataStep

(* A process that ends leaves no handle behind.                             *)
LEMMA DieStep ==
  ASSUME ApiInv, NEW i \in Instances, Die(i)
  PROVE  ApiInv'
<1>1. /\ writers' = [writers EXCEPT ![i] = Detached]
      /\ readers' = [readers EXCEPT ![i] = Detached]
      /\ history' = [history EXCEPT ![i] = Absent]
      /\ UNCHANGED <<path, created, config>>
  BY DEF Die, Forget, flowVars
<1>2. Types /\ Detached \in Handles
  BY DEF ApiInv, Types, Handles, Detached, Absent, None
<1>3. Types'
  BY <1>1, <1>2 DEF Types
<1>4. \A g \in 1 .. created' : Configured(config'[g])
  BY <1>1 DEF ApiInv
<1>5. \A j \in Instances : /\ writers'[j] = IF j = i THEN Detached ELSE writers[j]
                           /\ readers'[j] = IF j = i THEN Detached ELSE readers[j]
  BY <1>1, <1>2 DEF Types
<1>6. \A j \in Instances : Attached(writers[j])' /\ Attached(readers[j])'
  BY <1>1, <1>5 DEF ApiInv, Attached, Detached
<1>7. WriterKeepsItsFlow'
  BY <1>1, <1>2, <1>5 DEF ApiInv, Types, WriterKeepsItsFlow, Alive, Detached
<1> QED BY <1>3, <1>4, <1>6, <1>7 DEF ApiInv

(* A new instance has no handles; what its domain's options say is read     *)
(* here once and for all.                                                   *)
LEMMA CreateInstanceStep ==
  ASSUME ApiInv, NEW i \in Instances, mxlCreateInstance(i)
  PROVE  ApiInv'
<1>1. PICK file \in DomainOptions : history' = [history EXCEPT ![i] = parseOptions(file)]
  BY DEF mxlCreateInstance
<1>2. parseOptions(file) \in Nat
  BY ApiAssumption DEF parseOptions
<1>3. UNCHANGED <<path, created, config, writers, readers>> /\ Types
  BY DEF mxlCreateInstance, flowVars, ApiInv
<1>4. Types'
  BY <1>1, <1>2, <1>3 DEF Types
<1>5. WriterKeepsItsFlow'
  BY <1>1, <1>2, <1>3 DEF ApiInv, Types, WriterKeepsItsFlow, Alive, Absent
<1> QED BY <1>3, <1>4, <1>5 DEF ApiInv, Attached

(* Only the flow of the last writer is removed.                             *)
LEMMA DestroyInstanceStep ==
  ASSUME ApiInv, NEW i \in Instances, mxlDestroyInstance(i)
  PROVE  ApiInv'
<1>1. /\ writers' = [writers EXCEPT ![i] = Detached]
      /\ readers' = [readers EXCEPT ![i] = Detached]
      /\ history' = [history EXCEPT ![i] = Absent]
      /\ path' = IF writers[i].refs > 0 /\ makeExclusive(i) THEN None ELSE path
      /\ UNCHANGED <<created, config>>
  BY DEF mxlDestroyInstance, Forget
<1>2. Types /\ Detached \in Handles
  BY DEF ApiInv, Types, Handles, Detached, Absent, None
<1>3. Types'
  BY <1>1, <1>2 DEF Types, None
<1>4. \A g \in 1 .. created' : Configured(config'[g])
  BY <1>1 DEF ApiInv
<1>5. \A j \in Instances : /\ writers'[j] = IF j = i THEN Detached ELSE writers[j]
                           /\ readers'[j] = IF j = i THEN Detached ELSE readers[j]
  BY <1>1, <1>2 DEF Types
<1>6. \A j \in Instances : Attached(writers[j])' /\ Attached(readers[j])'
  BY <1>1, <1>5 DEF ApiInv, Attached, Detached
<1>7. WriterKeepsItsFlow'
  <2>1. SUFFICES ASSUME NEW j \in Instances, writers'[j].refs > 0
                 PROVE  Alive(j)' /\ writers'[j].gen = path'
    BY DEF WriterKeepsItsFlow
  <2>2. j # i /\ writers'[j] = writers[j]
    BY <1>5, <2>1 DEF Detached
  <2>3. Alive(j) /\ writers[j].gen = path
    BY <2>1, <2>2 DEF ApiInv, WriterKeepsItsFlow
  <2>4. path' = path
    <3>1. SUFFICES ASSUME writers[i].refs > 0, makeExclusive(i) PROVE FALSE
      BY <1>1
    <3>2. writers[i].gen = path
      BY <3>1 DEF ApiInv, WriterKeepsItsFlow
    <3>3. writers[j].refs \in Nat /\ writers[j].refs > 0
      BY <1>2, <2>1, <2>2 DEF Types, Handles
    <3> QED BY <2>2, <2>3, <3>1, <3>2, <3>3 DEF makeExclusive
  <2>5. Alive(j)'
    BY <1>1, <1>2, <2>2, <2>3 DEF Types, Alive
  <2> QED BY <2>2, <2>3, <2>4, <2>5
<1> QED BY <1>3, <1>4, <1>6, <1>7 DEF ApiInv

(* Only a flow without a writer's lock is collected.                        *)
LEMMA GarbageCollectStep ==
  ASSUME ApiInv, NEW i \in Instances, mxlGarbageCollectFlows(i)
  PROVE  ApiInv'
<1>1. /\ UNCHANGED <<history, created, config, writers, readers>>
      /\ path' = IF Alive(i) /\ inactive(i) THEN None ELSE path
  BY DEF mxlGarbageCollectFlows
<1>2. Types'
  BY <1>1 DEF ApiInv, Types, None
<1>3. WriterKeepsItsFlow'
  <2>1. SUFFICES ASSUME NEW j \in Instances, writers[j].refs > 0
                 PROVE  Alive(j) /\ writers[j].gen = path'
    BY <1>1 DEF WriterKeepsItsFlow, Alive
  <2>2. Alive(j) /\ writers[j].gen = path /\ writers[j].refs \in Nat
    BY <2>1 DEF ApiInv, WriterKeepsItsFlow, Types, Handles
  <2>3. ~inactive(i)
    BY <2>1, <2>2 DEF inactive
  <2> QED BY <1>1, <2>2, <2>3
<1> QED BY <1>1, <1>2, <1>3 DEF ApiInv, Attached

(* A new generation: nobody has a writer while the name is free.            *)
LEMMA PublishStep ==
  ASSUME ApiInv, NEW i \in Instances, NEW r \in Requests, Alive(i),
         isConfigured(r[1], r[2], history[i]), publish(i, r[1], r[2])
  PROVE  ApiInv'
<1> DEFINE c == configure(r[1], r[2], history[i])
           g == created + 1
<1>1. /\ path = None /\ created < MaxGen /\ created' = g /\ path' = g
      /\ config' = [config EXCEPT ![g] = c]
      /\ writers' = Refer(writers, i, g, c)
      /\ UNCHANGED <<history, readers>>
  BY DEF publish
<1>2. Types
  BY DEF ApiInv
<1>3. Configured(c) /\ mappedWordSize(c) \in Nat
  <2>1. history[i] \in Nat
    BY <1>2 DEF Types, Alive
  <2>2. Configured(c)
    BY <2>1 DEF Configured
  <2> QED BY <2>2, ConfiguredFits DEF Fits
<1> HIDE DEF c
<1>4. created \in Nat /\ MaxGen \in Nat /\ g \in Gens
  BY <1>1, <1>2, ApiAssumption DEF Types, Gens
<1>5. \A j \in Instances : writers[j].refs = 0
  <2>1. SUFFICES ASSUME NEW j \in Instances PROVE writers[j].refs = 0
    OBVIOUS
  <2>2. writers[j].refs \in Nat
    BY <1>2 DEF Types, Handles
  <2>3. SUFFICES ASSUME writers[j].refs > 0 PROVE FALSE
    BY <2>2
  <2>4. writers[j].gen = path /\ writers[j].gen \in 1 .. created
    BY <2>3 DEF ApiInv, WriterKeepsItsFlow, Attached
  <2> QED BY <1>1, <1>4, <2>4 DEF None
<1>6. \A j \in Instances : writers'[j] = IF j = i THEN NewHandle(g, c) ELSE writers[j]
  BY <1>1, <1>2, <1>5 DEF Types, Refer
<1>7. writers' = [j \in Instances |-> writers'[j]]
  BY <1>1, <1>2 DEF Types, Refer
<1>8. NewHandle(g, c) \in Handles
  BY <1>3, <1>4 DEF NewHandle, Handles
<1>9. writers' \in [Instances -> Handles]
  BY <1>2, <1>6, <1>7, <1>8 DEF Types
<1>10. config' = [n \in Gens |-> config'[n]]
  BY <1>1, <1>2 DEF Types
<1>11. \A n \in Gens : config'[n] = IF n = g THEN c ELSE config[n]
  BY <1>1, <1>2 DEF Types
<1>12. Types'
  BY <1>1, <1>2, <1>4, <1>9, <1>10 DEF Types
<1>13. \A n \in 1 .. created' : Configured(config'[n])
  <2>1. SUFFICES ASSUME NEW n \in 1 .. created' PROVE Configured(config'[n])
    OBVIOUS
  <2>2. n \in Gens /\ (n # g => n \in 1 .. created)
    BY <1>1, <1>4, <2>1 DEF Gens
  <2> QED BY <1>3, <1>11, <2>2 DEF ApiInv
<1>14. ASSUME NEW j \in Instances PROVE Attached(writers[j])'
  BY <1>1, <1>4, <1>5, <1>6, <1>11 DEF Attached, NewHandle
<1>15. ASSUME NEW j \in Instances PROVE Attached(readers[j])'
  <2>1. SUFFICES ASSUME readers[j].refs > 0
                 PROVE  /\ readers[j].gen \in 1 .. created'
                        /\ readers[j].word = mappedWordSize(config'[readers[j].gen])
    BY <1>1 DEF Attached
  <2>2. readers[j].gen \in 1 .. created /\ readers[j].word = mappedWordSize(config[readers[j].gen])
    BY <2>1 DEF ApiInv, Attached
  <2>3. config'[readers[j].gen] = config[readers[j].gen]
    BY <1>4, <1>11, <2>2 DEF Gens
  <2> QED BY <1>1, <1>4, <2>2, <2>3
<1>16. WriterKeepsItsFlow'
  BY <1>1, <1>5, <1>6 DEF WriterKeepsItsFlow, Alive, NewHandle
<1> QED BY <1>12, <1>13, <1>14, <1>15, <1>16 DEF ApiInv

(* One more reference to a flow that is there.                              *)
LEMMA ReferType ==
  ASSUME Types, NEW hs \in [Instances -> Handles], NEW i \in Instances,
         NEW g \in Gens, NEW c, mappedWordSize(c) \in Nat
  PROVE  /\ Refer(hs, i, g, c) \in [Instances -> Handles]
         /\ \A j \in Instances :
              Refer(hs, i, g, c)[j] =
                IF j # i THEN hs[j]
                ELSE IF hs[i].refs > 0 THEN [hs[i] EXCEPT !.refs = hs[i].refs + 1]
                ELSE NewHandle(g, c)
<1>1. NewHandle(g, c) \in Handles
  BY DEF NewHandle, Handles
<1>2. [hs[i] EXCEPT !.refs = hs[i].refs + 1] \in Handles
  BY DEF Handles
<1> DEFINE h == IF hs[i].refs > 0 THEN [hs[i] EXCEPT !.refs = hs[i].refs + 1]
                ELSE NewHandle(g, c)
<1>3. Refer(hs, i, g, c) = [hs EXCEPT ![i] = h]
  BY DEF Refer
<1>4. h \in Handles
  BY <1>1, <1>2
<1> HIDE DEF h
<1>5. /\ Refer(hs, i, g, c) \in [Instances -> Handles]
      /\ \A j \in Instances : Refer(hs, i, g, c)[j] = IF j # i THEN hs[j] ELSE h
  BY <1>3, <1>4
<1> QED BY <1>5 DEF h

(* A handle that joins the flow under the path shares its generation.       *)
LEMMA AttachStep ==
  ASSUME ApiInv, NEW i \in Instances, NEW d, Alive(i), attach(i, d)
  PROVE  ApiInv'
<1>1. /\ path # None /\ writers' = Refer(writers, i, path, config[path])
      /\ UNCHANGED <<history, path, created, config, readers>>
  BY DEF attach, flowVars
<1>2. Types
  BY DEF ApiInv
<1>3. path \in 1 .. created /\ path \in Gens
  BY <1>1, <1>2, ApiAssumption DEF Types, Gens, None
<1>4. mappedWordSize(config[path]) \in Nat
  BY <1>3, ConfiguredFits DEF ApiInv, Fits
<1>5. /\ writers' \in [Instances -> Handles]
      /\ \A j \in Instances :
           writers'[j] = IF j # i THEN writers[j]
                         ELSE IF writers[i].refs > 0
                              THEN [writers[i] EXCEPT !.refs = writers[i].refs + 1]
                         ELSE NewHandle(path, config[path])
  BY <1>1, <1>2, <1>3, <1>4, ReferType DEF Types
<1>6. Types'
  BY <1>1, <1>2, <1>5 DEF Types
<1>7. writers[i] \in Handles
  BY <1>2 DEF Types
<1>8. ASSUME NEW j \in Instances PROVE Attached(writers[j])'
  BY <1>1, <1>3, <1>5, <1>7 DEF ApiInv, Attached, NewHandle, Handles
<1>9. WriterKeepsItsFlow'
  BY <1>1, <1>5, <1>7 DEF ApiInv, WriterKeepsItsFlow, Alive, NewHandle, Handles
<1> QED BY <1>1, <1>6, <1>8, <1>9 DEF ApiInv, Attached

(* A writer creates the flow, or attaches to the one that exists.           *)
LEMMA CreateFlowWriterStep ==
  ASSUME ApiInv, NEW i \in Instances, NEW r \in Requests, mxlCreateFlowWriter(i, r[1], r[2])
  PROVE  ApiInv'
<1>1. CASE Die(i)
  BY <1>1, DieStep
<1>2. CASE Answer("INVALID_ARG") \/ Answer("UNKNOWN")
  BY <1>2, AnswerStep
<1>3. CASE Alive(i) /\ isConfigured(r[1], r[2], history[i]) /\ publish(i, r[1], r[2])
  BY <1>3, PublishStep
<1>4. CASE Alive(i) /\ attach(i, r[1])
  BY <1>4, AttachStep
<1> QED BY <1>1, <1>2, <1>3, <1>4 DEF mxlCreateFlowWriter

(* The last reference of an instance: other writers keep the flow.          *)
LEMMA ReleaseFlowWriterStep ==
  ASSUME ApiInv, NEW i \in Instances, mxlReleaseFlowWriter(i)
  PROVE  ApiInv'
<1> DEFINE last == writers[i].refs = 1
           h == IF last THEN Detached ELSE [writers[i] EXCEPT !.refs = writers[i].refs - 1]
<1>1. CASE writers[i].refs = 0 /\ Answer("INVALID_ARG")
  BY <1>1, AnswerStep
<1>2. CASE /\ writers[i].refs > 0
           /\ writers' = [writers EXCEPT ![i] = h]
           /\ path' = IF last /\ makeExclusive(i) THEN None ELSE path
           /\ UNCHANGED <<history, created, config, readers>>
  <2>1. Types /\ writers[i] \in Handles
    BY DEF ApiInv, Types
  <2>2. h \in Handles
    BY <1>2, <2>1 DEF Handles, Detached, None, Absent
  <2>3. /\ h.refs > 0 => ~last
        /\ ~last => h.gen = writers[i].gen /\ h.word = writers[i].word
    BY <2>1 DEF Handles, Detached
  <2> HIDE DEF h
  <2>4. \A j \in Instances : writers'[j] = IF j = i THEN h ELSE writers[j]
    BY <1>2, <2>1 DEF Types
  <2>5. Types'
    BY <1>2, <2>1, <2>2 DEF Types, None
  <2>6. ASSUME NEW j \in Instances PROVE Attached(writers[j])'
    BY <1>2, <2>3, <2>4 DEF ApiInv, Attached
  <2>7. ASSUME NEW j \in Instances, writers'[j].refs > 0
        PROVE  Alive(j)' /\ writers'[j].gen = path'
    <3>1. /\ writers'[j].gen = writers[j].gen /\ Alive(j) /\ writers[j].gen = path
          /\ writers[i].gen = path
      BY <1>2, <2>3, <2>4, <2>7 DEF ApiInv, WriterKeepsItsFlow
    <3>2. writers[j].refs \in Nat /\ h.refs \in Nat /\ (j # i => writers[j].refs > 0)
      BY <2>1, <2>2, <2>4, <2>7 DEF Types, Handles
    <3>3. path' = path
      <4>1. SUFFICES ASSUME last, makeExclusive(i) PROVE FALSE
        BY <1>2
      <4>2. j # i
        BY <2>3, <2>4, <2>7, <4>1
      <4> QED BY <3>1, <3>2, <4>1, <4>2 DEF makeExclusive
    <3> QED BY <1>2, <3>1, <3>3 DEF Alive
  <2>8. WriterKeepsItsFlow'
    BY <2>7 DEF WriterKeepsItsFlow
  <2> QED BY <1>2, <2>5, <2>6, <2>8 DEF ApiInv, Attached
<1>3. CASE writers[i].refs > 1 /\ mxlReleaseFlowWriter(i)
  <2>1. writers[i].refs \in Nat
    BY DEF ApiInv, Types, Handles
  <2>2. /\ writers' = [writers EXCEPT ![i].refs = @ - 1]
        /\ UNCHANGED <<history, path, created, config, readers>>
    BY <1>3, <2>1 DEF mxlReleaseFlowWriter, flowVars
  <2>3. writers' = [writers EXCEPT ![i] = [writers[i] EXCEPT !.refs = writers[i].refs - 1]]
    BY <2>2
  <2>4. ~last /\ writers[i].refs > 0
    BY <1>3, <2>1
  <2>5. h = [writers[i] EXCEPT !.refs = writers[i].refs - 1]
    BY <2>4
  <2>6. path' = IF last /\ makeExclusive(i) THEN None ELSE path
    BY <2>2, <2>4
  <2> HIDE DEF h, last
  <2> QED BY <1>2, <2>2, <2>3, <2>4, <2>5, <2>6
<1>4. CASE writers[i].refs = 1 /\ mxlReleaseFlowWriter(i)
  <2>1. /\ writers' = [writers EXCEPT ![i] = Detached]
        /\ path' = IF makeExclusive(i) THEN None ELSE path
        /\ UNCHANGED <<history, created, config, readers>>
    BY <1>4 DEF mxlReleaseFlowWriter
  <2> QED BY <1>2, <1>4, <2>1
<1> QED BY <1>1, <1>3, <1>4 DEF mxlReleaseFlowWriter

(* Readers come and go without a trace.                                     *)
LEMMA ReaderStep ==
  ASSUME ApiInv, readers' \in [Instances -> Handles],
         UNCHANGED <<history, path, created, config, writers>>,
         \A i \in Instances : Attached(readers[i])'
  PROVE  ApiInv'
<1>1. Types'
  BY DEF ApiInv, Types
<1>2. WriterKeepsItsFlow'
  BY DEF ApiInv, WriterKeepsItsFlow, Alive
<1> QED BY <1>1, <1>2 DEF ApiInv, Attached

(* A reader attaches to the flow that exists.                               *)
LEMMA CreateFlowReaderStep ==
  ASSUME ApiInv, NEW i \in Instances, mxlCreateFlowReader(i)
  PROVE  ApiInv'
<1>1. CASE Answer("INVALID_ARG") \/ Answer("FLOW_NOT_FOUND")
  BY <1>1, AnswerStep
<1>2. CASE /\ readers[i].refs > 0 \/ path # None
           /\ readers' = Refer(readers, i, path, config[path])
           /\ UNCHANGED <<history, path, created, config, writers>>
  <2>1. Types /\ readers[i] \in Handles
    BY DEF ApiInv, Types
  <2>2. CASE readers[i].refs > 0
    <3> DEFINE h == [readers[i] EXCEPT !.refs = readers[i].refs + 1]
    <3>1. readers' = [readers EXCEPT ![i] = h]
      BY <1>2, <2>2 DEF Refer
    <3>2. h \in Handles /\ h.gen = readers[i].gen /\ h.word = readers[i].word
      BY <2>1 DEF Handles
    <3> HIDE DEF h
    <3>3. readers' \in [Instances -> Handles]
      BY <2>1, <3>1, <3>2 DEF Types
    <3>4. \A j \in Instances : readers'[j] = IF j = i THEN h ELSE readers[j]
      BY <2>1, <3>1 DEF Types
    <3>5. ASSUME NEW j \in Instances PROVE Attached(readers[j])'
      BY <1>2, <2>2, <3>2, <3>4 DEF ApiInv, Attached
    <3> QED BY <1>2, <3>3, <3>5, ReaderStep
  <2>3. CASE readers[i].refs = 0
    <3>1. path \in 1 .. created /\ path \in Gens
      BY <1>2, <2>1, <2>3, ApiAssumption DEF Types, Gens, None
    <3>2. mappedWordSize(config[path]) \in Nat
      BY <3>1, ConfiguredFits DEF ApiInv, Fits
    <3>3. /\ readers' \in [Instances -> Handles]
          /\ \A j \in Instances :
               readers'[j] = IF j # i THEN readers[j] ELSE NewHandle(path, config[path])
      <4>1. readers \in [Instances -> Handles]
        BY <2>1 DEF Types
      <4> HIDE DEF Types
      <4>2. /\ Refer(readers, i, path, config[path]) \in [Instances -> Handles]
            /\ \A j \in Instances :
                 Refer(readers, i, path, config[path])[j] =
                   IF j # i THEN readers[j]
                   ELSE IF readers[i].refs > 0
                        THEN [readers[i] EXCEPT !.refs = readers[i].refs + 1]
                   ELSE NewHandle(path, config[path])
        BY <2>1, <3>1, <3>2, <4>1, ReferType
      <4> QED BY <1>2, <2>3, <4>2
    <3>4. ASSUME NEW j \in Instances PROVE Attached(readers[j])'
      BY <1>2, <3>1, <3>3 DEF ApiInv, Attached, NewHandle
    <3> QED BY <1>2, <3>3, <3>4, ReaderStep
  <2>4. readers[i].refs \in Nat
    BY <2>1 DEF Handles
  <2> QED BY <2>2, <2>3, <2>4
<1> QED BY <1>1, <1>2 DEF mxlCreateFlowReader, flowVars

(* The last reference of an instance takes its handle away.                 *)
LEMMA ReleaseFlowReaderStep ==
  ASSUME ApiInv, NEW i \in Instances, mxlReleaseFlowReader(i)
  PROVE  ApiInv'
<1>1. CASE Answer("INVALID_ARG")
  BY <1>1, AnswerStep
<1>2. CASE readers[i].refs > 0 /\ ~Answer("INVALID_ARG")
  <2>1. Types /\ readers[i] \in Handles
    BY DEF ApiInv, Types
  <2> DEFINE h == IF readers[i].refs = 1 THEN Detached
                  ELSE [readers[i] EXCEPT !.refs = readers[i].refs - 1]
  <2>2. /\ readers' = [readers EXCEPT ![i] = h]
        /\ UNCHANGED <<history, path, created, config, writers>>
    BY <1>2 DEF mxlReleaseFlowReader, flowVars
  <2>3. h \in Handles
    BY <1>2, <2>1 DEF Handles, Detached, None, Absent
  <2>4. h.refs > 0 => h.gen = readers[i].gen /\ h.word = readers[i].word
    BY <2>1 DEF Handles, Detached
  <2> HIDE DEF h
  <2>5. readers' \in [Instances -> Handles]
    BY <2>1, <2>2, <2>3 DEF Types
  <2>6. \A j \in Instances : readers'[j] = IF j = i THEN h ELSE readers[j]
    BY <2>1, <2>2 DEF Types
  <2>7. ASSUME NEW j \in Instances PROVE Attached(readers[j])'
    BY <1>2, <2>2, <2>4, <2>6 DEF ApiInv, Attached
  <2> QED BY <2>2, <2>5, <2>7, ReaderStep
<1> QED BY <1>1, <1>2 DEF mxlReleaseFlowReader

(* The calls on instances, writers and readers together.                    *)
LEMMA FlowCallStep ==
  ASSUME ApiInv, NEW i \in Instances, FlowCalls(i)
  PROVE  ApiInv'
<1>1. CASE \E r \in Requests : mxlCreateFlowWriter(i, r[1], r[2])
  BY <1>1, CreateFlowWriterStep
<1>2. CASE mxlReleaseFlowWriter(i)
  BY <1>2, ReleaseFlowWriterStep
<1>3. CASE mxlCreateFlowReader(i)
  BY <1>3, CreateFlowReaderStep
<1>4. CASE mxlReleaseFlowReader(i)
  BY <1>4, ReleaseFlowReaderStep
<1>5. CASE mxlIsFlowActive(i)
  BY <1>5, AnswerStep DEF mxlIsFlowActive
<1>6. CASE mxlGetFlowDef(i)
  BY <1>6, AnswerStep DEF mxlGetFlowDef
<1>7. CASE mxlFlowReaderGetInfo(i)
  BY <1>7, AnswerStep DEF mxlFlowReaderGetInfo
<1> QED BY <1>1, <1>2, <1>3, <1>4, <1>5, <1>6, <1>7 DEF FlowCalls

(* The calls on the grains and the samples of a flow together.              *)
LEMMA DataCallStep ==
  ASSUME ApiInv, NEW i \in Instances, DataCalls(i)
  PROVE  ApiInv'
<1> USE DEF flowVars
<1>1. ASSUME NEW index \in Indices, mxlFlowWriterOpenGrain(i, index)
      PROVE  ApiInv'
  <2>1. index \in Nat
    BY ApiAssumption DEF Indices
  <2> QED BY <1>1, <2>1, AnswerStep, DieStep, CurrentStep DEF mxlFlowWriterOpenGrain
<1>2. ASSUME NEW index \in Indices, mxlFlowWriterCommitGrain(i, index)
      PROVE  ApiInv'
  BY <1>2, AnswerStep, CurrentStep DEF mxlFlowWriterCommitGrain
<1>3. ASSUME NEW index \in Indices, mxlFlowReaderGetGrain(i, index)
      PROVE  ApiInv'
  BY <1>3, AnswerStep DEF mxlFlowReaderGetGrain
<1>4. ASSUME NEW index \in Indices, NEW count, mxlFlowReaderGetSamples(i, index, count)
      PROVE  ApiInv'
  BY <1>4, AnswerStep DEF mxlFlowReaderGetSamples
<1>5. ASSUME NEW index \in Indices, NEW count, mxlFlowWriterOpenSamples(i, index, count)
      PROVE  ApiInv'
  <2>1. index \in Nat
    BY ApiAssumption DEF Indices
  <2> QED BY <1>5, <2>1, AnswerStep, CurrentStep DEF mxlFlowWriterOpenSamples
<1>6. CASE mxlFlowWriterGetGrainInfo(i)
  BY <1>6, AnswerStep, DieStep DEF mxlFlowWriterGetGrainInfo
<1>7. CASE mxlFlowWriterCommitSamples(i)
  BY <1>7, AnswerStep, CurrentStep DEF mxlFlowWriterCommitSamples
<1>8. CASE mxlFlowReaderGetMaxReadLengthSamples(i) \/ mxlFlowWriterGetMaxWriteLengthSamples(i)
  BY <1>8, AnswerStep
  DEF mxlFlowReaderGetMaxReadLengthSamples, mxlFlowWriterGetMaxWriteLengthSamples
<1>9. CASE mxlFlowWriterCancelGrain(i) \/ mxlFlowWriterCancelSamples(i)
  BY <1>9, AnswerStep, CurrentStep
  DEF mxlFlowWriterCancelGrain, mxlFlowWriterCancelSamples, cancel
<1> QED BY <1>1, <1>2, <1>3, <1>4, <1>5, <1>6, <1>7, <1>8, <1>9 DEF DataCalls

(* The invariant holds in every reachable state.                            *)
LEMMA ApiInvHolds == Spec => []ApiInv
<1>1. Init => ApiInv
  BY InitApiInv
<1>2. ApiInv /\ [Next]_vars => ApiInv'
  <2>1. SUFFICES ASSUME ApiInv, [Next]_vars PROVE ApiInv'
    OBVIOUS
  <2>2. CASE UNCHANGED vars
    <3>1. UNCHANGED <<history, path, created, config, readers>> /\ writers' = writers
      BY <2>2 DEF vars, flowVars
    <3>2. writers \in [Instances -> Handles]
      BY <2>1 DEF ApiInv, Types
    <3> QED BY <2>1, <3>1, <3>2, DataStep
  <2>3. CASE Next
    <3>1. PICK i \in Instances :
            \/ mxlCreateInstance(i) \/ mxlDestroyInstance(i) \/ mxlGarbageCollectFlows(i)
            \/ Die(i) \/ FlowCalls(i) \/ DataCalls(i)
      BY <2>3 DEF Next
    <3> QED BY <2>1, <3>1, CreateInstanceStep, DestroyInstanceStep, GarbageCollectStep,
               DieStep, FlowCallStep, DataCallStep
  <2> QED BY <2>1, <2>2, <2>3
<1> QED BY <1>1, <1>2, PTL DEF Spec

(* Whatever instances release, destroy, crash or collect, a writer's flow   *)
(* stays under its name for as long as the writer is there.                 *)
THEOREM WritersKeepTheirFlows == Spec => []WriterKeepsItsFlow
<1>1. ApiInv => WriterKeepsItsFlow
  BY DEF ApiInv
<1> QED BY <1>1, ApiInvHolds, PTL

(* For every definition, every options and every history: the slices make   *)
(* up the grain, half of a ring holds the history and the default commit,   *)
(* and everyone who attaches finds the word size of the flow.               *)
THEOREM EveryGeometryFits == Spec => []GeometryFits
<1>1. ApiInv => GeometryFits
  <2>1. SUFFICES ASSUME ApiInv, NEW g \in 1 .. created
                 PROVE  /\ Fits(config[g])
                        /\ \A i \in Instances :
                             /\ writers[i].refs > 0 /\ writers[i].gen = g =>
                                  writers[i].word = mappedWordSize(config[g])
                             /\ readers[i].refs > 0 /\ readers[i].gen = g =>
                                  readers[i].word = mappedWordSize(config[g])
    BY DEF GeometryFits, Fits
  <2>2. Fits(config[g])
    BY <2>1, ConfiguredFits DEF ApiInv
  <2> QED BY <2>1, <2>2 DEF ApiInv, Attached
<1> QED BY <1>1, ApiInvHolds, PTL

(* At the rate of every flow whose period is longer than a tick, an index   *)
(* is the index of its own time, and sleeping until an index reaches it.    *)
THEOREM IndexAndTimeAlwaysAgree == Spec => []IndexAndTimeAgree
<1>1. ApiInv => IndexAndTimeAgree
  <2>1. SUFFICES ASSUME ApiInv, NEW g \in 1 .. created,
                        config[g].rate.num > 0,
                        config[g].rate.num < Second * config[g].rate.den,
                        NEW index \in Indices
                 PROVE  LET rate == config[g].rate
                        IN  /\ timestampToIndex(rate, mxlIndexToTimestamp(rate, index)) = index
                            /\ \A now \in 1 .. 4 * MaxIndex :
                                 mxlGetCurrentIndex(rate,
                                   now + mxlGetNsUntilIndex(rate, index, now)) >= index
    BY DEF IndexAndTimeAgree
  <2> DEFINE rate == config[g].rate
  <2>2. rate \in [num : Nat, den : Nat]
    BY <2>1, ConfiguredFits DEF ApiInv, Fits
  <2>3. rate = [num |-> rate.num, den |-> rate.den] /\ rate.num \in Nat /\ rate.den \in Nat
    BY <2>2
  <2>4. index \in Nat /\ \A now \in 1 .. 4 * MaxIndex : now \in Nat /\ now > 0
    BY ApiAssumption DEF Indices
  <2>5. rate.num > 0 /\ rate.num < Second * rate.den
    BY <2>1
  <2> HIDE DEF rate
  <2>6. timestampToIndex(rate, mxlIndexToTimestamp(rate, index)) = index
    BY <2>3, <2>4, <2>5, RoundTrip
  <2>7. ASSUME NEW now \in 1 .. 4 * MaxIndex
        PROVE  mxlGetCurrentIndex(rate, now + mxlGetNsUntilIndex(rate, index, now)) >= index
    BY <2>3, <2>4, <2>5, SleepReachesIndex
  <2> QED BY <2>6, <2>7 DEF rate
<1> QED BY <1>1, ApiInvHolds, PTL
=============================================================================

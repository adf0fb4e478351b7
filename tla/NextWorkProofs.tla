--------------------------- MODULE NextWorkProofs ---------------------------
(***************************************************************************)
(* First, that the client asks of its own blocks what the network will ask:  *)
(* from the two things it may lack, the parent's time and the last bits       *)
(* above the minimum difficulty, and the two histories that say when it has   *)
(* them.                                                                     *)
(*                                                                          *)
(* Then, that DigiShield is exact in compact form and moves the target with   *)
(* the time: powers, digits and division; what a compact number reads as and  *)
(* what a target is written as; that nothing expressible lies between the     *)
(* two; one retarget; and the chain's bits, step by step.                     *)
(***************************************************************************)
EXTENDS NextWork, TLAPS, FiniteSetTheorems, WellFoundedInduction

KnowInv ==
  /\ headers \in 0..2
  /\ headers # 0 => tipKnown
  /\ headers = 2 => parentKnown
  /\ tipKnown \in BOOLEAN /\ parentKnown \in BOOLEAN /\ informed \in BOOLEAN
  /\ informed => lastNonMin = chainNonMin

LEMMA KnowInit == WorkInit => KnowInv
<1>1. 0 \in 0..2 /\ 0 # 2
  OBVIOUS
<1> QED
  BY <1>1, Zenon DEF WorkInit, KnowInv

(* The client's bits and the chain's are carried on alike, so they agree once
   they were the same. *)
LEMMA KnowStep ==
  ASSUME KnowInv, [WorkNext]_workVars
  PROVE  KnowInv'
<1> USE DEF KnowInv
<1>1. CASE Grow
  <2>1. PICK dt \in Gap : \E b \in IF height < DigishieldStart THEN FirstBits ELSE {ChainBits(dt)} :
          /\ chainNonMin' = Carried(chainNonMin, b)
          /\ Follow(b)
          /\ informed' = (informed \/ b # PowLimitCompact)
    BY <1>1 DEF Grow
  <2>2. PICK b \in IF height < DigishieldStart THEN FirstBits ELSE {ChainBits(dt)} :
          /\ chainNonMin' = Carried(chainNonMin, b)
          /\ Follow(b)
          /\ informed' = (informed \/ b # PowLimitCompact)
    BY <2>1
  <2>3. headers' = IF headers = 2 THEN 2 ELSE headers + 1
    BY <1>1 DEF Grow
  <2>4. (informed => lastNonMin = chainNonMin)'
    <3>1. CASE b = PowLimitCompact
      <4>1. informed' => informed
        BY <2>2, <3>1, Zenon
      <4> QED
        BY <2>2, <3>1, <4>1 DEF Carried, Follow
    <3>2. CASE b # PowLimitCompact
      BY <2>2, <3>2 DEF Carried, Follow
    <3> QED
      BY <3>1, <3>2
  <2>5. headers' \in 0..2 /\ (headers' = 2 => headers # 0)
    BY <2>3
  <2>6. tipKnown' /\ (headers' = 2 => parentKnown')
    BY <2>2, <2>5 DEF Follow
  <2>7. (tipKnown \in BOOLEAN /\ parentKnown \in BOOLEAN /\ informed \in BOOLEAN)'
    <3>1. informed' \in BOOLEAN
      BY <2>2, Zenon
    <3> QED
      BY <2>2, <3>1 DEF Follow
  <2> QED
    BY <2>4, <2>5, <2>6, <2>7
<1>2. ASSUME NEW seed \in BOOLEAN, Restart(seed)
      PROVE  KnowInv'
  <2>1. headers' = 0 /\ parentKnown' = FALSE /\ tipKnown' = FALSE /\ chainNonMin' = chainNonMin
    BY <1>2 DEF Restart, chainVars
  <2>2. informed' \in BOOLEAN /\ (informed' => informed /\ seed)
    BY <1>2, Zenon DEF Restart
  <2>3. seed => lastNonMin' = lastNonMin
    BY <1>2 DEF Restart
  <2>4. 0 \in 0..2 /\ 0 # 2
    OBVIOUS
  <2> QED
    BY <2>1, <2>2, <2>3, <2>4, Zenon
<1>3. CASE UNCHANGED workVars
  BY <1>3 DEF workVars, chainVars
<1> QED
  BY <1>1, <1>2, <1>3 DEF WorkNext

(* What the rule says depends on the bits above the minimum difficulty only behind
   a testnet block of it ... *)
LEMMA RuleNeedsBits ==
  ASSUME NEW net, NEW h, NEW b, NEW clock, NEW dt, NEW known, NEW nonMin, NEW chain,
         ~(net = "testnet" /\ b = PowLimitCompact)
  PROVE  NextWorkRequired(net, h, b, clock, nonMin, known, dt)
           = NextWorkRequired(net, h, b, clock, chain, known, dt)
BY DEF NextWorkRequired

(* ... and on the parent's time only under DigiShield. *)
LEMMA RuleNeedsParent ==
  ASSUME NEW net, NEW h, NEW b, NEW clock, NEW dt, NEW known, NEW nonMin,
         known = TRUE \/ h < DigishieldStart
  PROVE  NextWorkRequired(net, h, b, clock, nonMin, known, dt)
           = NextWorkRequired(net, h, b, clock, nonMin, TRUE, dt)
BY DEF NextWorkRequired

(* Two headers after any start the template has the bits that the network will
   demand, whatever the chain, the times on it and the thresholds are: the parent's
   time and the last bits above the minimum difficulty are known when they count. *)
THEOREM TemplateAlwaysAgrees == WorkSpec => []TemplateAgrees
<1>1. ASSUME KnowInv, NEW clock \in Clock, headers = 2 \/ height < DigishieldStart,
             network = "testnet" /\ bits = PowLimitCompact => informed
      PROVE  TemplateBits(clock) = ChainBits(clock)
  <2>1. parentKnown = TRUE \/ height < DigishieldStart
    BY <1>1, Zenon DEF KnowInv
  <2>2. network = "testnet" /\ bits = PowLimitCompact => lastNonMin = chainNonMin
    BY <1>1, Zenon DEF KnowInv
  <2>3. TemplateBits(clock) = NextWorkRequired(network, height, bits, clock, lastNonMin, TRUE, gap)
    BY <2>1, RuleNeedsParent DEF TemplateBits
  <2>4. CASE network = "testnet" /\ bits = PowLimitCompact
    BY <2>2, <2>3, <2>4 DEF ChainBits
  <2>5. CASE ~(network = "testnet" /\ bits = PowLimitCompact)
    BY <2>3, <2>5, RuleNeedsBits DEF ChainBits
  <2> QED
    BY <2>4, <2>5
<1>2. KnowInv => TemplateAgrees
  BY <1>1, Zenon DEF TemplateAgrees
<1> QED
  BY <1>2, KnowInit, KnowStep, PTL DEF WorkSpec
-----------------------------------------------------------------------------
(* Powers, by induction on the exponent; the digits of a number. *)

LEMMA LeastNumber ==
  ASSUME NEW T, T \subseteq Nat, T # {}
  PROVE  \E n \in T : \A m \in T : n <= m
<1> DEFINE Less == {p \in Nat \X Nat : p[1] < p[2]}
<1>1. IsWellFoundedOn(Less, Nat)
  BY NatLessThanWellFounded DEF OpToRel
<1>2. PICK n \in T : \A m \in T : <<m, n>> \notin Less
  <2> HIDE DEF Less
  <2> QED
    BY <1>1, WFMin
<1>3. ASSUME NEW m \in T PROVE n <= m
  <2>1. m \in Nat /\ n \in Nat
    OBVIOUS
  <2>2. <<m, n>> \in Nat \X Nat /\ <<m, n>>[1] = m /\ <<m, n>>[2] = n
    BY <2>1
  <2>3. ~(<<m, n>>[1] < <<m, n>>[2])
    BY <1>2, <2>2, Zenon
  <2> QED
    BY <2>1, <2>2, <2>3
<1> QED
  BY <1>3

LEMMA ExponentInduction ==
  ASSUME NEW S, 0 \in S, \A n \in Nat : n \in S => n + 1 \in S
  PROVE  Nat \subseteq S
<1> SUFFICES ASSUME Nat \ S # {} PROVE FALSE
  OBVIOUS
<1>1. PICK n \in Nat \ S : \A m \in Nat \ S : n <= m
  BY LeastNumber
<1>2. n - 1 \in Nat /\ n - 1 \in S
  BY <1>1
<1>3. (n - 1) + 1 \in S
  BY <1>2
<1> QED
  BY <1>1, <1>3

(* The first n + 1 powers. *)
IsTable(g, n) == g \in [0..n -> Nat] /\ g[0] = 1 /\ \A k \in 1..n : g[k] = Base * g[k - 1]

LEMMA TablesExist == \A n \in Nat : \E g : IsTable(g, n)
<1> DEFINE S == {n \in Nat : \E g : IsTable(g, n)}
<1>1. 0 \in S
  <2>1. IsTable([k \in 0..0 |-> 1], 0)
    BY DEF IsTable
  <2> QED
    BY <2>1
<1>2. ASSUME NEW n \in Nat, n \in S PROVE n + 1 \in S
  <2>1. PICK g : IsTable(g, n)
    BY <1>2
  <2>2. PICK h : h = [k \in 0..(n + 1) |-> IF k = n + 1 THEN Base * g[n] ELSE g[k]]
    OBVIOUS
  <2>3. g[n] \in Nat /\ \A k \in 0..n : g[k] \in Nat
    BY <2>1 DEF IsTable
  <2>4. Base * g[n] \in Nat
    BY <2>3, NextWorkAssumption
  <2>5. h \in [0..(n + 1) -> Nat] /\ h[0] = 1 /\ h[n + 1] = Base * g[n] /\ \A k \in 0..n : h[k] = g[k]
    BY <2>1, <2>2, <2>3, <2>4 DEF IsTable
  <2>6. ASSUME NEW k \in 1..(n + 1) PROVE h[k] = Base * h[k - 1]
    <3>1. CASE k = n + 1
      BY <2>5, <3>1
    <3>2. CASE k # n + 1
      <4>1. k \in 1..n /\ k \in 0..n /\ k - 1 \in 0..n
        BY <3>2
      <4> QED
        BY <2>1, <2>5, <4>1 DEF IsTable
    <3> QED
      BY <3>1, <3>2
  <2>7. IsTable(h, n + 1)
    BY <2>5, <2>6 DEF IsTable
  <2> QED
    BY <2>7
<1> HIDE DEF S
<1>3. Nat \subseteq S
  BY <1>1, <1>2, ExponentInduction
<1> QED
  BY <1>3 DEF S

LEMMA TablesAgree ==
  ASSUME NEW n \in Nat, NEW m \in Nat, NEW g, NEW h, IsTable(g, n), IsTable(h, m), n <= m
  PROVE  g[n] = h[n]
<1> DEFINE S == {k \in Nat : k <= n => g[k] = h[k]}
<1>1. 0 \in S
  BY DEF IsTable
<1>2. ASSUME NEW k \in Nat, k \in S PROVE k + 1 \in S
  <2> SUFFICES ASSUME k + 1 <= n PROVE g[k + 1] = h[k + 1]
    OBVIOUS
  <2>1. k + 1 \in 1..n /\ k + 1 \in 1..m /\ (k + 1) - 1 = k /\ k <= n
    OBVIOUS
  <2> QED
    BY <1>2, <2>1 DEF IsTable
<1> HIDE DEF S
<1>3. Nat \subseteq S
  BY <1>1, <1>2, ExponentInduction
<1> QED
  BY <1>3 DEF S

LEMMA PowerIs == Power = [k \in Nat |-> IF k = 0 THEN 1 ELSE Base * Power[k - 1]]
<1> DEFINE Table(n) == CHOOSE g : IsTable(g, n)
           f == [n \in Nat |-> Table(n)[n]]
<1>1. ASSUME NEW n \in Nat PROVE IsTable(Table(n), n)
  BY TablesExist
<1> HIDE DEF Table
<1>2. ASSUME NEW n \in Nat PROVE f[n] = IF n = 0 THEN 1 ELSE Base * f[n - 1]
  <2>1. CASE n = 0
    BY <1>1, <2>1 DEF IsTable
  <2>2. CASE n # 0
    <3>1. n - 1 \in Nat /\ n - 1 <= n /\ n \in 1..n
      BY <2>2
    <3>2. Table(n - 1)[n - 1] = Table(n)[n - 1]
      BY <1>1, <3>1, TablesAgree
    <3>3. Table(n)[n] = Base * Table(n)[n - 1]
      BY <1>1, <3>1 DEF IsTable
    <3> QED
      BY <2>2, <3>1, <3>2, <3>3
  <2> QED
    BY <2>1, <2>2
<1>3. f = [k \in Nat |-> IF k = 0 THEN 1 ELSE Base * f[k - 1]]
  <2> DEFINE e == [k \in Nat |-> IF k = 0 THEN 1 ELSE Base * f[k - 1]]
  <2>1. \A k \in Nat : f[k] = e[k]
    BY <1>2
  <2> QED
    BY <2>1
<1> HIDE DEF f
<1> QED
  BY <1>3 DEF Power

LEMMA PowerSteps == Power[0] = 1 /\ \A k \in Nat : Power[k + 1] = Base * Power[k]
<1>1. \A k \in Nat : Power[k] = IF k = 0 THEN 1 ELSE Base * Power[k - 1]
  BY PowerIs
<1>2. Power[0] = 1
  BY <1>1
<1>3. ASSUME NEW k \in Nat PROVE Power[k + 1] = Base * Power[k]
  <2>1. k + 1 \in Nat /\ k + 1 # 0 /\ (k + 1) - 1 = k
    OBVIOUS
  <2> QED
    BY <1>1, <2>1
<1> QED
  BY <1>2, <1>3

LEMMA PowerType == \A k \in Nat : Power[k] \in Nat \ {0}
<1> DEFINE S == {k \in Nat : Power[k] \in Nat \ {0}}
<1>1. 0 \in S
  BY PowerSteps
<1>2. ASSUME NEW k \in Nat, k \in S PROVE k + 1 \in S
  <2>1. PICK p \in Nat \ {0} : p = Power[k]
    BY <1>2
  <2>2. Base * p \in Nat \ {0}
    BY NextWorkAssumption
  <2> QED
    BY <2>1, <2>2, PowerSteps
<1> HIDE DEF S
<1>3. Nat \subseteq S
  BY <1>1, <1>2, ExponentInduction
<1> QED
  BY <1>3 DEF S

LEMMA PowerAdds == \A j \in Nat, k \in Nat : Power[j + k] = Power[j] * Power[k]
<1> SUFFICES ASSUME NEW j \in Nat PROVE \A k \in Nat : Power[j + k] = Power[j] * Power[k]
  OBVIOUS
<1> DEFINE S == {k \in Nat : Power[j + k] = Power[j] * Power[k]}
<1>1. 0 \in S
  BY PowerSteps, PowerType
<1>2. ASSUME NEW k \in Nat, k \in S PROVE k + 1 \in S
  <2>1. Power[(j + k) + 1] = Base * Power[j + k] /\ Power[k + 1] = Base * Power[k]
    BY PowerSteps
  <2>2. PICK p \in Nat, q \in Nat : p = Power[j] /\ q = Power[k]
    BY PowerType
  <2>3. Base * (p * q) = p * (Base * q)
    BY NextWorkAssumption
  <2>4. j + (k + 1) = (j + k) + 1
    OBVIOUS
  <2> QED
    BY <1>2, <2>1, <2>2, <2>3, <2>4
<1> HIDE DEF S
<1>3. Nat \subseteq S
  BY <1>1, <1>2, ExponentInduction
<1> QED
  BY <1>3 DEF S

LEMMA PowerGrows ==
  ASSUME NEW j \in Nat, NEW k \in Nat, j < k
  PROVE  Base * Power[j] <= Power[k] /\ Power[j] < Power[k]
<1>1. k - (j + 1) \in Nat /\ k = (j + 1) + (k - (j + 1))
  OBVIOUS
<1>2. PICK p \in Nat \ {0}, q \in Nat \ {0} : p = Power[j] /\ q = Power[k - (j + 1)]
  BY <1>1, PowerType
<1>3. Power[k] = (Base * p) * q
  BY <1>1, <1>2, PowerSteps, PowerAdds
<1>4. Base * p \in Nat /\ (Base * p) * q \in Nat /\ (Base * p) * q >= Base * p /\ Base * p > p
  BY NextWorkAssumption
<1> QED
  BY <1>2, <1>3, <1>4

(* The mantissa: half of what three digits hold. *)
LEMMA MantissaFacts ==
  /\ Power[1] = Base /\ Power[2] = Base * Base /\ MantissaEnd = Power[3]
  /\ SignBit \div Base \in Nat /\ SignBit \div Base >= 72
  /\ SignBit = Base * (SignBit \div Base) /\ MantissaEnd = 2 * SignBit
  /\ Power[2] = 2 * (SignBit \div Base) /\ SignBit \in Nat /\ MantissaEnd \in Nat
  /\ Power[2] < SignBit /\ MantissaEnd > 0
<1>1. Power[1] = Base /\ Power[2] = Base * Base /\ Power[3] = Base * (Base * Base)
  <2>1. Power[0 + 1] = Base * 1 /\ Power[1 + 1] = Base * Power[1] /\ Power[2 + 1] = Base * Power[2]
    BY PowerSteps
  <2> QED
    BY <2>1, NextWorkAssumption
<1>2. PICK h \in Nat : Base = 2 * h /\ h >= 6
  BY NextWorkAssumption
<1>3. PICK s \in Nat : s = h * Base
  BY <1>2, NextWorkAssumption
<1>4. s >= 72 /\ Base * Base = 2 * s
  BY <1>2, <1>3, NextWorkAssumption
<1>5. Base * s \in Nat /\ Base * (Base * Base) = 2 * (Base * s)
  BY <1>4, NextWorkAssumption
<1>6. SignBit = Base * s
  BY <1>1, <1>5 DEF SignBit, MantissaEnd
<1>7. (Base * s) \div Base = s
  BY NextWorkAssumption
<1>8. 2 * s < Base * s
  BY <1>4, NextWorkAssumption
<1> QED
  BY <1>1, <1>4, <1>5, <1>6, <1>7, <1>8 DEF MantissaEnd

LEMMA Division ==
  ASSUME NEW p \in Nat \ {0}, NEW n \in Nat
  PROVE  /\ n \div p \in Nat /\ n % p \in 0..(p - 1) /\ n = p * (n \div p) + (n % p)
         /\ p * (n \div p) <= n /\ n < p * (n \div p) + p
<1>1. PICK q, r : q = n \div p /\ r = n % p
  OBVIOUS
<1>2. q \in Nat /\ r \in 0..(p - 1) /\ n = p * q + r
  BY <1>1
<1>3. p * q \in Nat
  BY <1>2
<1>4. p * q <= n /\ n < p * q + p
  BY <1>2, <1>3
<1> QED
  BY <1>1, <1>2, <1>4, Zenon

LEMMA DivisionIs ==
  ASSUME NEW p \in Nat \ {0}, NEW q \in Nat, NEW r \in Nat, r < p
  PROVE  (p * q + r) \div p = q /\ (p * q + r) % p = r
<1>1. PICK n \in Nat : n = p * q + r
  OBVIOUS
<1>2. n \div p = q
  BY <1>1
<1>3. n % p = r
  BY <1>1
<1> QED
  BY <1>1, <1>2, <1>3

LEMMA ExactDivision ==
  ASSUME NEW p \in Nat \ {0}, NEW a \in Nat
  PROVE  (a * p) \div p = a /\ (a * p) % p = 0
<1>1. a * p = p * a + 0
  OBVIOUS
<1> QED
  BY <1>1, DivisionIs

LEMMA ProductGrows ==
  ASSUME NEW a \in Nat, NEW b \in Nat, NEW p \in Nat
  PROVE  /\ a * p \in Nat /\ b * p \in Nat /\ a * p = p * a
         /\ a <= b => a * p <= b * p
         /\ a < b => a * p + p <= b * p
<1>1. a * p \in Nat /\ b * p \in Nat /\ a * p = p * a
  OBVIOUS
<1>2. a <= b => a * p <= b * p
  OBVIOUS
<1>3. a < b => (a + 1) * p <= b * p
  OBVIOUS
<1>4. (a + 1) * p = a * p + p
  OBVIOUS
<1> QED
  BY <1>1, <1>2, <1>3, <1>4

(* Between two powers a number has as many digits as the higher one's exponent. *)
LEMMA DigitsAre ==
  ASSUME NEW d \in 1..MaxDigits, NEW n \in Nat, Power[d - 1] <= n, n < Power[d]
  PROVE  Digits(n) = d
<1> USE NextWorkAssumption
<1>1. ASSUME NEW k \in 0..(MaxDigits - 1) PROVE Power[k] <= n <=> k <= d - 1
  <2>1. k \in Nat /\ d \in Nat /\ d - 1 \in Nat
    OBVIOUS
  <2>2. Power[k] \in Nat /\ Power[d - 1] \in Nat /\ Power[d] \in Nat
    BY <2>1, PowerType
  <2>3. CASE k < d - 1
    BY <2>1, <2>2, <2>3, PowerGrows
  <2>4. CASE k = d - 1
    BY <2>4
  <2>5. CASE k = d
    BY <2>1, <2>2, <2>5
  <2>6. CASE k > d
    BY <2>1, <2>2, <2>6, PowerGrows
  <2> QED
    BY <2>1, <2>3, <2>4, <2>5, <2>6
<1>2. {k \in 0..(MaxDigits - 1) : Power[k] <= n} = 0..(d - 1)
  BY <1>1
<1>3. Cardinality(0..(d - 1)) = d
  BY FS_Interval
<1> QED
  BY <1>2, <1>3 DEF Digits

LEMMA DigitsBound ==
  ASSUME NEW n \in Nat, NEW k \in 0..MaxDigits, 0 < n, n < Power[k]
  PROVE  /\ Digits(n) \in 1..k
         /\ Power[Digits(n) - 1] <= n /\ n < Power[Digits(n)]
<1> USE NextWorkAssumption
<1>1. PICK T : T = {j \in Nat : n < Power[j]}
  OBVIOUS
<1>2. PICK d \in T : \A j \in T : d <= j
  BY <1>1, LeastNumber
<1>3. d # 0
  BY <1>1, <1>2, PowerSteps
<1>4. d \in 1..k /\ n < Power[d]
  BY <1>1, <1>2, <1>3
<1>5. d - 1 \in Nat /\ ~(n < Power[d - 1])
  BY <1>1, <1>2, <1>4
<1>6. Power[d - 1] <= n
  BY <1>5, PowerType
<1>7. Digits(n) = d
  BY <1>4, <1>6, DigitsAre
<1> QED
  BY <1>4, <1>6, <1>7

-----------------------------------------------------------------------------
(* The compact form of a target that keeps its exponent. *)

(* m is the mantissa of the compact form, and k the digits it leaves out. *)
Compact(c, m, k) ==
  /\ c = (k + 3) * MantissaEnd + m
  /\ m \in (SignBit \div Base)..(SignBit - 1) /\ k \in 1..(MaxDigits - 3)
  /\ BitsToTarget(c) = m * Power[k] /\ m * Power[k] >= MantissaEnd

(* Reading a compact number. *)
LEMMA ReadsBack ==
  ASSUME NEW m \in 0..(SignBit - 1), NEW k \in Nat \ {0}
  PROVE  BitsToTarget((k + 3) * MantissaEnd + m) = m * Power[k]
<1>1. PICK c : c = MantissaEnd * (k + 3) + m
  OBVIOUS
<1>2. MantissaEnd \in Nat \ {0} /\ k + 3 \in Nat /\ m \in Nat /\ m < MantissaEnd
  BY MantissaFacts
<1>3. c \div MantissaEnd = k + 3 /\ c % MantissaEnd = m
  BY <1>1, <1>2, DivisionIs
<1>4. MantissaEnd * (k + 3) = (k + 3) * MantissaEnd
  BY <1>2, ProductGrows
<1>5. ~(k + 3 <= 3) /\ (k + 3) - 3 = k
  OBVIOUS
<1> QED
  BY <1>1, <1>3, <1>4, <1>5 DEF BitsToTarget

(* Writing one: the mantissa is the target's leading digits, one fewer if they
   reach the sign. *)
LEMMA Writes ==
  ASSUME NEW n \in Nat, MantissaEnd <= n, n < Power[MaxDigits - 1]
  PROVE  \E k \in 1..(MaxDigits - 3) :
           /\ Compact(BigToCompact(n), n \div Power[k], k)
           /\ k <= Digits(n) - 2
<1> USE NextWorkAssumption
<1>1. PICK d : d = Digits(n)
  OBVIOUS
<1>2. n > 0 /\ MaxDigits - 1 \in 0..MaxDigits
  BY MantissaFacts
<1>3. d \in 1..(MaxDigits - 1) /\ Power[d - 1] <= n /\ n < Power[d]
  BY <1>1, <1>2, DigitsBound
<1>4. d >= 4
  <2> SUFFICES ASSUME d <= 3 PROVE FALSE
    BY <1>3
  <2>1. d \in Nat /\ Power[d] <= Power[3]
    BY <1>3, PowerGrows, PowerType
  <2> QED
    BY <1>3, <2>1, PowerType, MantissaFacts
<1>5. PICK k : k = d - 3
  OBVIOUS
<1>6. k \in 1..(MaxDigits - 4) /\ k \in Nat /\ k + 1 \in Nat /\ d = k + 3
  BY <1>3, <1>4, <1>5
<1>7. PICK p \in Nat \ {0} : p = Power[k]
  BY <1>6, PowerType
<1>8. Power[k + 1] = Base * p /\ Power[d - 1] = Power[2] * p /\ Power[d] = MantissaEnd * p
  <2>1. Power[2 + k] = Power[2] * Power[k] /\ Power[3 + k] = Power[3] * Power[k]
    BY <1>6, PowerAdds
  <2>2. 2 + k = d - 1 /\ 3 + k = d
    BY <1>6
  <2> QED
    BY <1>6, <1>7, <2>1, <2>2, PowerSteps, MantissaFacts
<1>9. PICK m \in Nat : m = n \div p /\ p * m <= n /\ n < p * m + p
  BY <1>7, Division
<1>10. p >= Base
  BY <1>6, <1>7, PowerSteps, PowerGrows, PowerType
<1>11. Power[2] <= m /\ m < MantissaEnd
  BY <1>3, <1>7, <1>8, <1>9, ProductGrows, MantissaFacts
<1>12. BigToCompact(n) = IF m >= SignBit THEN ((k + 1) + 3) * MantissaEnd + m \div Base
                         ELSE (k + 3) * MantissaEnd + m
  <2>1. d - 3 = k /\ ~(d <= 3) /\ d + 1 = (k + 1) + 3 /\ n \div Power[d - 3] = m
    BY <1>6, <1>7, <1>9
  <2>2. BigToCompact(n) = IF m >= SignBit THEN (d + 1) * MantissaEnd + m \div Base
                          ELSE d * MantissaEnd + m
    BY <1>1, <2>1 DEF BigToCompact
  <2> QED
    BY <1>6, <2>1, <2>2
<1>13. CASE m < SignBit
  <2>1. BigToCompact(n) = (k + 3) * MantissaEnd + m
    BY <1>12, <1>13, MantissaFacts
  <2>2. m \in (SignBit \div Base)..(SignBit - 1) /\ m \in 0..(SignBit - 1)
    BY <1>11, <1>13, MantissaFacts
  <2>3. m * p >= MantissaEnd
    BY <1>10, <1>11, MantissaFacts, ProductGrows
  <2>4. Compact(BigToCompact(n), m, k)
    BY <1>6, <1>7, <2>1, <2>2, <2>3, ReadsBack DEF Compact
  <2> QED
    BY <1>1, <1>6, <1>7, <1>9, <2>4
<1>14. CASE m >= SignBit
  <2>1. PICK l \in Nat : l = m \div Base /\ Base * l <= m /\ m < Base * l + Base
    <3>1. Base \in Nat \ {0}
      OBVIOUS
    <3> QED
      BY <3>1, Division
  <2>2. l = n \div Power[k + 1]
    <3>1. (Base * p) * l <= n /\ n < (Base * p) * l + Base * p
      <4>1. PICK b \in Nat : b = Base * l
        OBVIOUS
      <4>2. (Base * p) * l = p * b /\ (b + Base) * p = p * b + Base * p /\ p * b \in Nat /\ Base * p \in Nat
        BY <4>1
      <4>3. b * p <= m * p /\ m * p + p <= (b + Base) * p
        BY <2>1, <4>1, ProductGrows
      <4>4. b * p = p * b /\ m * p = p * m /\ p * m \in Nat
        OBVIOUS
      <4> QED
        BY <1>9, <4>2, <4>3, <4>4
    <3>2. Base * p \in Nat \ {0}
      BY <1>7
    <3>3. PICK q \in Nat \ {0}, a \in Nat, r \in Nat : q = Base * p /\ a = q * l /\ r = n - a /\ n = a + r /\ r < q
      BY <3>1, <3>2
    <3>4. n \div q = l
      BY <3>3, DivisionIs
    <3> QED
      BY <1>8, <3>3, <3>4
  <2>3. l \in (SignBit \div Base)..(SignBit - 1) /\ l \in 0..(SignBit - 1)
    <3>1. SignBit \div Base <= l
      BY <1>14, <2>1, MantissaFacts
    <3>2. l < SignBit
      BY <1>11, <2>1, MantissaFacts
    <3> QED
      BY <3>1, <3>2, MantissaFacts
  <2>4. BigToCompact(n) = ((k + 1) + 3) * MantissaEnd + l
    BY <1>12, <1>14, <2>1
  <2>5. l * Power[k + 1] >= MantissaEnd
    BY <1>6, <1>7, <1>8, <1>10, <2>3, MantissaFacts, ProductGrows
  <2>6. k + 1 \in 1..(MaxDigits - 3) /\ k + 1 \in Nat \ {0}
    BY <1>6
  <2>7. Compact(BigToCompact(n), l, k + 1)
    BY <2>3, <2>4, <2>5, <2>6, ReadsBack DEF Compact
  <2> QED
    BY <1>1, <1>6, <2>2, <2>6, <2>7
<1> QED
  BY <1>9, <1>13, <1>14, MantissaFacts

(* What has the form of a compact number is one. *)
LEMMA CompactIsCanonical ==
  ASSUME NEW c, NEW m, NEW k, Compact(c, m, k)
  PROVE  Canonical(c) /\ c % MantissaEnd = m
<1> USE NextWorkAssumption
<1>1. m \in Nat /\ m < MantissaEnd /\ k \in Nat /\ k + 3 \in Nat /\ MantissaEnd \in Nat \ {0}
  BY MantissaFacts DEF Compact
<1>2. c = MantissaEnd * (k + 3) + m
  BY <1>1, ProductGrows DEF Compact
<1>3. c % MantissaEnd = m /\ c \in Nat
  <2>1. PICK M \in Nat \ {0}, e \in Nat : M = MantissaEnd /\ e = k + 3
    BY <1>1
  <2>2. (M * e + m) % M = m /\ M * e + m \in Nat
    BY <1>1, <2>1, DivisionIs
  <2> QED
    BY <1>2, <2>1, <2>2
<1> QED
  BY <1>3 DEF Canonical, Compact

(* A compact number is written back as it was read. *)
LEMMA WritesBack ==
  ASSUME NEW c, Canonical(c), BitsToTarget(c) < Power[MaxDigits - 1]
  PROVE  \E k \in 1..(MaxDigits - 3) :
           /\ Compact(c, c % MantissaEnd, k)
           /\ BigToCompact(BitsToTarget(c)) = c
<1> USE NextWorkAssumption
<1>1. PICK m, e : m = c % MantissaEnd /\ e = c \div MantissaEnd
  OBVIOUS
<1>2. /\ m \in (SignBit \div Base)..(SignBit - 1) /\ m \in 0..(SignBit - 1) /\ m \in Nat /\ m < MantissaEnd
      /\ e \in Nat /\ c = MantissaEnd * e + m /\ MantissaEnd \in Nat \ {0}
  <2>1. c \in Nat /\ MantissaEnd \in Nat \ {0}
    BY MantissaFacts DEF Canonical
  <2>2. e \in Nat /\ c = MantissaEnd * e + m
    BY <1>1, <2>1, Division
  <2>3. m \in (SignBit \div Base)..(SignBit - 1)
    BY <1>1 DEF Canonical
  <2>4. m \in 0..(SignBit - 1) /\ m \in Nat /\ m < MantissaEnd
    BY <2>3, MantissaFacts
  <2> QED
    BY <2>1, <2>2, <2>3, <2>4
<1>3. e > 3
  <2> SUFFICES ASSUME e <= 3 PROVE FALSE
    BY <1>2
  <2>1. BitsToTarget(c) = m \div Power[3 - e]
    BY <1>1 DEF BitsToTarget
  <2>2. PICK p \in Nat \ {0} : p = Power[3 - e]
    BY <1>2, PowerType
  <2>3. m \div p \in Nat /\ p * (m \div p) <= m
    BY <1>2, <2>2, Division
  <2>4. m \div p <= m
    BY <1>2, <2>2, <2>3, ProductGrows
  <2>5. BitsToTarget(c) >= MantissaEnd
    BY DEF Canonical
  <2> QED
    BY <1>2, <2>1, <2>2, <2>3, <2>4, <2>5
<1>4. PICK k \in Nat \ {0} : e = k + 3
  BY <1>2, <1>3
<1>5. c = (k + 3) * MantissaEnd + m
  BY <1>2, <1>4, ProductGrows
<1>6. PICK t : t = BitsToTarget(c)
  OBVIOUS
<1>7. PICK p \in Nat \ {0} : p = Power[k]
  BY PowerType
<1>8. t = m * p /\ t \in Nat /\ t >= MantissaEnd
  <2>1. t = m * p
    BY <1>2, <1>5, <1>6, <1>7, ReadsBack
  <2> QED
    BY <1>2, <1>6, <2>1 DEF Canonical
<1>9. PICK d : d = Digits(t)
  OBVIOUS
<1>10. d \in 1..(MaxDigits - 1) /\ Power[d - 1] <= t /\ t < Power[d]
  <2>1. 0 < t /\ MaxDigits - 1 \in 0..MaxDigits
    BY <1>8, MantissaFacts
  <2> QED
    BY <1>6, <1>8, <1>9, <2>1, DigitsBound
<1>11. /\ Power[k + 1] = Base * p /\ Power[k + 2] = Power[2] * p /\ Power[k + 3] = MantissaEnd * p
       /\ Power[k - 1] \in Nat \ {0} /\ p = Base * Power[k - 1]
  <2>1. Power[2 + k] = Power[2] * Power[k] /\ Power[3 + k] = Power[3] * Power[k] /\ k - 1 \in Nat
    BY PowerAdds
  <2>2. Power[(k - 1) + 1] = Base * Power[k - 1]
    BY <2>1, PowerSteps
  <2> QED
    BY <1>7, <2>1, <2>2, PowerSteps, PowerType, MantissaFacts
<1>12. CASE m >= Power[2]
  <2>1. Power[k + 2] <= t /\ t < Power[k + 3]
    BY <1>2, <1>7, <1>8, <1>11, <1>12, ProductGrows, MantissaFacts
  <2>2. k + 3 <= MaxDigits
    <3> SUFFICES ASSUME k + 2 >= MaxDigits PROVE FALSE
      OBVIOUS
    <3>1. MaxDigits - 1 \in Nat /\ Power[MaxDigits - 1] \in Nat /\ Power[k + 2] \in Nat
      BY PowerType
    <3>2. Power[MaxDigits - 1] < Power[k + 2]
      BY <3>1, PowerGrows
    <3> QED
      BY <1>6, <1>8, <2>1, <3>1, <3>2
  <2>3. d = k + 3
    BY <1>8, <1>9, <2>1, <2>2, DigitsAre
  <2>4. t \div p = m
    BY <1>2, <1>7, <1>8, ExactDivision
  <2>5. BigToCompact(t) = d * MantissaEnd + m
    <3>1. d - 3 = k /\ ~(d <= 3) /\ t \div Power[d - 3] = m /\ ~(m >= SignBit)
      BY <1>2, <1>7, <2>3, <2>4, MantissaFacts
    <3> QED
      BY <1>9, <3>1 DEF BigToCompact
  <2>6. k \in 1..(MaxDigits - 3)
    BY <2>2
  <2> QED
    BY <1>1, <1>2, <1>5, <1>6, <1>7, <1>8, <2>3, <2>5, <2>6 DEF Compact
<1>13. CASE m < Power[2]
  <2>1. PICK q \in Nat \ {0} : q = Power[k - 1]
    BY <1>11
  <2>2. t = (m * Base) * q /\ Power[k + 1] = (Base * Base) * q
    <3>1. m * (Base * q) = (m * Base) * q /\ Base * (Base * q) = (Base * Base) * q
      BY <1>2
    <3> QED
      BY <1>8, <1>11, <2>1, <3>1
  <2>3. m * Base \in Nat /\ SignBit <= m * Base
    BY <1>2, MantissaFacts, ProductGrows
  <2>4. Power[k + 1] <= t
    <3>1. Base * Base <= m * Base
      BY <2>3, MantissaFacts
    <3> QED
      BY <2>1, <2>2, <2>3, <3>1, ProductGrows
  <2>5. t < Power[k + 2]
    BY <1>2, <1>7, <1>8, <1>11, <1>13, ProductGrows, MantissaFacts
  <2>6. k + 2 <= MaxDigits - 1
    <3> SUFFICES ASSUME k + 1 >= MaxDigits - 1 PROVE FALSE
      OBVIOUS
    <3>1. MaxDigits - 1 \in Nat /\ Power[MaxDigits - 1] \in Nat /\ Power[k + 1] \in Nat
      BY PowerType
    <3>2. Power[MaxDigits - 1] <= Power[k + 1]
      BY <3>1, PowerGrows
    <3> QED
      BY <1>6, <1>8, <2>4, <3>1, <3>2
  <2>7. d = k + 2
    BY <1>8, <1>9, <2>4, <2>5, <2>6, DigitsAre
  <2>8. k # 1
    <3> SUFFICES ASSUME k = 1 PROVE FALSE
      OBVIOUS
    <3>1. k + 2 = 3
      OBVIOUS
    <3>2. Power[k + 2] = MantissaEnd /\ MantissaEnd \in Nat
      BY <3>1, MantissaFacts
    <3> QED
      BY <1>8, <2>5, <3>2
  <2>9. t \div q = m * Base /\ (m * Base) \div Base = m
    BY <1>2, <2>1, <2>2, <2>3, ExactDivision
  <2>10. BigToCompact(t) = (d + 1) * MantissaEnd + m
    <3>1. d - 3 = k - 1 /\ ~(d <= 3) /\ t \div Power[d - 3] = m * Base /\ m * Base >= SignBit
      BY <2>1, <2>3, <2>7, <2>8, <2>9, MantissaFacts
    <3> QED
      BY <1>9, <2>9, <3>1 DEF BigToCompact
  <2>11. k \in 1..(MaxDigits - 3) /\ d + 1 = k + 3
    BY <2>6, <2>7
  <2> QED
    BY <1>1, <1>2, <1>5, <1>6, <1>7, <1>8, <2>10, <2>11 DEF Compact
<1> QED
  BY <1>2, <1>12, <1>13, MantissaFacts

(* Nothing that a compact number can express lies between it and the target it
   was made of: a shorter mantissa has fewer multiples, a longer one does not reach. *)
LEMMA LargestBelow ==
  ASSUME NEW n \in Nat, NEW k \in Nat \ {0}, n \div Power[k] >= SignBit \div Base,
         NEW j \in Nat, NEW a \in 0..(SignBit - 1), a * Power[j] <= n
  PROVE  a * Power[j] <= (n \div Power[k]) * Power[k]
<1> USE NextWorkAssumption
<1>1. PICK p \in Nat \ {0}, q \in Nat \ {0} : p = Power[k] /\ q = Power[j]
  BY PowerType
<1>2. PICK m \in Nat : m = n \div p /\ p * m <= n /\ n < p * m + p
  BY <1>1, Division
<1>3. a \in Nat
  BY MantissaFacts
<1>4. CASE j >= k
  <2>1. PICK r \in Nat : q = p * r
    <3>1. j - k \in Nat /\ j = k + (j - k)
      BY <1>4
    <3>2. Power[j] = Power[k] * Power[j - k] /\ Power[j - k] \in Nat
      BY <3>1, PowerAdds, PowerType
    <3> QED
      BY <1>1, <3>2
  <2>2. PICK b \in Nat : b = a * r
    BY <1>3
  <2>3. a * q = b * p
    BY <1>3, <2>1, <2>2
  <2>4. b <= m
    <3> SUFFICES ASSUME m < b PROVE FALSE
      BY <1>2
    <3>1. m * p + p <= b * p /\ m * p = p * m /\ b * p \in Nat /\ m * p \in Nat
      BY ProductGrows
    <3> QED
      BY <1>1, <1>2, <2>3, <3>1
  <2>5. b * p <= m * p
    BY <2>4, ProductGrows
  <2> QED
    BY <1>1, <1>2, <2>3, <2>5
<1>5. CASE j < k
  <2>1. PICK r \in Nat \ {0} : r = Power[k - 1] /\ p = Base * r
    <3>1. k - 1 \in Nat /\ (k - 1) + 1 = k
      OBVIOUS
    <3> QED
      BY <1>1, <3>1, PowerSteps, PowerType
  <2>2. q <= r
    <3>1. k - 1 \in Nat /\ (j = k - 1 \/ j < k - 1)
      BY <1>5
    <3> QED
      BY <1>1, <2>1, <3>1, PowerGrows, PowerType
  <2>3. a * q <= SignBit * q /\ SignBit * q <= SignBit * r /\ SignBit * r \in Nat /\ a * q \in Nat /\ SignBit * q \in Nat
    BY <1>3, <2>2, ProductGrows, MantissaFacts
  <2>4. PICK s \in Nat : s = SignBit \div Base /\ SignBit = Base * s /\ s <= m
    BY <1>1, <1>2, MantissaFacts
  <2>5. SignBit * r = s * p
    BY <2>1, <2>4
  <2>6. s * p <= m * p /\ m * p \in Nat
    BY <2>4, ProductGrows
  <2> QED
    BY <1>1, <1>2, <2>3, <2>5, <2>6
<1> QED
  BY <1>4, <1>5

(* So a target is rounded down, and no further than it must. *)
LEMMA RoundsDown ==
  ASSUME NEW n \in Nat, MantissaEnd <= n, n < Power[MaxDigits - 1]
  PROVE  BitsToTarget(BigToCompact(n)) = RoundedDown(n)
<1> USE NextWorkAssumption
<1>1. PICK k \in 1..(MaxDigits - 3) : Compact(BigToCompact(n), n \div Power[k], k)
  BY Writes
<1>2. PICK p \in Nat \ {0} : p = Power[k]
  BY PowerType
<1>3. PICK m \in Nat : m = n \div p /\ m \in (SignBit \div Base)..(SignBit - 1)
  BY <1>1, <1>2, Division DEF Compact
<1>4. PICK t : t = m * p
  OBVIOUS
<1>5. BitsToTarget(BigToCompact(n)) = t /\ t \in Nat
  BY <1>1, <1>2, <1>3, <1>4 DEF Compact
<1>6. t \in Expressible(n)
  <2>1. t % p = 0 /\ t \div p = m
    BY <1>2, <1>3, <1>4, ExactDivision
  <2>2. k \in 0..(MaxDigits - 3) /\ m < SignBit
    BY <1>3, MantissaFacts
  <2> QED
    BY <1>2, <1>3, <1>4, <2>1, <2>2 DEF Expressible
<1>7. ASSUME NEW s \in Expressible(n) PROVE s \in Nat /\ s <= t
  <2>1. PICK i \in 0..(MaxDigits - 3) : s = (n \div Power[i]) * Power[i]
    BY DEF Expressible
  <2>2. PICK j \in 0..(MaxDigits - 3) : s % Power[j] = 0 /\ s \div Power[j] < SignBit
    BY DEF Expressible
  <2>3. s \in Nat /\ s <= n
    <3>1. Power[i] \in Nat \ {0}
      BY PowerType
    <3> QED
      BY <2>1, <3>1, Division, ProductGrows
  <2>4. PICK q \in Nat \ {0} : q = Power[j]
    BY PowerType
  <2>5. PICK a \in Nat : a = s \div q /\ s = a * q
    <3>1. PICK a \in Nat : a = s \div q /\ s = q * a + (s % q)
      BY <2>3, <2>4, Division
    <3>2. s % q = 0
      BY <2>2, <2>4
    <3> QED
      BY <3>1, <3>2, ProductGrows
  <2>6. a \in 0..(SignBit - 1)
    <3>1. a < SignBit
      BY <2>2, <2>4, <2>5
    <3> QED
      BY <3>1, MantissaFacts
  <2>7. a * Power[j] <= (n \div Power[k]) * Power[k]
    <3>1. j \in Nat /\ k \in Nat \ {0}
      OBVIOUS
    <3>2. a * Power[j] <= n
      BY <2>3, <2>4, <2>5
    <3>3. n \div Power[k] >= SignBit \div Base
      BY <1>2, <1>3, MantissaFacts
    <3> QED
      BY <2>6, <3>1, <3>2, <3>3, LargestBelow
  <2> QED
    BY <1>2, <1>3, <1>4, <2>3, <2>4, <2>5, <2>7
<1>8. \A s \in Expressible(n) : s <= t
  BY <1>7
<1>9. \A u \in Expressible(n) : (\A s \in Expressible(n) : s <= u) => u = t
  BY <1>5, <1>6, <1>7
<1> QED
  BY <1>5, <1>6, <1>8, <1>9 DEF RoundedDown

-----------------------------------------------------------------------------
(* One retarget. *)

LEMMA TimespanBounds ==
  ASSUME NEW dt \in Int
  PROVE  /\ ModulatedTimespan(dt) \in 45..90
         /\ dt \in 53..67 => ModulatedTimespan(dt) = 60
         /\ dt > 67 => ModulatedTimespan(dt) >= 61
         /\ dt < 53 => ModulatedTimespan(dt) <= 59
<1>1. PICK a \in Int : a = IF dt < 1 THEN 1 ELSE dt
  OBVIOUS
<1>2. PICK q \in Int : q = Quotient(a - 60, 8)
  BY DEF Quotient
<1>3. /\ a \in 53..67 => q = 0
      /\ a > 67 => q >= 1
      /\ a < 53 => q <= -1
  BY <1>2 DEF Quotient
<1>4. ModulatedTimespan(dt) = IF 60 + q < 45 THEN 45 ELSE IF 60 + q > 90 THEN 90 ELSE 60 + q
  BY <1>1, <1>2 DEF ModulatedTimespan, RetargetTimespan
<1> QED
  BY <1>1, <1>3, <1>4

LEMMA TargetType == \A b \in Nat : BitsToTarget(b) \in Nat
<1> SUFFICES ASSUME NEW b \in Nat PROVE BitsToTarget(b) \in Nat
  OBVIOUS
<1>1. MantissaEnd \in Nat \ {0}
  BY MantissaFacts
<1>2. PICK e \in Nat, m \in Nat : e = b \div MantissaEnd /\ m = b % MantissaEnd
  <2>1. b \div MantissaEnd \in Nat /\ b % MantissaEnd \in 0..(MantissaEnd - 1)
    BY <1>1, Division
  <2> QED
    BY <1>1, <2>1
<1>3. CASE e <= 3
  <2>1. Power[3 - e] \in Nat \ {0}
    BY <1>3, PowerType
  <2>2. m \div Power[3 - e] \in Nat
    BY <2>1, Division
  <2> QED
    BY <1>2, <1>3, <2>2 DEF BitsToTarget
<1>4. CASE e > 3
  <2>1. Power[e - 3] \in Nat
    BY <1>4, PowerType
  <2>2. m * Power[e - 3] \in Nat
    BY <2>1
  <2> QED
    BY <1>2, <1>4, <2>2 DEF BitsToTarget
<1> QED
  BY <1>2, <1>3, <1>4

LEMMA LimitFacts ==
  /\ PowLimit \in Nat /\ MantissaEnd <= PowLimit /\ PowLimit < Power[MaxDigits - 1]
  /\ MaxDigits - 1 \in Nat /\ Power[MaxDigits - 1] \in Nat
<1>1. PICK t : t = BitsToTarget(PowLimitCompact)
  OBVIOUS
<1>2. t \in Nat
  BY <1>1, TargetType, NextWorkAssumption
<1>3. t >= MantissaEnd /\ t <= PowLimit
  BY <1>1, TargetAssumption DEF Canonical
<1>4. MaxDigits - 1 \in Nat
  BY NextWorkAssumption
<1> QED
  BY <1>2, <1>3, <1>4, NextWorkAssumption, TargetAssumption, MantissaFacts, PowerType

(* The retarget keeps within a quarter below and a half above, or at the limit, and
   what it makes of a target that is long enough keeps its exponent. *)
LEMMA NextTarget ==
  ASSUME NEW b \in Nat, NEW dt \in Int, 3 * BitsToTarget(b) >= 4 * MantissaEnd
  PROVE  \E n \in Nat, w \in 45..90 :
           /\ n = DigishieldTarget(b, dt) /\ w = ModulatedTimespan(dt)
           /\ DigishieldNextWork(b, dt) = BigToCompact(n)
           /\ MantissaEnd <= n /\ n <= PowLimit /\ n < Power[MaxDigits - 1]
           /\ 60 * n <= BitsToTarget(b) * w
           /\ n = PowLimit \/ BitsToTarget(b) * w < 60 * n + 60
<1>1. PICK t \in Nat : t = BitsToTarget(b)
  BY TargetType
<1>2. PICK w \in 45..90 : w = ModulatedTimespan(dt)
  BY TimespanBounds
<1>3. PICK c \in Nat : c = t * w
  OBVIOUS
<1>4. 45 * t <= c
  BY <1>3, ProductGrows
<1>5. PICK u \in Nat : u = c \div 60 /\ 60 * u <= c /\ c < 60 * u + 60
  OBVIOUS
<1>6. PICK n : n = IF u > PowLimit THEN PowLimit ELSE u
  OBVIOUS
<1>7. n = DigishieldTarget(b, dt)
  BY <1>1, <1>2, <1>3, <1>5, <1>6 DEF DigishieldTarget, RetargetTimespan
<1>8. MantissaEnd <= u
  BY <1>1, <1>4, <1>5, MantissaFacts
<1>9. n \in Nat /\ MantissaEnd <= n /\ n <= PowLimit /\ n < Power[MaxDigits - 1]
  BY <1>6, <1>8, LimitFacts, MantissaFacts
<1>10. 60 * n <= c /\ (n = PowLimit \/ c < 60 * n + 60)
  BY <1>5, <1>6, LimitFacts
<1>11. t # 0
  BY <1>1, MantissaFacts
<1>12. DigishieldNextWork(b, dt) = BigToCompact(n)
  BY <1>1, <1>7, <1>11 DEF DigishieldNextWork
<1> QED
  BY <1>1, <1>2, <1>3, <1>7, <1>9, <1>10, <1>12

(* Written as a compact number it is rounded down, by less than a digit of its
   mantissa, and is a compact number within the limit again. *)
LEMMA Rounded ==
  ASSUME NEW n \in Nat, MantissaEnd <= n, n < Power[MaxDigits - 1]
  PROVE  \E k \in Nat \ {0}, p \in Nat \ {0}, new \in Nat :
           /\ p = Power[k] /\ new = BitsToTarget(BigToCompact(n)) /\ k <= Digits(n) - 2
           /\ n \div p >= SignBit \div Base /\ n \div p <= SignBit - 1
           /\ new = (n \div p) * p /\ new <= n /\ n < new + p
           /\ Canonical(BigToCompact(n)) /\ new >= MantissaEnd
<1> USE NextWorkAssumption
<1>1. PICK k \in 1..(MaxDigits - 3) :
        Compact(BigToCompact(n), n \div Power[k], k) /\ k <= Digits(n) - 2
  BY Writes
<1>2. PICK p \in Nat \ {0} : p = Power[k]
  BY PowerType
<1>3. PICK m \in Nat : m = n \div p /\ p * m <= n /\ n < p * m + p
  BY <1>2, Division
<1>4. PICK new \in Nat : new = m * p
  OBVIOUS
<1>5. new = p * m
  BY <1>4, ProductGrows
<1>6. new = BitsToTarget(BigToCompact(n)) /\ m >= SignBit \div Base /\ m <= SignBit - 1 /\ new >= MantissaEnd
  <2>1. Compact(BigToCompact(n), m, k)
    BY <1>1, <1>2, <1>3
  <2>2. new = BitsToTarget(BigToCompact(n)) /\ new >= MantissaEnd
    BY <1>2, <1>4, <2>1 DEF Compact
  <2>3. m >= SignBit \div Base /\ m <= SignBit - 1
    BY <2>1, MantissaFacts DEF Compact
  <2> QED
    BY <2>2, <2>3
<1>7. Canonical(BigToCompact(n))
  BY <1>1, CompactIsCanonical
<1>8. k \in Nat \ {0} /\ k <= Digits(n) - 2
  BY <1>1
<1>9. n \div p = m /\ new = (n \div p) * p /\ new <= n /\ n < new + p
  BY <1>3, <1>4, <1>5
<1>10. n \div p >= SignBit \div Base /\ n \div p <= SignBit - 1
  BY <1>6, <1>9
<1> QED
  BY <1>2, <1>6, <1>7, <1>8, <1>9, <1>10, Zenon

(* The number of digits follows the number. *)
LEMMA FewerDigits ==
  ASSUME NEW n \in Nat, NEW old \in Nat, 0 < n, n < old, old < Power[MaxDigits - 1]
  PROVE  Digits(n) \in Nat /\ Digits(old) \in Nat /\ Digits(n) <= Digits(old)
<1> USE NextWorkAssumption
<1>1. MaxDigits - 1 \in 0..MaxDigits /\ Power[MaxDigits - 1] \in Nat /\ 0 < old /\ n < Power[MaxDigits - 1]
  BY LimitFacts
<1>2. PICK d \in Nat, e \in Nat : d = Digits(n) /\ e = Digits(old) /\ d >= 1
                                  /\ Power[d - 1] <= n /\ old < Power[e]
  <2>1. Digits(n) \in Nat /\ Digits(n) >= 1 /\ Power[Digits(n) - 1] <= n
    BY <1>1, DigitsBound
  <2>2. Digits(old) \in Nat /\ old < Power[Digits(old)]
    BY <1>1, DigitsBound
  <2> QED
    BY <2>1, <2>2
<1>3. ~(e < d)
  <2> SUFFICES ASSUME e < d PROVE FALSE
    OBVIOUS
  <2>1. d - 1 \in Nat /\ (e = d - 1 \/ e < d - 1)
    BY <1>2
  <2>2. Power[e] <= Power[d - 1] /\ Power[e] \in Nat /\ Power[d - 1] \in Nat
    BY <2>1, PowerGrows, PowerType
  <2> QED
    BY <1>2, <2>2
<1> QED
  BY <1>2, <1>3

(* How one retarget moves the target.  Rounding could undo the move; it does not,
   because the next larger target of the same length is already below the result
   of the division. *)
LEMMA RetargetMoves ==
  ASSUME NEW b, Canonical(b), BitsToTarget(b) <= PowLimit, 3 * BitsToTarget(b) >= 4 * MantissaEnd,
         NEW dt \in Int,
         NEW old, old = BitsToTarget(b),
         NEW next, next = DigishieldNextWork(b, dt),
         NEW new, new = BitsToTarget(next)
  PROVE  /\ 2 * new <= 3 * old /\ 4 * new >= 3 * old - 4 * Power[Digits(old) - 2]
         /\ dt \in 53..67 => next = b
         /\ dt > 67 => new > old \/ new = BitsToTarget(BigToCompact(PowLimit))
         /\ dt < 53 => new < old
<1> USE NextWorkAssumption
<1>1. b \in Nat /\ old \in Nat /\ MantissaEnd <= old /\ old <= PowLimit /\ old < Power[MaxDigits - 1]
  <2>1. b \in Nat /\ old >= MantissaEnd
    BY DEF Canonical
  <2>2. old \in Nat
    BY <2>1, TargetType
  <2> QED
    BY <2>1, <2>2, LimitFacts, MantissaFacts
<1>2. PICK j \in 1..(MaxDigits - 3) : Compact(b, b % MantissaEnd, j) /\ BigToCompact(old) = b
  BY <1>1, WritesBack
<1>3. PICK q \in Nat \ {0} : q = Power[j]
  BY PowerType
<1>4. PICK m \in Nat : m >= SignBit \div Base /\ m <= SignBit - 1 /\ m >= 72 /\ old = m * q
  BY <1>2, <1>3, MantissaFacts DEF Compact
<1>5. PICK n \in Nat, w \in 45..90 :
        /\ w = ModulatedTimespan(dt) /\ next = BigToCompact(n)
        /\ MantissaEnd <= n /\ n <= PowLimit /\ n < Power[MaxDigits - 1]
        /\ 60 * n <= old * w
        /\ n = PowLimit \/ old * w < 60 * n + 60
  <2>1. PICK n \in Nat, w \in 45..90 :
          /\ n = DigishieldTarget(b, dt) /\ w = ModulatedTimespan(dt)
          /\ DigishieldNextWork(b, dt) = BigToCompact(n)
          /\ MantissaEnd <= n /\ n <= PowLimit /\ n < Power[MaxDigits - 1]
          /\ 60 * n <= BitsToTarget(b) * w
          /\ n = PowLimit \/ BitsToTarget(b) * w < 60 * n + 60
    BY <1>1, NextTarget
  <2> QED
    BY <2>1, Zenon
<1>6. PICK k \in Nat \ {0}, p \in Nat \ {0} :
        /\ p = Power[k] /\ k <= Digits(n) - 2 /\ n \div p >= SignBit \div Base
        /\ new \in Nat /\ new = (n \div p) * p /\ new <= n /\ n < new + p
  BY <1>5, Rounded
<1>7. PICK c \in Nat : c = old * w
  BY <1>1
<1>8. 45 * old <= c /\ c <= 90 * old
  BY <1>1, <1>7, ProductGrows
<1>9. 2 * new <= 3 * old
  BY <1>1, <1>5, <1>6, <1>7, <1>8
<1>10. ASSUME NEW i \in Nat, NEW a \in 0..(SignBit - 1), a * Power[i] <= n
       PROVE  a * Power[i] <= new
  BY <1>6, <1>10, LargestBelow
<1>11. m \in 0..(SignBit - 1)
  BY <1>4, MantissaFacts
<1>12. 4 * new >= 3 * old - 4 * Power[Digits(old) - 2]
  <2>1. Digits(n) \in Nat /\ Digits(old) \in Nat /\ Digits(n) >= 3 /\ Digits(old) >= 2
        /\ (n < old => Digits(n) <= Digits(old))
    <3>1. 0 < n /\ 0 < old /\ MaxDigits - 1 \in 0..MaxDigits
      BY <1>1, <1>5, MantissaFacts
    <3>2. Digits(n) \in Nat
      BY <1>5, <3>1, DigitsBound
    <3>3. Digits(old) \in Nat
      BY <1>1, <3>1, DigitsBound
    <3>4. Digits(old) >= 2
      <4>1. PICK i \in 1..(MaxDigits - 3) : i <= Digits(old) - 2
        BY <1>1, Writes
      <4> QED
        BY <3>3, <4>1
    <3>5. n < old => Digits(n) <= Digits(old)
      BY <1>1, <3>1, FewerDigits
    <3> QED
      BY <1>6, <3>2, <3>3, <3>4, <3>5
  <2>2. PICK s \in Nat : s = Power[Digits(old) - 2]
    <3>1. Digits(old) - 2 \in Nat
      BY <2>1
    <3> QED
      BY <3>1, PowerType
  <2>3. CASE n >= old
    <3>1. m * Power[j] <= n
      BY <1>3, <1>4, <2>3
    <3>2. old <= new
      BY <1>3, <1>4, <1>10, <1>11, <3>1
    <3> QED
      BY <1>1, <1>6, <2>2, <3>2
  <2>4. CASE n < old
    <3>1. c < 60 * n + 60
      BY <1>1, <1>5, <1>7, <2>4, LimitFacts
    <3>2. 3 * old <= 4 * n + 3
      BY <1>1, <1>5, <1>7, <1>8, <3>1
    <3>3. p <= s
      <4>1. k <= Digits(old) - 2 /\ Digits(old) - 2 \in Nat
        BY <1>6, <2>1, <2>4
      <4>2. k = Digits(old) - 2 \/ k < Digits(old) - 2
        BY <4>1
      <4> QED
        BY <1>6, <2>2, <4>1, <4>2, PowerGrows
    <3> QED
      BY <1>1, <1>5, <1>6, <2>2, <3>2, <3>3
  <2> QED
    BY <1>1, <1>5, <2>3, <2>4
<1>13. ASSUME dt \in 53..67 PROVE next = b
  <2>1. w = 60
    BY <1>5, <1>13, TimespanBounds
  <2>2. c = 60 * old
    BY <1>1, <1>7, <2>1
  <2>3. n = old
    BY <1>1, <1>5, <1>7, <2>2, LimitFacts
  <2> QED
    BY <1>2, <1>5, <2>3
<1>14. ASSUME dt > 67 PROVE new > old \/ new = BitsToTarget(BigToCompact(PowLimit))
  <2> SUFFICES ASSUME n # PowLimit PROVE new > old
    BY <1>5
  <2>1. w >= 61
    BY <1>5, <1>14, TimespanBounds
  <2>2. 61 * old <= c /\ c < 60 * n + 60
    BY <1>1, <1>5, <1>7, <2>1, ProductGrows
  <2>3. PICK r \in Nat : r = (m + 1) * q /\ r = old + q /\ 72 * q <= old
    BY <1>4
  <2>4. r <= n /\ r > old
    BY <1>1, <1>5, <2>2, <2>3
  <2>5. CASE m + 1 <= SignBit - 1
    <3>1. m + 1 \in 0..(SignBit - 1) /\ (m + 1) * Power[j] = r
      BY <1>3, <2>3, <2>5, MantissaFacts
    <3>2. r <= new
      BY <1>10, <2>4, <3>1
    <3> QED
      BY <1>1, <1>6, <2>3, <2>4, <3>2
  <2>6. CASE m + 1 = SignBit
    <3>1. PICK s \in Nat : s = SignBit \div Base /\ SignBit = Base * s /\ s \in 0..(SignBit - 1)
      BY MantissaFacts
    <3>2. j + 1 \in Nat /\ Power[j + 1] = Base * q
      BY <1>3, PowerSteps
    <3>3. s * (Base * q) = (Base * s) * q
      OBVIOUS
    <3>4. s * Power[j + 1] = r
      BY <2>3, <2>6, <3>1, <3>2, <3>3
    <3>5. r <= new
      BY <1>10, <2>4, <3>1, <3>2, <3>4
    <3> QED
      BY <1>1, <1>6, <2>3, <2>4, <3>5
  <2> QED
    BY <1>4, <2>5, <2>6, MantissaFacts
<1>15. ASSUME dt < 53 PROVE new < old
  <2>1. w <= 59
    BY <1>5, <1>15, TimespanBounds
  <2>2. c <= 59 * old
    BY <1>1, <1>7, <2>1, ProductGrows
  <2> QED
    BY <1>1, <1>5, <1>6, <1>7, <2>2, MantissaFacts
<1> QED
  BY <1>9, <1>12, <1>13, <1>14, <1>15

-----------------------------------------------------------------------------
(* The target is long enough for its retarget to keep its exponent, which the
   compact form loses below four digits. *)
TargetsLast == 3 * BitsToTarget(bits) >= 4 * MantissaEnd

(* A compact number within the limit. *)
Allowed(b) == Canonical(b) /\ BitsToTarget(b) <= PowLimit

BitsInv ==
  /\ network \in {"mainnet", "testnet"} /\ height \in 0..MaxHeight
  /\ gap \in Gap \cup {RetargetTimespan}
  /\ Allowed(bits) /\ (chainNonMin # 0 => Allowed(chainNonMin))
  /\ lastNonMin \in {0, chainNonMin}

LEMMA BitsInit == WorkInit => BitsInv
<1> SUFFICES ASSUME WorkInit PROVE BitsInv
  OBVIOUS
<1>1. network \in {"mainnet", "testnet"} /\ gap \in Gap \cup {RetargetTimespan}
  BY DEF WorkInit
<1>2. height \in 0..MaxHeight
  BY NextWorkAssumption DEF WorkInit
<1>3. Allowed(bits)
  BY TargetAssumption DEF WorkInit, Allowed
<1>4. chainNonMin \in {0, bits} /\ lastNonMin = 0
  BY DEF WorkInit
<1> QED
  BY <1>1, <1>2, <1>3, <1>4 DEF BitsInv

(* A retarget of a compact number within the limit makes another. *)
LEMMA RetargetAllowed ==
  ASSUME NEW b \in Nat, NEW dt \in Int, 3 * BitsToTarget(b) >= 4 * MantissaEnd
  PROVE  Allowed(DigishieldNextWork(b, dt))
<1>1. PICK n \in Nat :
        /\ DigishieldNextWork(b, dt) = BigToCompact(n)
        /\ MantissaEnd <= n /\ n <= PowLimit /\ n < Power[MaxDigits - 1]
  BY NextTarget
<1>2. PICK new \in Nat :
        new = BitsToTarget(BigToCompact(n)) /\ new <= n /\ Canonical(BigToCompact(n))
  BY <1>1, Rounded
<1> QED
  BY <1>1, <1>2, LimitFacts DEF Allowed

(* Whatever the rule demands is one of the bits it was given, or a retarget's. *)
LEMMA RuleAllowed ==
  ASSUME NEW net, NEW h, NEW b, NEW clock, NEW nonMin, NEW known, NEW dt \in Int,
         Allowed(b), nonMin # 0 => Allowed(nonMin), 3 * BitsToTarget(b) >= 4 * MantissaEnd
  PROVE  Allowed(NextWorkRequired(net, h, b, clock, nonMin, known, dt))
<1>1. PICK r : r = NextWorkRequired(net, h, b, clock, nonMin, known, dt)
  OBVIOUS
<1>2. \/ r = PowLimitCompact
      \/ nonMin # 0 /\ r = nonMin
      \/ r = b
      \/ r = DigishieldNextWork(b, dt)
  BY <1>1, Zenon DEF NextWorkRequired
<1>3. Allowed(PowLimitCompact)
  BY TargetAssumption DEF Allowed
<1>4. Allowed(DigishieldNextWork(b, dt))
  BY RetargetAllowed DEF Allowed, Canonical
<1> QED
  BY <1>1, <1>2, <1>3, <1>4, Zenon

LEMMA BitsStep ==
  ASSUME BitsInv, TargetsLast, [WorkNext]_workVars
  PROVE  BitsInv'
<1> USE DEF BitsInv
<1>1. gap \in Int
  BY NextWorkAssumption DEF RetargetTimespan
<1>2. CASE Grow
  <2>1. PICK dt \in Gap : \E b \in IF height < DigishieldStart THEN FirstBits ELSE {ChainBits(dt)} :
          bits' = b /\ gap' = dt /\ chainNonMin' = Carried(chainNonMin, b) /\ Follow(b)
    BY <1>2 DEF Grow
  <2>2. PICK b \in IF height < DigishieldStart THEN FirstBits ELSE {ChainBits(dt)} :
          bits' = b /\ gap' = dt /\ chainNonMin' = Carried(chainNonMin, b) /\ Follow(b)
    BY <2>1
  <2>3. Allowed(b)
    <3>1. Allowed(ChainBits(dt))
      BY <1>1, RuleAllowed DEF ChainBits, TargetsLast
    <3>2. \A f \in FirstBits : Allowed(f)
      BY TargetAssumption DEF Allowed
    <3> QED
      BY <3>1, <3>2
  <2>4. chainNonMin' # 0 => Allowed(chainNonMin')
    BY <2>2, <2>3 DEF Carried
  <2>5. lastNonMin' \in {0, chainNonMin'}
    BY <2>2 DEF Carried, Follow
  <2>6. height' \in 0..MaxHeight /\ network' = network
    BY <1>2, NextWorkAssumption DEF Grow
  <2>7. Allowed(bits)' /\ (chainNonMin # 0 => Allowed(chainNonMin))'
    BY <2>2, <2>3, <2>4 DEF Allowed, Canonical, BitsToTarget
  <2> QED
    BY <2>2, <2>5, <2>6, <2>7
<1>3. ASSUME NEW seed \in BOOLEAN, Restart(seed) PROVE BitsInv'
  <2>1. UNCHANGED chainVars /\ lastNonMin' \in {0, lastNonMin}
    BY <1>3 DEF Restart
  <2> QED
    BY <2>1 DEF chainVars, Allowed, Canonical, BitsToTarget
<1>4. CASE UNCHANGED workVars
  BY <1>4 DEF workVars, chainVars, Allowed, Canonical, BitsToTarget
<1> QED
  BY <1>2, <1>3, <1>4 DEF WorkNext

(* As long as targets keep their exponent the chain's bits are compact numbers of a
   target that the network allows, whatever the times on its headers, and the
   client's last bits above the minimum difficulty are the chain's or none. *)
THEOREM WorkTypesWhileTargetsLast == WorkSpec => ([]TargetsLast => []WorkTypeOK)
<1>1. ASSUME BitsInv, KnowInv PROVE WorkTypeOK
  <2>1. bits \in Nat /\ BitsToTarget(bits) >= MantissaEnd /\ BitsToTarget(bits) <= PowLimit
    BY <1>1 DEF BitsInv, Allowed, Canonical
  <2>2. BitsToTarget(bits) \in 1..PowLimit
    BY <2>1, TargetType, MantissaFacts, LimitFacts
  <2>3. {tipKnown, parentKnown, informed} \subseteq BOOLEAN /\ headers \in 0..2
    BY <1>1, Zenon DEF KnowInv
  <2> QED
    BY <1>1, <2>1, <2>2, <2>3 DEF BitsInv, WorkTypeOK
<1> QED
  BY <1>1, KnowInit, KnowStep, BitsInit, BitsStep, PTL DEF WorkSpec

(* Bits are natural numbers whatever the target is. *)
LEMMA CompactType == \A n \in Nat : BigToCompact(n) \in Nat
<1> SUFFICES ASSUME NEW n \in Nat PROVE BigToCompact(n) \in Nat
  OBVIOUS
<1> USE NextWorkAssumption
<1>1. PICK d \in Nat : d = Digits(n)
  <2>1. IsFiniteSet(0..(MaxDigits - 1))
    BY FS_Interval
  <2>2. IsFiniteSet({k \in 0..(MaxDigits - 1) : Power[k] <= n})
    BY <2>1, FS_Subset
  <2> QED
    BY <2>2, FS_CardinalityType DEF Digits
<1>2. CASE d <= 3
  <2>1. PICK p \in Nat : p = Power[3 - d]
    BY <1>2, PowerType
  <2>2. n * p \in Nat
    OBVIOUS
  <2> QED
    BY <1>1, <1>2, <2>1, <2>2 DEF BigToCompact
<1>3. CASE d > 3
  <2>1. PICK p \in Nat \ {0} : p = Power[d - 3]
    BY <1>3, PowerType
  <2>2. PICK m \in Nat : m = n \div p
    BY Division
  <2>3. Base \in Nat \ {0} /\ MantissaEnd \in Nat
    BY MantissaFacts
  <2>4. m \div Base \in Nat /\ (d + 1) * MantissaEnd \in Nat /\ d * MantissaEnd \in Nat
    BY <2>3, Division
  <2>5. (d + 1) * MantissaEnd + m \div Base \in Nat /\ d * MantissaEnd + m \in Nat
    BY <2>4
  <2> QED
    BY <1>1, <1>3, <2>1, <2>2, <2>5 DEF BigToCompact
<1> QED
  BY <1>1, <1>2, <1>3

LEMMA RetargetType ==
  ASSUME NEW b \in Nat, NEW dt \in Int
  PROVE  DigishieldNextWork(b, dt) \in Nat
<1>1. PICK c \in Nat : c = BitsToTarget(b) * ModulatedTimespan(dt)
  BY TargetType, TimespanBounds
<1>2. DigishieldTarget(b, dt) \in Nat
  BY <1>1, NextWorkAssumption DEF DigishieldTarget, RetargetTimespan
<1> QED
  BY <1>2, CompactType DEF DigishieldNextWork

NatInv == bits \in Nat /\ chainNonMin \in Nat /\ gap \in Int

LEMMA NatInit == WorkInit => NatInv
BY NextWorkAssumption DEF WorkInit, NatInv, RetargetTimespan

LEMMA NatStep ==
  ASSUME NatInv, [WorkNext]_workVars
  PROVE  NatInv'
<1> USE NextWorkAssumption DEF NatInv
<1>1. CASE Grow
  <2>1. PICK dt \in Gap : \E b \in IF height < DigishieldStart THEN FirstBits ELSE {ChainBits(dt)} :
          bits' = b /\ gap' = dt /\ chainNonMin' = Carried(chainNonMin, b)
    BY <1>1 DEF Grow
  <2>2. PICK b \in IF height < DigishieldStart THEN FirstBits ELSE {ChainBits(dt)} :
          bits' = b /\ gap' = dt /\ chainNonMin' = Carried(chainNonMin, b)
    BY <2>1
  <2>3. ChainBits(dt) \in Nat
    BY RetargetType DEF ChainBits, NextWorkRequired
  <2>4. b \in Nat
    BY <2>3
  <2> QED
    BY <2>2, <2>4 DEF Carried
<1>2. CASE \E seed \in BOOLEAN : Restart(seed)
  BY <1>2 DEF Restart, chainVars
<1>3. CASE UNCHANGED workVars
  BY <1>3 DEF workVars, chainVars
<1> QED
  BY <1>1, <1>2, <1>3 DEF WorkNext

(* Whenever the target is long enough to keep its exponent, the retarget is the
   largest target a compact number can express that is not above the rule's, also
   where the mantissa runs into its sign or the limit cuts the target off, and it is
   written back as the bits it came from: for every base, limit and time. *)
THEOREM RetargetAlwaysExact == WorkSpec => [](TargetsLast => RetargetIsExact)
<1>1. ASSUME NatInv, TargetsLast, NEW dt \in Gap
      PROVE  /\ BitsToTarget(DigishieldNextWork(bits, dt)) = RoundedDown(DigishieldTarget(bits, dt))
             /\ BigToCompact(BitsToTarget(DigishieldNextWork(bits, dt))) = DigishieldNextWork(bits, dt)
  <2>1. dt \in Int
    BY NextWorkAssumption
  <2>2. PICK n \in Nat :
          /\ n = DigishieldTarget(bits, dt) /\ DigishieldNextWork(bits, dt) = BigToCompact(n)
          /\ MantissaEnd <= n /\ n <= PowLimit /\ n < Power[MaxDigits - 1]
    BY <1>1, <2>1, NextTarget DEF NatInv, TargetsLast
  <2>3. BitsToTarget(BigToCompact(n)) = RoundedDown(n)
    BY <2>2, RoundsDown
  <2>4. PICK new \in Nat :
          new = BitsToTarget(BigToCompact(n)) /\ new <= n /\ Canonical(BigToCompact(n))
    BY <2>2, Rounded
  <2>5. new < Power[MaxDigits - 1]
    BY <2>2, <2>4, LimitFacts
  <2>6. BigToCompact(new) = BigToCompact(n)
    BY <2>4, <2>5, WritesBack
  <2> QED
    BY <2>2, <2>3, <2>4, <2>6
<1>2. NatInv => (TargetsLast => RetargetIsExact)
  BY <1>1 DEF RetargetIsExact
<1> QED
  BY <1>2, NatInit, NatStep, PTL DEF WorkSpec

(* Under DigiShield a block moves the target by no more than a half up or a quarter
   down, not at all about a minute after its parent, up after more than that, unless
   it is at the limit, and down after less: rounding to a compact number never undoes
   a move, for any base of twelve or more and any limit. *)
THEOREM TargetAlwaysFollowsTime == WorkSpec => ([]TargetsLast => TargetFollowsTime)
<1>1. ASSUME BitsInv, NatInv, TargetsLast, [WorkNext]_workVars
      PROVE  [ height' # height /\ height >= DigishieldStart /\ network = "mainnet" =>
               LET old == BitsToTarget(bits)
                   new == BitsToTarget(bits')
                   limit == BitsToTarget(BigToCompact(PowLimit))
               IN /\ 2 * new <= 3 * old /\ 4 * new >= 3 * old - 4 * Power[Digits(old) - 2]
                  /\ gap \in 53..67 => bits' = bits
                  /\ gap > 67 => new > old \/ new = limit
                  /\ gap < 53 => new < old ]_workVars
  <2> SUFFICES ASSUME height' # height, height >= DigishieldStart, network = "mainnet"
               PROVE  LET old == BitsToTarget(bits)
                          new == BitsToTarget(bits')
                          limit == BitsToTarget(BigToCompact(PowLimit))
                      IN /\ 2 * new <= 3 * old /\ 4 * new >= 3 * old - 4 * Power[Digits(old) - 2]
                         /\ gap \in 53..67 => bits' = bits
                         /\ gap > 67 => new > old \/ new = limit
                         /\ gap < 53 => new < old
    OBVIOUS
  <2>1. Grow
    BY <1>1 DEF WorkNext, Restart, workVars, chainVars
  <2>2. ~(height < DigishieldStart)
    BY <1>1, NextWorkAssumption DEF BitsInv
  <2>3. \E dt \in Gap : bits' = ChainBits(dt)
    BY <2>1, <2>2 DEF Grow
  <2>4. bits' = DigishieldNextWork(bits, gap)
    BY <2>2, <2>3 DEF ChainBits, NextWorkRequired
  <2>5. Canonical(bits) /\ BitsToTarget(bits) <= PowLimit
    BY <1>1 DEF BitsInv, Allowed
  <2> QED
    BY <1>1, <2>4, <2>5, RetargetMoves DEF NatInv, TargetsLast
<1> QED
  BY <1>1, NatInit, NatStep, BitsInit, BitsStep, PTL DEF WorkSpec, TargetFollowsTime
=============================================================================

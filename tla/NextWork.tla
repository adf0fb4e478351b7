------------------------------ MODULE NextWork ------------------------------
(***************************************************************************)
(* The difficulty of the next block: DigiShield and the compact form of a   *)
(* target (pow_dogecoin.go, BitsToTarget), as the template builder asks for  *)
(* it with what the P2P client has kept of the headers it followed.          *)
(*                                                                          *)
(* The chain is what the rule makes of the times between its blocks when it  *)
(* is given everything; the client is given the parent's time and the last   *)
(* bits above the minimum difficulty only if it saw them.  Targets have the  *)
(* code's form with a smaller digit: the first of a compact number's digits  *)
(* is its exponent, the other three are its mantissa, whose upper half is    *)
(* taken by the sign.                                                       *)
(***************************************************************************)
EXTENDS Integers, FiniteSets

CONSTANTS
  Base,              \* 256: one more than the largest digit
  MaxDigits,         \* 32, and some room
  PowLimit,          \* dogecoinPowLimitUint256
  PowLimitCompact,   \* dogecoinPowLimitCompact, which encodes another number
  DigishieldStart,   \* 145000
  MinDiffStart,      \* 157500, testnet
  FirstBits,         \* the bits of blocks that DigiShield did not rule
  Gap,               \* seconds between a block and its parent, on the header
  Clock,             \* seconds between the tip's time and a template's
  MaxHeight          \* bound

(* Base to the k: a shift by k bytes. *)
Power[k \in Nat] == IF k = 0 THEN 1 ELSE Base * Power[k - 1]

MantissaEnd == Power[3]
SignBit == MantissaEnd \div 2    \* 0x00800000

(* With fewer than twelve digits a mantissa could not tell a target from one a
   sixtieth above it. *)
ASSUME NextWorkAssumption ==
  /\ Base \in Nat /\ Base >= 12 /\ Base % 2 = 0
  /\ MaxDigits \in Nat \ {0}
  /\ PowLimit \in Nat /\ PowLimitCompact \in Nat \ {0}
  /\ DigishieldStart \in Nat /\ MinDiffStart \in Nat /\ MaxHeight \in Nat
  /\ FirstBits \subseteq Nat \ {0}
  /\ Gap \subseteq Int /\ Clock \subseteq Int

-----------------------------------------------------------------------------
(* Compact numbers. *)

BitsToTarget(bits) ==
  LET size == bits \div MantissaEnd
      word == bits % MantissaEnd
  IN IF size <= 3 THEN word \div Power[3 - size] ELSE word * Power[size - 3]

Digits(n) == Cardinality({k \in 0..(MaxDigits - 1) : Power[k] <= n})

(* Mutant: the bit that means a sign is left in the mantissa, and masked. *)
BigToCompactUnshifted(n) ==
  LET exponent == Digits(n)
  IN IF exponent <= 3 THEN n * Power[3 - exponent]
     ELSE exponent * MantissaEnd + ((n \div Power[exponent - 3]) % SignBit)

(* With three digits or fewer the exponent is lost. *)
BigToCompact(n) ==
  LET exponent == Digits(n)
      mantissa == n \div Power[exponent - 3]
  IN IF exponent <= 3 THEN n * Power[3 - exponent]
     ELSE IF mantissa >= SignBit THEN (exponent + 1) * MantissaEnd + mantissa \div Base
     ELSE exponent * MantissaEnd + mantissa

(* What a target is encoded to: its mantissa is as long as the sign allows, and
   the target is one whose exponent is not lost. *)
Canonical(bits) ==
  /\ bits \in Nat /\ bits % MantissaEnd \in (SignBit \div Base)..(SignBit - 1)
  /\ BitsToTarget(bits) >= MantissaEnd

(* The minimum difficulty is a compact number within the limit, and so are the
   bits of the blocks before DigiShield, since the network took them. *)
ASSUME TargetAssumption ==
  /\ PowLimit < Power[MaxDigits - 1]
  /\ \A bits \in FirstBits \cup {PowLimitCompact} :
       Canonical(bits) /\ BitsToTarget(bits) <= PowLimit

-----------------------------------------------------------------------------
(* DigiShield. *)

RetargetTimespan == 60

(* Go's division rounds towards zero. *)
Quotient(a, b) == IF a >= 0 THEN a \div b ELSE -((-a) \div b)

(* Mutant: the division rounds down. *)
ModulatedTimespanFloor(dt) ==
  LET actual == IF dt < 1 THEN 1 ELSE dt
      modulated == RetargetTimespan + (actual - RetargetTimespan) \div 8
  IN IF modulated < 45 THEN 45 ELSE IF modulated > 90 THEN 90 ELSE modulated

ModulatedTimespan(dt) ==
  LET actual == IF dt < 1 THEN 1 ELSE dt
      modulated == RetargetTimespan + Quotient(actual - RetargetTimespan, 8)
      least == RetargetTimespan - RetargetTimespan \div 4
      most == RetargetTimespan + RetargetTimespan \div 2
  IN IF modulated < least THEN least ELSE IF modulated > most THEN most ELSE modulated

(* Mutant: the target is not cut off at the limit. *)
DigishieldTargetUncut(b, dt) ==
  (BitsToTarget(b) * ModulatedTimespan(dt)) \div RetargetTimespan

DigishieldTarget(b, dt) ==
  LET new == (BitsToTarget(b) * ModulatedTimespan(dt)) \div RetargetTimespan
  IN IF new > PowLimit THEN PowLimit ELSE new

DigishieldNextWork(b, dt) ==
  IF BitsToTarget(b) = 0 THEN b ELSE BigToCompact(DigishieldTarget(b, dt))

(* GetNextWorkRequiredExtended for a tip at height h with bits b, a block `clock`
   seconds after it; `nonMin` is 0 when there is none. *)
NextWorkRequired(net, h, b, clock, nonMin, parentKnown, dt) ==
  LET minRules == net = "testnet" /\ h >= MinDiffStart
  IN IF minRules /\ clock > 120 THEN PowLimitCompact
     ELSE IF minRules /\ b = PowLimitCompact /\ nonMin # 0 THEN nonMin
     ELSE IF h < DigishieldStart \/ ~parentKnown THEN b
     ELSE DigishieldNextWork(b, dt)

-----------------------------------------------------------------------------
VARIABLES
  network,
  height, bits, gap,    \* of the chain's last block
  chainNonMin,          \* the chain's last bits above the minimum difficulty
  tipKnown,             \* the client has a header for its tip, and its time
  parentKnown,          \* and that of the tip's parent: tipParentTimestamp # 0
  lastNonMin,           \* the client's lastNonMinDifficultyBits
  headers,              \* history: headers taken in since it started, 2 for more
  informed              \* history: one of them, or the saved tip, had such bits

chainVars == <<network, height, bits, gap, chainNonMin>>
workVars == <<chainVars, tipKnown, parentKnown, lastNonMin, headers, informed>>

WorkInit ==
  /\ network \in {"mainnet", "testnet"}
  /\ height = 0 /\ bits \in FirstBits /\ gap = RetargetTimespan
  /\ chainNonMin = IF bits = PowLimitCompact THEN 0 ELSE bits
  /\ tipKnown = FALSE /\ parentKnown = FALSE /\ lastNonMin = 0
  /\ headers = 0 /\ informed = FALSE

(* What the network demands of a block `clock` seconds after the tip. *)
ChainBits(clock) ==
  NextWorkRequired(network, height, bits, clock, chainNonMin, TRUE, gap)

Carried(nonMin, b) == IF b = PowLimitCompact THEN nonMin ELSE b

(* Mutant: the client keeps the bits of every header. *)
FollowAny(b) ==
  /\ tipKnown' = TRUE /\ parentKnown' = tipKnown
  /\ lastNonMin' = b

(* processHeaders, for a header with bits b: the parent's time is that of the
   tip so far, which is not known behind a checkpoint or a saved tip. *)
Follow(b) ==
  /\ tipKnown' = TRUE /\ parentKnown' = tipKnown
  /\ lastNonMin' = Carried(lastNonMin, b)

(* The network finds a block and the client takes its header in. *)
Grow ==
  /\ height < MaxHeight
  /\ \E dt \in Gap :
     \E b \in IF height < DigishieldStart THEN FirstBits ELSE {ChainBits(dt)} :
       /\ bits' = b /\ gap' = dt
       /\ chainNonMin' = Carried(chainNonMin, b)
       /\ Follow(b)
       /\ informed' = (informed \/ b # PowLimitCompact)
  /\ headers' = IF headers = 2 THEN 2 ELSE headers + 1
  /\ height' = height + 1
  /\ UNCHANGED network

(* The client starts again from the saved tip, and with the bits saved with it
   if there were any; or from a checkpoint at the same block. *)
Restart(seed) ==
  /\ headers # 0
  /\ tipKnown' = FALSE /\ parentKnown' = FALSE
  /\ lastNonMin' = (IF seed THEN lastNonMin ELSE 0)
  /\ headers' = 0 /\ informed' = (informed /\ seed)
  /\ UNCHANGED chainVars

WorkNext == Grow \/ \E seed \in BOOLEAN : Restart(seed)
WorkSpec == WorkInit /\ [][WorkNext]_workVars

-----------------------------------------------------------------------------
(* What BuildTemplateFromHeader takes for the next block. *)
TemplateBits(clock) ==
  NextWorkRequired(network, height, bits, clock, lastNonMin, parentKnown, gap)

(* The bits are compact numbers of a target the network allows, the client's
   are none or those of the chain. *)
WorkTypeOK ==
  /\ network \in {"mainnet", "testnet"}
  /\ height \in 0..MaxHeight /\ gap \in Gap \cup {RetargetTimespan} 
  /\ {tipKnown, parentKnown, informed} \subseteq BOOLEAN /\ headers \in 0..2
  /\ bits \in Nat /\ BitsToTarget(bits) \in 1..PowLimit
  /\ lastNonMin \in {0, chainNonMin}

(* The next block "matches Dogecoin Core GetNextWorkRequired" (pow_dogecoin.go:79):
   two headers after any start the client demands of its block the bits that the
   network will, whatever the time; on testnet, behind a block of minimum
   difficulty, it must have seen one of another, now or before it saved its tip. *)
TemplateAgrees ==
  \A clock \in Clock :
    /\ headers = 2 \/ height < DigishieldStart
    /\ network = "testnet" /\ bits = PowLimitCompact => informed
    => TemplateBits(clock) = ChainBits(clock)

(* The largest target not above n that a compact number can express. *)
Expressible(n) ==
  {t \in {(n \div Power[k]) * Power[k] : k \in 0..(MaxDigits - 3)} :
     \E k \in 0..(MaxDigits - 3) : t % Power[k] = 0 /\ t \div Power[k] < SignBit}

RoundedDown(n) == CHOOSE t \in Expressible(n) : \A s \in Expressible(n) : s <= t

(* DigiShield loses nothing but what the compact form cannot hold, also where
   the mantissa overflows into its sign or the limit cuts the target off; and
   its result reads back as the bits it came from. *)
RetargetIsExact ==
  \A dt \in Gap :
    LET next == DigishieldNextWork(bits, dt) IN
    /\ BitsToTarget(next) = RoundedDown(DigishieldTarget(bits, dt))
    /\ BigToCompact(BitsToTarget(next)) = next

(* Under DigiShield a block raises or lowers the target by no more than a
   half or a quarter, whatever the times on the headers say; it does not move
   after a minute, give or take seven seconds, it rises after a slower block,
   unless at the limit, and falls after a faster one. *)
TargetFollowsTime ==
  [][ height' # height /\ height >= DigishieldStart /\ network = "mainnet" =>
      LET old == BitsToTarget(bits)
          new == BitsToTarget(bits')
          limit == BitsToTarget(BigToCompact(PowLimit))
      IN /\ 2 * new <= 3 * old /\ 4 * new >= 3 * old - 4 * Power[Digits(old) - 2]
         /\ gap \in 53..67 => bits' = bits
         /\ gap > 67 => new > old \/ new = limit
         /\ gap < 53 => new < old ]_workVars
=============================================================================

----------------------- MODULE GuestCycleClockProofs -----------------------
(***************************************************************************)
(* Proofs about GuestCycleClock, for every width of the counter, every set *)
(* of events, rates and delays, and every bound.                           *)
(***************************************************************************)
EXTENDS GuestCycleClock, SequenceTheorems, WellFoundedInduction, TLAPS

-----------------------------------------------------------------------------
(* The inductive invariant *)

(* The cycle that was read last, and the cycles since. *)
Reading == hi * Wrap + folded
Unread == total - Reading

(* How far ahead the deadline is, as the signed comparison reads it. *)
Gap ==
    LET back == (counter - deadline) % Wrap
    IN  IF back < Wrap \div 2 THEN -back ELSE Wrap - back

(* A dispatch is under way: its end will publish the deadline. *)
Dispatching == stack # <<>> /\ stack[1].fn = "dispatch"

(* Where guest code stands still, when every PostRestore has run, and that *)
(* a dispatch is the outermost call.                                       *)
PlaceInv ==
    /\ stack \in Seq(Frames)
    /\ \A i \in 2..Len(stack) : stack[i].fn # "dispatch"
    /\ mode # "guest" => left = 0
    /\ mode # "restore" => unrestored = {}
    /\ Throttle \notin unrestored /\ Armed(Throttle)

(* The counter has wrapped at most once since it was read: it is read when *)
(* the deadline is published, and that one is at most a slice ahead.       *)
CounterInv ==
    /\ 0 <= Unread /\ Unread + left <= MaxSlice + MaxBlock
    /\ counter = IF folded + Unread < Wrap THEN folded + Unread
                                           ELSE folded + Unread - Wrap

DeadlineInv ==
    IF Dispatching THEN Unread = 0
    ELSE left - MaxBlock <= Gap /\ Gap + Unread <= MaxSlice

(* No event is missed by the deadline; one of the machine before a restore *)
(* that is past already counts from the cycle restored.                    *)
InTime(e) == \/ total + left <= at[e] + MaxBlock
             \/ total + left <= restored_at + MaxBlock

EventInv ==
    \A e \in Events :
        Armed(e) =>
            /\ InTime(e)
            /\ ~Dispatching /\ Gap > 0 => total + Gap <= at[e]

(* No event is armed before the one that was run last. *)
OrderInv ==
    last_run <= total /\ \A e \in Events : Armed(e) => last_run <= at[e]

(* The rate asked for last is the rate, or some SetClockRate() under way   *)
(* knows that its request is the last.                                     *)
RateInv ==
    /\ \A i \in DOMAIN stack :
           stack[i].fn = "rate" =>
               /\ stack[i].request <= rate_requests
               /\ stack[i].request = rate_requests => stack[i].rate = asked
    /\ rate # asked =>
           \E i \in DOMAIN stack :
               stack[i].fn = "rate" /\ stack[i].request = rate_requests

(* The anchors are in the past, the wall clock's not before the restore;   *)
(* the throttle is at most a slice of guest time ahead, and its wall time  *)
(* at most a slice of wall time.                                           *)
PaceInv ==
    /\ ref_cycle <= total /\ guest_ns_cycle <= total
    /\ restored_at <= ref_cycle /\ ref_cycle <= at[Throttle]
    /\ at[Throttle] >= total => CyclesToNs(at[Throttle] - total) <= SliceNs
    /\ TargetWallNs(at[Throttle]) <= wall + SliceNs

CoreInv == CounterInv /\ DeadlineInv /\ EventInv

IInv ==
    /\ TypeOK /\ PlaceInv /\ CoreInv
    /\ OrderInv /\ RateInv /\ PaceInv

-----------------------------------------------------------------------------
(* Numbers *)

LessThan == {pair \in Nat \X Nat : pair[1] < pair[2]}

LEMMA LessThanWellFounded == IsWellFoundedOn(LessThan, Nat)
BY NatLessThanWellFounded DEF OpToRel, LessThan

(* A set of numbers has a least one. *)
LEMMA LeastExists ==
    ASSUME NEW S \in SUBSET Nat, S # {}
    PROVE  \E m \in S : \A x \in S : m <= x
<1>1. PICK m \in S : \A y \in S : ~(<<y, m>> \in LessThan)
  BY WFMin, LessThanWellFounded
<1>2. \A y \in S : m <= y
  <2>. SUFFICES ASSUME NEW y \in S, y < m PROVE FALSE
    OBVIOUS
  <2>1. <<y, m>> \in LessThan
    BY DEF LessThan
  <2>. QED  BY <2>1, <1>1
<1>. QED  BY <1>2

LEMMA MinIsLeast ==
    ASSUME NEW S \in SUBSET Nat, S # {}
    PROVE  Min(S) \in S /\ \A x \in S : Min(S) <= x
BY LeastExists DEF Min

LEMMA MinOfTwo ==
    ASSUME NEW a \in Nat, NEW b \in Nat
    PROVE  Min({a, b}) = IF a <= b THEN a ELSE b
<1>1. Min({a, b}) \in {a, b} /\ Min({a, b}) <= a /\ Min({a, b}) <= b
  BY MinIsLeast, {a, b} \in SUBSET Nat
<1>. QED  BY <1>1

(* Remainders of numbers less than one turn away from the counter's range. *)
LEMMA ModNear ==
    /\ Wrap \in Nat /\ Wrap > 0
    /\ \A x \in Int : x % Wrap \in Word
    /\ \A x \in Int : 0 <= x /\ x < Wrap => x % Wrap = x
    /\ \A x \in Int : Wrap <= x /\ x < 2 * Wrap => x % Wrap = x - Wrap
    /\ \A x \in Int : -Wrap <= x /\ x < 0 => x % Wrap = x + Wrap
BY CounterAssumption, SMT DEF Word

LEMMA DivMod ==
    ASSUME NEW c \in Nat, NEW d \in Nat, d > 0
    PROVE  /\ c \div d \in Nat /\ c % d \in Nat /\ c % d < d
           /\ c = (c \div d) * d + (c % d)
BY SMT

(* A bound that decides which of two integers is less. *)
LEMMA LessByProduct ==
    ASSUME NEW d \in Nat \ {0}, NEW a \in Nat, NEW b \in Nat,
           d * a < d * b + d
    PROVE  a <= b
<1>1. SUFFICES ASSUME a >= b + 1 PROVE FALSE
  OBVIOUS
<1>2. d * a >= d * (b + 1)
  BY <1>1, SMT
<1>3. d * (b + 1) = d * b + d
  BY SMT
<1>. QED  BY <1>2, <1>3, SMT

(* Quotient and remainder are unique. *)
LEMMA Remainder ==
    ASSUME NEW q \in Nat, NEW d \in Nat, NEW r \in Nat, r < d
    PROVE  (q * d + r) % d = r
<1> DEFINE x == q * d + r
           a == x \div d
           s == x % d
<1>0. x \in Nat
  OBVIOUS
<1>1. a \in Nat /\ s \in Nat /\ s < d /\ x = a * d + s
  BY <1>0, DivMod
<1>2. d * a < d * q + d /\ d * q < d * a + d
  <2>1. d * a = a * d /\ d * q = q * d
    BY <1>1, SMT
  <2>2. q * d \in Nat /\ a * d \in Nat
    BY <1>1
  <2>. HIDE DEF a, s
  <2>. QED  BY <2>1, <2>2, <1>1, SMT DEF x
<1>3. a = q
  <2>. HIDE DEF a, s
  <2>1. a <= q  BY <1>1, <1>2, LessByProduct, d \in Nat \ {0}
  <2>2. q <= a  BY <1>1, <1>2, LessByProduct, d \in Nat \ {0}
  <2>. QED  BY <2>1, <2>2, <1>1
<1>. HIDE DEF a, s
<1>. QED  BY <1>0, <1>1, <1>3 DEF s

(* A deadline set from a wide cycle number or from its remainder is the same. *)
LEMMA ModAdd ==
    ASSUME NEW c \in Nat, NEW m \in Nat, m < Wrap
    PROVE  (c + m) % Wrap = ((c % Wrap) + m) % Wrap
<1> DEFINE q == c \div Wrap
           n == c % Wrap
<1>1. /\ Wrap \in Nat /\ Wrap > 0 /\ q \in Nat /\ n \in Nat /\ n < Wrap
      /\ c = q * Wrap + n
  BY DivMod, ModNear
<1>. HIDE DEF q, n
<1>2. CASE n + m < Wrap
  <2>1. c + m = q * Wrap + (n + m)
    BY <1>1, SMT
  <2>2. (c + m) % Wrap = n + m
    BY <2>1, <1>1, <1>2, Remainder
  <2>. QED  BY <2>2, <1>1, <1>2, ModNear DEF n
<1>3. CASE n + m >= Wrap
  <2>1. c + m = (q + 1) * Wrap + (n + m - Wrap)
    BY <1>1, SMT
  <2> DEFINE p == q + 1
             r == n + m - Wrap
  <2>2. p \in Nat /\ r \in Nat /\ r < Wrap
    BY <1>1, <1>3
  <2>3. (p * Wrap + r) % Wrap = r
    <3>. HIDE DEF p, r
    <3>. QED  BY <2>2, <1>1, Remainder
  <2>4. (c + m) % Wrap = n + m - Wrap
    BY <2>1, <2>3
  <2>. QED  BY <2>4, <1>1, <1>3, ModNear DEF n
<1>. QED  BY <1>1, <1>2, <1>3

-----------------------------------------------------------------------------
(* The conversions of time *)

(* Scale() is the quotient, rounded down. *)
LEMMA ScaleFloor ==
    ASSUME NEW v \in Nat, NEW n \in Nat, NEW d \in Nat \ {0}
    PROVE  /\ Scale(v, n, d) \in Nat
           /\ d * Scale(v, n, d) <= v * n
           /\ v * n < d * Scale(v, n, d) + d
<1> DEFINE q == v \div d
           r == v % d
           s == (r * n) \div d
<1>1. q \in Nat /\ r \in Nat /\ v = q * d + r
  BY DivMod
<1>2. r * n \in Nat
  BY <1>1
<1>3. s \in Nat /\ s * d <= r * n /\ r * n < s * d + d
  BY <1>2, DivMod
<1>4. v * n = (q * n) * d + r * n
  <2>. HIDE DEF q, r
  <2>. QED  BY <1>1, SMT
<1>5. q * n \in Nat
  BY <1>1
<1>6. d * (q * n + s) = (q * n) * d + s * d
  <2>. HIDE DEF q, s
  <2>. QED  BY <1>1, <1>3, <1>5, SMT
<1>7. Scale(v, n, d) = q * n + s
  BY DEF Scale
<1> DEFINE A == (q * n) * d
           B == s * d
<1>8. A \in Nat /\ B \in Nat
  BY <1>1, <1>3, <1>5
<1>9. d * Scale(v, n, d) = A + B
  BY <1>6, <1>7
<1>. HIDE DEF q, r, s, A, B
<1>. QED  BY <1>1, <1>3, <1>4, <1>5, <1>7, <1>8, <1>9 DEF A, B

LEMMA ScaleMonotone ==
    ASSUME NEW u \in Nat, NEW v \in Nat, u <= v,
           NEW n \in Nat, NEW d \in Nat \ {0}
    PROVE  Scale(u, n, d) <= Scale(v, n, d)
<1>1. u * n <= v * n
  BY SMT
<1>2. /\ Scale(u, n, d) \in Nat /\ Scale(v, n, d) \in Nat
      /\ d * Scale(u, n, d) <= u * n
      /\ v * n < d * Scale(v, n, d) + d
  BY ScaleFloor
<1>3. d * Scale(u, n, d) < d * Scale(v, n, d) + d
  BY <1>1, <1>2
<1>. QED  BY <1>2, <1>3, LessByProduct

LEMMA ScaleZero ==
    ASSUME NEW n \in Nat, NEW d \in Nat \ {0}
    PROVE  Scale(0, n, d) = 0
<1>1. Scale(0, n, d) \in Nat /\ d * Scale(0, n, d) <= 0
  BY ScaleFloor, 0 * n = 0
<1>. QED  BY <1>1, LessByProduct, d * 0 = 0

(* Two quotients are at most one less than the quotient of the sum. *)
LEMMA ScaleSum ==
    ASSUME NEW u \in Nat, NEW v \in Nat, NEW n \in Nat, NEW d \in Nat \ {0}
    PROVE  /\ Scale(u, n, d) + Scale(v, n, d) <= Scale(u + v, n, d)
           /\ Scale(u + v, n, d) <= Scale(u, n, d) + Scale(v, n, d) + 1
<1> DEFINE a == Scale(u, n, d)
           b == Scale(v, n, d)
           c == Scale(u + v, n, d)
<1>0. u + v \in Nat
  OBVIOUS
<1>1. /\ a \in Nat /\ d * a <= u * n /\ u * n < d * a + d
      /\ b \in Nat /\ d * b <= v * n /\ v * n < d * b + d
      /\ c \in Nat /\ d * c <= (u + v) * n /\ (u + v) * n < d * c + d
  BY <1>0, ScaleFloor
<1>. HIDE DEF a, b, c
<1>2. (u + v) * n = u * n + v * n
  BY SMT
<1>3. d * (a + b) = d * a + d * b /\ d * (a + b + 1) = d * a + d * b + d
  BY <1>1, SMT
<1>4. d * (a + b) < d * c + d /\ d * c < d * (a + b + 1) + d
  BY <1>1, <1>2, <1>3, SMT
<1>5. a + b <= c /\ c <= a + b + 1
  BY <1>1, <1>4, LessByProduct
<1>. QED  BY <1>5 DEF a, b, c

(* The cycles of a time, counted on from any cycle, take no longer. *)
LEMMA ScaleBack ==
    ASSUME NEW x \in Nat, NEW ns \in Nat,
           NEW n \in Nat \ {0}, NEW d \in Nat \ {0}
    PROVE  /\ Scale(ns, d, n) \in Nat
           /\ Scale(x + Scale(ns, d, n), n, d) <= Scale(x, n, d) + ns
<1> DEFINE c == Scale(ns, d, n)
           a == Scale(x, n, d)
           e == Scale(x + c, n, d)
<1>1. c \in Nat /\ n * c <= ns * d
  BY ScaleFloor
<1>2. x + c \in Nat
  BY <1>1
<1>3. /\ a \in Nat /\ x * n < d * a + d
      /\ e \in Nat /\ d * e <= (x + c) * n
  BY <1>2, ScaleFloor
<1>. HIDE DEF a, c, e
<1>4. (x + c) * n = x * n + n * c /\ d * (a + ns) = d * a + ns * d
  BY <1>1, <1>3, SMT
<1>5. x * n \in Nat /\ n * c \in Nat /\ ns * d \in Nat /\ d * a \in Nat
      /\ d * e \in Nat
  BY <1>1, <1>3
<1>6. d * e < d * (a + ns) + d
  BY <1>1, <1>3, <1>4, <1>5
<1>7. e <= a + ns
  BY <1>3, <1>6, LessByProduct, a + ns \in Nat
<1>. QED  BY <1>1, <1>7 DEF a, c, e

(* The same of the clock's own conversions. *)
LEMMA Conversions ==
    ASSUME NEW r \in Rates
    PROVE  /\ \A c \in Nat : CyclesToNsAt(r, c) \in Nat
           /\ CyclesToNsAt(r, 0) = 0
           /\ \A ns \in Nat : NsToCyclesAt(r, ns) \in Nat
           /\ \A b, c \in Nat : b <= c => CyclesToNsAt(r, b) <= CyclesToNsAt(r, c)
           /\ \A b, c \in Nat :
                  /\ CyclesToNsAt(r, b) + CyclesToNsAt(r, c) <= CyclesToNsAt(r, b + c)
                  /\ CyclesToNsAt(r, b + c) <= CyclesToNsAt(r, b) + CyclesToNsAt(r, c) + 1
           /\ \A c, ns \in Nat :
                  CyclesToNsAt(r, c + NsToCyclesAt(r, ns)) <= CyclesToNsAt(r, c) + ns
<1>1. r.ns_unit \in Nat \ {0} /\ r.cyc_unit \in Nat \ {0}
  BY RateAssumption
<1>. QED
  BY <1>1, ScaleFloor, ScaleMonotone, ScaleZero, ScaleSum, ScaleBack
  DEF CyclesToNsAt, NsToCyclesAt

-----------------------------------------------------------------------------
(* Reading the counter and publishing the deadline *)

(* A cycle number put together from a counter and its last reading is the  *)
(* number of cycles executed, and a reading leaves none unread.            *)
LEMMA NowExact ==
    ASSUME TypeOK, CounterInv
    PROVE  /\ Now = total
           /\ FoldHi \in Nat /\ FoldHi * Wrap + counter = total
<1>1. /\ folded \in Nat /\ folded < Wrap /\ counter \in Nat /\ counter < Wrap
      /\ hi \in Nat /\ total \in Nat /\ Wrap \in Nat
      /\ left \in Nat
      /\ MaxSlice \in Nat /\ MaxBlock \in Nat
  BY CounterAssumption DEF TypeOK, Word
<1> DEFINE P == hi * Wrap
<1>2. P \in Nat /\ (hi + 1) * Wrap = P + Wrap
  BY <1>1, SMT
<1>3. Unread = total - (P + folded)
  BY DEF Unread, Reading
<1>. HIDE DEF P
<1>4. Unread \in Nat /\ Unread < Wrap
  BY <1>1, <1>2, <1>3, CounterAssumption DEF CounterInv
<1>5. CASE folded + Unread < Wrap
  <2>1. FoldHi = hi
    BY <1>1, <1>4, <1>5 DEF CounterInv, FoldHi
  <2>. QED  BY <2>1, <1>1, <1>2, <1>3, <1>5 DEF CounterInv, Now, P
<1>6. CASE ~(folded + Unread < Wrap)
  <2>1. FoldHi = hi + 1
    BY <1>1, <1>4, <1>6 DEF CounterInv, FoldHi
  <2>2. (hi + 1) * Wrap + counter = total
    BY <1>1, <1>2, <1>3, <1>6 DEF CounterInv
  <2>. QED  BY <2>1, <2>2, <1>1 DEF Now
<1>. QED  BY <1>5, <1>6

LEMMA Folded ==
    ASSUME TypeOK, CounterInv, Fold, counter' = counter, total' = total,
           left' = left
    PROVE  /\ folded' \in Word /\ hi' \in Nat
           /\ Unread' = 0 /\ CounterInv'
<1>1. /\ FoldHi \in Nat /\ FoldHi * Wrap + counter = total
      /\ counter \in Word
  BY NowExact DEF TypeOK
<1>2. Unread' = 0
  BY <1>1 DEF Fold, Unread, Reading, Word, TypeOK
<1>3. /\ folded' = counter /\ hi' = FoldHi
      /\ counter \in Nat /\ counter < Wrap
  BY <1>1, CounterAssumption DEF Fold, Word
<1>4. folded' + Unread' < Wrap /\ counter' = folded' + Unread'
  BY <1>2, <1>3
<1>5. 0 <= Unread' /\ Unread' + left' <= MaxSlice + MaxBlock
  BY <1>2, CounterAssumption DEF TypeOK
<1>6. CounterInv'
  BY <1>4, <1>5 DEF CounterInv
<1>. QED  BY <1>1, <1>2, <1>3, <1>6

(* The comparison reads a difference within half the counter's range as it *)
(* is.                                                                     *)
LEMMA GapReads ==
    ASSUME NEW c \in Word, NEW d \in Word, NEW g \in Int,
           -MaxBlock <= g, g <= MaxSlice,
           d = c + g \/ d = c + g - Wrap \/ d = c + g + Wrap
    PROVE  LET back == (c - d) % Wrap
           IN  /\ back \in Word
               /\ (IF back < Wrap \div 2 THEN -back ELSE Wrap - back) = g
               /\ back < Wrap \div 2 <=> g <= 0
<1>1. c - d \in Int /\ c \in Int /\ d \in Int
  BY DEF Word
<1>2. Wrap \div 2 \in Nat /\ 2 * (Wrap \div 2) <= Wrap /\ Wrap < 2 * (Wrap \div 2) + 2
  BY CounterAssumption, SMT
<1>3. CASE g <= 0
  <2>1. (c - d) % Wrap = -g
    BY <1>1, <1>3, ModNear, CounterAssumption DEF Word
  <2>. QED  BY <2>1, <1>2, <1>3, CounterAssumption DEF Word
<1>4. CASE g > 0
  <2>1. (c - d) % Wrap = Wrap - g
    BY <1>1, <1>4, ModNear, CounterAssumption DEF Word
  <2>. QED  BY <2>1, <1>2, <1>4, CounterAssumption DEF Word
<1>. QED  BY <1>3, <1>4

(* NextArmed() is the cycle of the first event. *)
LEMMA NextArmedIsFirst ==
    ASSUME NEW a \in [Events -> Nat \cup {Never}], a[Throttle] # Never
    PROVE  /\ NextArmed(a) \in Nat
           /\ \E e \in Events : a[e] # Never /\ NextArmed(a) = a[e]
           /\ \A e \in Events : a[e] # Never => NextArmed(a) <= a[e]
<1> DEFINE S == {a[e] : e \in Events} \ {Never}
<1>1. Throttle \in Events
  BY DeviceAssumption DEF Throttle, Events
<1>2. S \in SUBSET Nat /\ a[Throttle] \in S
  BY <1>1
<1>3. Min(S) \in S /\ \A x \in S : Min(S) <= x
  BY <1>2, MinIsLeast
<1>4. NextArmed(a) = Min(S)
  BY DEF NextArmed
<1>. QED  BY <1>2, <1>3, <1>4

(* What Publish() does: a deadline ahead by at most a slice, and, unless   *)
(* an event is due, not beyond any event.                                  *)
LEMMA Published ==
    ASSUME NEW k \in Nat, NEW now \in Nat,
           at' \in [Events -> Nat \cup {Never}], at'[Throttle] # Never,
           Publish(k, now, at'), counter' = k % Wrap
    PROVE  /\ deadline' \in Word
           /\ Gap' \in 0..MaxSlice
           /\ \A e \in Events : at'[e] # Never /\ Gap' > 0 => now + Gap' <= at'[e]
<1> DEFINE next == NextArmed(at')
           ahead == IF next > now THEN next - now ELSE 0
           m == IF ahead <= MaxSlice THEN ahead ELSE MaxSlice
<1>1. next \in Nat /\ \A e \in Events : at'[e] # Never => next <= at'[e]
  BY NextArmedIsFirst
<1>. HIDE DEF next
<1>2. ahead \in Nat /\ m \in 0..MaxSlice /\ m <= ahead
  BY <1>1, CounterAssumption
<1>3. deadline' = (k + m) % Wrap
  BY <1>2, MinOfTwo, CounterAssumption DEF Publish, PublishDeadline, next
<1>. HIDE DEF ahead, m
<1>4. counter' \in Word /\ deadline' = (counter' + m) % Wrap
  BY <1>2, <1>3, ModAdd, ModNear, CounterAssumption
<1>5. deadline' \in Word
      /\ (deadline' = counter' + m \/ deadline' = counter' + m - Wrap)
  BY <1>2, <1>4, ModNear, CounterAssumption DEF Word
<1>6. Gap' = m
  <2>1. m \in Int /\ -MaxBlock <= m /\ m <= MaxSlice
    BY <1>2, CounterAssumption
  <2>2. LET back == (counter' - deadline') % Wrap
        IN  (IF back < Wrap \div 2 THEN -back ELSE Wrap - back) = m
    BY <2>1, <1>4, <1>5, GapReads
  <2>. QED  BY <2>2 DEF Gap
<1>7. m > 0 => now + m <= next
  BY <1>1, <1>2, CounterAssumption DEF ahead
<1>. QED  BY <1>1, <1>2, <1>5, <1>6, <1>7

-----------------------------------------------------------------------------
(* The calls under way *)

LEMMA FrameFacts ==
    /\ Dispatch \in Frames /\ Dispatch.fn = "dispatch"
    /\ DeviceCode \in Frames /\ DeviceCode.fn = "device"
    /\ \A r \in Rates, n \in 1..MaxRequests :
           /\ RateCall(r, n) \in Frames /\ RateCall(r, n).fn = "rate"
           /\ RateCall(r, n).rate = r /\ RateCall(r, n).request = n
    /\ \A f \in Frames :
           f.fn = "rate" => f.rate \in Rates /\ f.request \in 1..MaxRequests
<1>1. /\ Dispatch \in Frames /\ Dispatch.fn = "dispatch"
      /\ DeviceCode \in Frames /\ DeviceCode.fn = "device"
  BY DEF Frames, Dispatch, DeviceCode
<1>2. ASSUME NEW r \in Rates, NEW n \in 1..MaxRequests
      PROVE  /\ RateCall(r, n) \in Frames /\ RateCall(r, n).fn = "rate"
             /\ RateCall(r, n).rate = r /\ RateCall(r, n).request = n
  BY DEF Frames, RateCall
<1>3. ASSUME NEW f \in Frames, f.fn = "rate"
      PROVE  f.rate \in Rates /\ f.request \in 1..MaxRequests
  <2>1. f # Dispatch /\ f # DeviceCode
    BY <1>1, <1>3
  <2>2. PICK r \in Rates, n \in 1..MaxRequests : f = RateCall(r, n)
    BY <2>1 DEF Frames
  <2>. QED  BY <2>2 DEF RateCall
<1>. QED  BY <1>1, <1>2, <1>3

LEMMA Pushed ==
    ASSUME PlaceInv, NEW f \in Frames, Push(f)
    PROVE  /\ stack' \in Seq(Frames) /\ stack' # <<>>
           /\ Len(stack) \in Nat /\ Len(stack') = Len(stack) + 1
           /\ \A i \in 1..Len(stack) : stack'[i] = stack[i]
           /\ stack'[Len(stack) + 1] = f
           /\ stack # <<>> => (Dispatching' <=> Dispatching)
           /\ stack = <<>> => (Dispatching' <=> f.fn = "dispatch") /\ ~Dispatching
           /\ stack = <<>> \/ f.fn # "dispatch" =>
                  \A i \in 2..Len(stack') : stack'[i].fn # "dispatch"
<1>1. stack \in Seq(Frames) /\ stack' = Append(stack, f)
  BY DEF PlaceInv, Push
<1>2. /\ stack' \in Seq(Frames) /\ stack' # <<>>
      /\ Len(stack) \in Nat /\ Len(stack') = Len(stack) + 1
      /\ \A i \in 1..Len(stack) : stack'[i] = stack[i]
      /\ stack'[Len(stack) + 1] = f
  BY <1>1
<1>3. stack # <<>> => Len(stack) >= 1
  BY <1>1
<1>4. stack = <<>> => Len(stack) = 0
  OBVIOUS
<1>5. stack # <<>> => (Dispatching' <=> Dispatching)
  BY <1>2, <1>3 DEF Dispatching
<1>6. stack = <<>> => (Dispatching' <=> f.fn = "dispatch") /\ ~Dispatching
  BY <1>2, <1>4 DEF Dispatching
<1>7. stack = <<>> \/ f.fn # "dispatch" =>
          \A i \in 2..Len(stack') : stack'[i].fn # "dispatch"
  BY <1>2, <1>4 DEF PlaceInv
<1>. QED  BY <1>2, <1>5, <1>6, <1>7

LEMMA Popped ==
    ASSUME PlaceInv, stack # <<>>, Pop
    PROVE  /\ stack' \in Seq(Frames)
           /\ Len(stack) \in Nat /\ Len(stack) >= 1 /\ Len(stack') = Len(stack) - 1
           /\ \A i \in 1..(Len(stack) - 1) : stack'[i] = stack[i]
           /\ Top \in Frames
           /\ Top.fn # "dispatch" => (Dispatching' <=> Dispatching)
           /\ Top.fn = "dispatch" => stack' = <<>> /\ Dispatching
           /\ \A i \in 2..Len(stack') : stack'[i].fn # "dispatch"
<1>1. stack \in Seq(Frames) /\ stack' = SubSeq(stack, 1, Len(stack) - 1)
  BY DEF PlaceInv, Pop
<1>2. Len(stack) \in Nat /\ Len(stack) >= 1 /\ Top \in Frames
  BY <1>1 DEF Top
<1>a. Len(stack) >= 2 \/ Len(stack) = 1
  BY <1>2
<1>3. /\ stack' \in Seq(Frames) /\ Len(stack') = Len(stack) - 1
      /\ \A i \in 1..(Len(stack) - 1) : stack'[i] = stack[i]
  <2> DEFINE n == Len(stack) - 1
  <2>1. n \in Nat /\ \A i \in 1..n : stack[i] \in Frames
    BY <1>1, <1>2
  <2>2. /\ SubSeq(stack, 1, n) \in Seq(Frames)
        /\ Len(SubSeq(stack, 1, n)) = IF 1 <= n THEN n - 1 + 1 ELSE 0
        /\ \A i \in 1..(n - 1 + 1) : SubSeq(stack, 1, n)[i] = stack[1 + i - 1]
    <3>. HIDE DEF n
    <3>. QED  BY <2>1, SubSeqProperties
  <2>3. \A i \in 1..n : SubSeq(stack, 1, n)[i] = stack[i]
    BY <2>1, <2>2
  <2>4. stack' = SubSeq(stack, 1, n)
    BY <1>1
  <2>5. Len(stack') = n
    <3>. HIDE DEF n
    <3>. QED  BY <2>1, <2>2, <2>4
  <2>. QED  BY <2>2, <2>3, <2>4, <2>5
<1>4. Top.fn = "dispatch" => Len(stack) = 1
  <2>1. Len(stack) >= 2 => Top.fn # "dispatch"
    <3>1. Len(stack) >= 2 => Len(stack) \in 2..Len(stack)
      BY <1>2
    <3>2. \A i \in 2..Len(stack) : stack[i].fn # "dispatch"
      BY DEF PlaceInv
    <3>. QED  BY <3>1, <3>2 DEF Top
  <2>. QED  BY <2>1, <1>a, Zenon
<1>5. Top.fn = "dispatch" => stack' = <<>> /\ Dispatching
  <2>1. Len(stack) = 1 => Len(stack') = 0 /\ stack' = <<>>
    BY <1>3
  <2>2. Len(stack) = 1 /\ Top.fn = "dispatch" => Dispatching
    BY DEF Dispatching, Top
  <2>. QED  BY <2>1, <2>2, <1>4
<1>6. Top.fn # "dispatch" => (Dispatching' <=> Dispatching)
  <2>. SUFFICES ASSUME Top.fn # "dispatch" PROVE Dispatching' <=> Dispatching
    OBVIOUS
  <2>1. CASE Len(stack) = 1
    BY <2>1, <1>3 DEF Dispatching, Top
  <2>2. CASE Len(stack) >= 2
    <3>1. stack' # <<>> /\ stack'[1] = stack[1]
      BY <2>2, <1>2, <1>3
    <3>. QED  BY <3>1 DEF Dispatching
  <2>. QED  BY <2>1, <2>2, <1>a, Zenon
<1>7. \A i \in 2..Len(stack') : stack'[i].fn # "dispatch"
  BY <1>2, <1>3 DEF PlaceInv
<1>. QED  BY <1>2, <1>3, <1>5, <1>6, <1>7

-----------------------------------------------------------------------------
(* What most steps leave alone *)

(* No event moved, the deadline stays, at most the counter is read.        *)
LEMMA Still ==
    ASSUME TypeOK, CoreInv,
           UNCHANGED <<counter, deadline, total, restored_at>>,
           left' = left \/ left' = 0,
           \A e \in Events : at'[e] = at[e] \/ at'[e] = Never,
           ~Dispatching' => ~Dispatching,
           (Fold /\ left' = left) \/ (UNCHANGED fold /\ (Dispatching' => Dispatching))
    PROVE  folded' \in Word /\ hi' \in Nat /\ CoreInv'
<1>1. Gap' = Gap /\ Gap \in Int
  <2>1. (counter - deadline) % Wrap \in Int
    BY ModNear DEF TypeOK, Word
  <2>. QED  BY <2>1, ModNear DEF Gap
<1>2. left' \in 0..left /\ left \in Nat /\ Unread \in Int
  BY CounterAssumption DEF TypeOK, Unread, Reading, Word
<1>3. EventInv'
  <2>. SUFFICES ASSUME NEW e \in Events, Armed(e)'
                PROVE  InTime(e)' /\ (~Dispatching' /\ Gap' > 0 =>
                                        total' + Gap' <= at'[e])
    BY DEF EventInv
  <2>1. Armed(e) /\ at'[e] = at[e] /\ at[e] \in Nat
    BY DEF Armed, TypeOK
  <2>2. InTime(e) /\ (~Dispatching /\ Gap > 0 => total + Gap <= at[e])
    BY <2>1 DEF CoreInv, EventInv
  <2>3. total \in Nat /\ restored_at \in Nat /\ MaxBlock \in Nat
    BY CounterAssumption DEF TypeOK
  <2>4. InTime(e)'
    BY <1>2, <2>1, <2>2, <2>3 DEF InTime
  <2>. QED  BY <1>1, <2>1, <2>2, <2>4
<1>4. CASE Fold /\ left' = left
  <2>1. folded' \in Word /\ hi' \in Nat /\ Unread' = 0 /\ CounterInv'
    BY <1>4, Folded DEF CoreInv
  <2>2. 0 <= Unread
    BY DEF CoreInv, CounterInv
  <2>3. DeadlineInv'
    BY <1>1, <1>2, <1>4, <2>1, <2>2, CounterAssumption DEF CoreInv, DeadlineInv
  <2>. QED  BY <1>3, <2>1, <2>3 DEF CoreInv
<1>5. CASE UNCHANGED fold /\ (Dispatching' => Dispatching)
  <2>1. Unread' = Unread /\ UNCHANGED <<folded, hi>>
    BY <1>5 DEF fold, Unread, Reading
  <2>2. CounterInv'
    <3>1. CASE left' = left
      BY <3>1, <2>1 DEF CoreInv, CounterInv
    <3>2. CASE left' = 0
      BY <3>2, <1>2, <2>1, CounterAssumption DEF CoreInv, CounterInv
    <3>. QED  BY <3>1, <3>2
  <2>3. DeadlineInv'
    <3>1. CASE left' = left
      BY <3>1, <1>1, <1>5, <2>1 DEF CoreInv, DeadlineInv
    <3>2. CASE left' = 0
      BY <3>2, <1>1, <1>2, <1>5, <2>1, CounterAssumption DEF CoreInv, DeadlineInv
    <3>. QED  BY <3>1, <3>2
  <2>. QED  BY <1>3, <2>1, <2>2, <2>3 DEF CoreInv, TypeOK
<1>. QED  BY <1>4, <1>5

(* The deadline is published: any event may have moved, but none into the  *)
(* past.                                                                   *)
LEMMA Rearmed ==
    ASSUME TypeOK, CoreInv, UNCHANGED <<counter, total, left, restored_at>>,
           at' \in [Events -> Nat \cup {Never}], at'[Throttle] # Never,
           Publish(counter, Now, at'),
           Fold \/ (UNCHANGED fold /\ Unread = 0 /\ ~Dispatching'),
           \A e \in Events :
               at'[e] = Never \/ at'[e] >= total \/ at'[e] = at[e]
    PROVE  /\ deadline' \in Word /\ folded' \in Word /\ hi' \in Nat
           /\ CoreInv'
<1>0. /\ counter \in Nat /\ counter = counter % Wrap /\ total \in Nat
      /\ left \in 0..MaxBlock
  BY ModNear, CounterAssumption DEF TypeOK, Word
<1>1. Now = total /\ Publish(counter, total, at')
  BY NowExact DEF CoreInv, Publish, PublishDeadline
<1>2. /\ deadline' \in Word
      /\ Gap' \in 0..MaxSlice
      /\ \A e \in Events : at'[e] # Never /\ Gap' > 0 => total + Gap' <= at'[e]
  BY <1>0, <1>1, Published
<1>3. folded' \in Word /\ hi' \in Nat /\ Unread' = 0 /\ CounterInv'
  <2>1. CASE Fold
    BY <2>1, Folded DEF CoreInv
  <2>2. CASE UNCHANGED fold /\ Unread = 0
    BY <2>2, CounterAssumption
    DEF fold, CoreInv, CounterInv, TypeOK, Unread, Reading
  <2>. QED  BY <2>1, <2>2
<1>4. DeadlineInv'
  <2>1. PICK g \in 0..MaxSlice : g = Gap'
    BY <1>2
  <2>2. left - MaxBlock <= g /\ g + 0 <= MaxSlice
    BY <1>0, CounterAssumption
  <2>. QED  BY <2>1, <2>2, <1>3 DEF DeadlineInv
<1>5. EventInv'
  BY <1>0, <1>2, CounterAssumption DEF EventInv, InTime, CoreInv, Armed, TypeOK
<1>. QED  BY <1>2, <1>3, <1>4, <1>5 DEF CoreInv

(* Guest time and wall time pass, and the throttle stays where it is. *)
LEMMA PaceStill ==
    ASSUME TypeOK, PlaceInv, PaceInv,
           UNCHANGED <<rate, ref_cycle, ref_wall_ns, guest_ns_cycle, restored_at>>,
           at'[Throttle] = at[Throttle],
           NEW t \in Nat, total' = t, total <= t,
           NEW w \in Nat, wall' = w, wall <= w
    PROVE  PaceInv'
<1>1. /\ Throttle \in Events /\ at[Throttle] \in Nat /\ total \in Nat
      /\ wall \in Nat /\ rate \in Rates
      /\ ref_cycle \in Nat /\ ref_wall_ns \in Nat /\ guest_ns_cycle \in Nat
      /\ SliceNs \in Nat
  BY DeviceAssumption, PaceAssumption DEF TypeOK, PlaceInv, Armed, Throttle, Events
<1> DEFINE a == at[Throttle]
<1>2. \A x : (CyclesToNs(x))' = CyclesToNs(x)
  BY DEF CyclesToNs
<1>3. a >= t => CyclesToNs(a - t) <= SliceNs
  <2>. SUFFICES ASSUME a >= t PROVE CyclesToNs(a - t) <= SliceNs
    OBVIOUS
  <2>1. a - t \in Nat /\ a - total \in Nat /\ a - t <= a - total
    BY <1>1
  <2>2. /\ CyclesToNs(a - t) <= CyclesToNs(a - total)
        /\ CyclesToNs(a - t) \in Nat /\ CyclesToNs(a - total) \in Nat
    BY <2>1, <1>1, Conversions DEF CyclesToNs
  <2>3. CyclesToNs(a - total) <= SliceNs
    BY <1>1 DEF PaceInv
  <2>. QED  BY <1>1, <2>2, <2>3
<1>4. a - ref_cycle \in Nat
  BY <1>1 DEF PaceInv
<1>5. CyclesToNs(a - ref_cycle) \in Nat
  BY <1>1, <1>4, Conversions DEF CyclesToNs
<1>6. ref_wall_ns + CyclesToNs(a - ref_cycle) <= w + SliceNs
  BY <1>1, <1>5 DEF PaceInv, TargetWallNs
<1>7. ref_cycle <= t /\ guest_ns_cycle <= t /\ ref_cycle <= a
  BY <1>1 DEF PaceInv
<1>8. restored_at <= ref_cycle
  BY DEF PaceInv
<1>. QED  BY <1>2, <1>3, <1>6, <1>7, <1>8 DEF PaceInv, TargetWallNs, CyclesToNs

-----------------------------------------------------------------------------
(* Requests for a rate *)

(* A call that is not SetClockRate() is begun. *)
LEMMA RateOnPush ==
    ASSUME TypeOK, PlaceInv, RateInv, UNCHANGED <<rate, asked, rate_requests>>,
           NEW f \in Frames, f.fn # "rate", Push(f)
    PROVE  RateInv'
<1>1. /\ stack \in Seq(Frames) /\ stack' \in Seq(Frames)
      /\ Len(stack) \in Nat /\ Len(stack') = Len(stack) + 1
      /\ \A i \in 1..Len(stack) : stack'[i] = stack[i]
      /\ stack'[Len(stack) + 1] = f
  BY Pushed DEF PlaceInv
<1>2. DOMAIN stack = 1..Len(stack) /\ DOMAIN stack' = 1..(Len(stack) + 1)
  BY <1>1
<1>. QED  BY <1>1, <1>2 DEF RateInv

(* A call ends that does not hold the last request. *)
LEMMA RateOnPop ==
    ASSUME TypeOK, PlaceInv, RateInv, UNCHANGED <<rate, asked, rate_requests>>,
           stack # <<>>, Pop,
           stack[Len(stack)].fn = "rate" =>
               stack[Len(stack)].request # rate_requests
    PROVE  RateInv'
<1>1. /\ stack \in Seq(Frames) /\ stack' \in Seq(Frames)
      /\ Len(stack) \in Nat /\ Len(stack) >= 1 /\ Len(stack') = Len(stack) - 1
      /\ \A i \in 1..(Len(stack) - 1) : stack'[i] = stack[i]
  BY Popped DEF PlaceInv
<1>2. DOMAIN stack = 1..Len(stack) /\ DOMAIN stack' = 1..(Len(stack) - 1)
  BY <1>1
<1>3. \A i \in DOMAIN stack : i = Len(stack) \/ i \in DOMAIN stack'
  BY <1>1, <1>2
<1>. QED  BY <1>1, <1>2, <1>3 DEF RateInv

(* A request is made: there is no older one of its number. *)
LEMMA RateOnRequest ==
    ASSUME TypeOK, PlaceInv, RateInv, NEW r \in Rates, SetClockRate(r),
           UNCHANGED rate
    PROVE  /\ rate_requests' \in 0..MaxRequests /\ asked' \in Rates
           /\ RateInv'
           /\ \/ UNCHANGED <<fold, stack>>
              \/ Fold /\ \E n \in 1..MaxRequests : Push(RateCall(r, n))
<1> DEFINE n == rate_requests + 1
<1>1. /\ rate_requests' = n /\ asked' = r /\ n \in 1..MaxRequests
      /\ rate_requests \in Nat
  BY BoundAssumption DEF SetClockRate, TypeOK
<1>2. CASE r = rate
  <2>1. UNCHANGED <<fold, stack>>
    BY <1>2 DEF SetClockRate
  <2>2. \A i \in DOMAIN stack :
            stack[i].fn = "rate" =>
                stack[i].request <= n /\ stack[i].request # n
    BY <1>1, FrameFacts DEF RateInv, TypeOK
  <2>3. RateInv'
    BY <1>1, <1>2, <2>1, <2>2 DEF RateInv
  <2>. QED  BY <1>1, <2>1, <2>3
<1>3. CASE r # rate
  <2> DEFINE f == RateCall(r, n)
  <2>1. Fold /\ Push(f)
    BY <1>3 DEF SetClockRate
  <2>2. f \in Frames /\ f.fn = "rate" /\ f.rate = r /\ f.request = n
    BY <1>1, FrameFacts
  <2>. HIDE DEF f
  <2>3. /\ stack \in Seq(Frames) /\ stack' \in Seq(Frames)
        /\ Len(stack) \in Nat /\ Len(stack') = Len(stack) + 1
        /\ \A i \in 1..Len(stack) : stack'[i] = stack[i]
        /\ stack'[Len(stack) + 1] = f
    BY <2>1, <2>2, Pushed DEF PlaceInv
  <2>4. DOMAIN stack = 1..Len(stack) /\ DOMAIN stack' = 1..(Len(stack) + 1)
    BY <2>3
  <2>5. \A i \in DOMAIN stack :
            stack[i].fn = "rate" =>
                stack[i].request <= n /\ stack[i].request # n
    BY <1>1, FrameFacts DEF RateInv, TypeOK
  <2>6. \A i \in DOMAIN stack' : i = Len(stack) + 1 \/ i \in DOMAIN stack
    BY <2>3, <2>4
  <2>7. /\ \A i \in DOMAIN stack' :
                stack'[i].fn = "rate" =>
                    /\ stack'[i].request <= n
                    /\ stack'[i].request = n => stack'[i].rate = r
        /\ Len(stack) + 1 \in DOMAIN stack'
    BY <1>1, <2>2, <2>3, <2>4, <2>5, <2>6
  <2>8. RateInv'
    BY <1>1, <2>2, <2>3, <2>7 DEF RateInv
  <2>. QED  BY <1>1, <2>1, <2>8 DEF f
<1>. QED  BY <1>2, <1>3

-----------------------------------------------------------------------------
(* The order of events *)

(* RunDue() finds the earliest event. *)
LEMMA FirstDueIsFirst ==
    ASSUME TypeOK, NEW now \in Nat, Due(now) # {}
    PROVE  /\ FirstDue(now) \in Events /\ Armed(FirstDue(now))
           /\ at[FirstDue(now)] \in Nat /\ at[FirstDue(now)] <= now
           /\ \A e \in Events : Armed(e) => at[FirstDue(now)] <= at[e]
<1> DEFINE due == Due(now)
           S == {at[e] : e \in due}
<1>1. due \in SUBSET Nat /\ S \in SUBSET Nat /\ S # {} /\ due \in SUBSET Events
  <2>1. due \in SUBSET Events /\ Events \in SUBSET Nat /\ due # {}
    BY DeviceAssumption DEF Due, Events
  <2>2. \A e \in due : at[e] \in Nat
    BY DEF Due, Armed, TypeOK
  <2>. HIDE DEF due
  <2>. QED  BY <2>1, <2>2
<1>2. PICK m \in S : \A x \in S : m <= x
  BY <1>1, LeastExists
<1> DEFINE T == {e \in due : at[e] = m}
<1>3. T \in SUBSET Nat /\ T # {}
  BY <1>1
<1>4. PICK f \in T : \A x \in T : f <= x
  BY <1>3, LeastExists
<1>5. \E e \in due : \A g \in due : at[e] < at[g] \/ (at[e] = at[g] /\ e <= g)
  <2>1. f \in due /\ at[f] = m
    OBVIOUS
  <2>2. ASSUME NEW g \in due PROVE at[f] < at[g] \/ (at[f] = at[g] /\ f <= g)
    BY <1>1, <1>2, <1>4, <2>1
  <2>. QED  BY <2>1, <2>2
<1>6. /\ FirstDue(now) \in due
      /\ \A g \in due : at[FirstDue(now)] < at[g] \/ at[FirstDue(now)] = at[g]
  BY <1>5 DEF FirstDue
<1>7. \A e \in Events : Armed(e) => at[e] \in Nat /\ (e \in due \/ at[e] > now)
  BY DEF Due, Armed, TypeOK
<1>8. /\ FirstDue(now) \in Events /\ Armed(FirstDue(now)) /\ at[FirstDue(now)] <= now
  BY <1>6 DEF Due
<1>. HIDE DEF due, S, T
<1>. QED  BY <1>6, <1>7, <1>8

-----------------------------------------------------------------------------
(* The steps, one by one *)

(* What every step starts from. *)
LEMMA Facts ==
    ASSUME IInv
    PROVE  /\ Now = total /\ total \in Nat /\ left \in 0..MaxBlock
           /\ Throttle \in Events /\ at[Throttle] \in Nat /\ Events \in SUBSET Nat
           /\ at \in [Events -> Nat \cup {Never}] /\ Never \notin Nat
           /\ rate \in Rates /\ wall \in Nat
           /\ TargetWallNs(total) \in Nat
           /\ CyclesToNs(total - guest_ns_cycle) \in Nat
<1>1. /\ Now = total /\ total \in Nat /\ left \in 0..MaxBlock
      /\ at \in [Events -> Nat \cup {Never}]
      /\ rate \in Rates /\ wall \in Nat
      /\ ref_wall_ns \in Nat /\ ref_cycle \in Nat /\ guest_ns_cycle \in Nat
  BY NowExact DEF IInv, CoreInv, TypeOK
<1>2. Throttle \in Events /\ Events \in SUBSET Nat /\ Never \notin Nat
  BY DeviceAssumption DEF Throttle, Events, Never
<1>3. at[Throttle] \in Nat
  BY <1>1, <1>2 DEF IInv, PlaceInv, Armed
<1>4. total - ref_cycle \in Nat /\ total - guest_ns_cycle \in Nat
  BY <1>1 DEF IInv, PaceInv
<1>5. /\ CyclesToNs(total - ref_cycle) \in Nat
      /\ CyclesToNs(total - guest_ns_cycle) \in Nat
  BY <1>1, <1>4, Conversions DEF CyclesToNs
<1>. QED  BY <1>1, <1>2, <1>3, <1>5 DEF TargetWallNs

LEMMA InitInv == Init => IInv
<1>. SUFFICES ASSUME Init PROVE IInv
  OBVIOUS
<1> DEFINE d == NsToCyclesAt(ResetRate, SliceNs)
           m == IF d <= MaxSlice THEN d ELSE MaxSlice
<1>1. /\ ResetRate \in Rates /\ SliceNs \in Nat /\ d \in Nat
      /\ CyclesToNsAt(ResetRate, 0) = 0
      /\ CyclesToNsAt(ResetRate, 0 + d) <= 0 + SliceNs
  BY RateAssumption, PaceAssumption, Conversions
<1>2. Throttle \in Events /\ Never \notin Nat
  BY DeviceAssumption DEF Throttle, Events, Never
<1>. HIDE DEF d
<1>3. /\ at \in [Events -> Nat \cup {Never}] /\ at[Throttle] = d
      /\ \A e \in Events : Armed(e) => e = Throttle
  BY <1>1, <1>2 DEF Init, Armed, d
<1>4. m \in 0..MaxSlice /\ m <= d /\ Min({d, MaxSlice}) = m
  BY <1>1, MinOfTwo, CounterAssumption
<1>5. deadline = m
  BY <1>4, ModNear, CounterAssumption DEF Init, d
<1>6. Gap = m
  <2>1. 0 \in Word /\ m \in Word /\ m \in Int /\ -MaxBlock <= m /\ m <= MaxSlice
    BY <1>4, CounterAssumption DEF Word
  <2>2. LET back == (0 - m) % Wrap
        IN  (IF back < Wrap \div 2 THEN -back ELSE Wrap - back) = m
    BY <2>1, GapReads, m = 0 + m
  <2>. QED  BY <2>2, <1>5 DEF Gap, Init
<1>7. TypeOK
  BY <1>1, <1>3, <1>4, <1>5, CounterAssumption, BoundAssumption
  DEF Init, TypeOK, Word
<1>8. PlaceInv /\ ~Dispatching
  BY <1>2, <1>3, <1>1 DEF Init, PlaceInv, Armed, Dispatching
<1>9. Unread = 0
  BY CounterAssumption DEF Init, Unread, Reading
<1>10. CoreInv
  BY <1>1, <1>3, <1>4, <1>6, <1>8, <1>9, CounterAssumption
  DEF Init, CoreInv, CounterInv, DeadlineInv, EventInv, InTime
<1>11. OrderInv /\ RateInv
  BY <1>1, <1>3 DEF Init, OrderInv, RateInv
<1>12. PaceInv
  <2>1. 0 + d = d /\ d - 0 = d /\ 0 - 0 = 0 /\ 0 + SliceNs = SliceNs
    BY <1>1
  <2>2. CyclesToNsAt(ResetRate, d) <= SliceNs /\ CyclesToNsAt(ResetRate, d) \in Nat
    BY <1>1, <2>1, Conversions
  <2>3. CyclesToNs(at[Throttle] - total) <= SliceNs
    BY <1>3, <2>1, <2>2 DEF Init, CyclesToNs
  <2>4. TargetWallNs(at[Throttle]) <= wall + SliceNs
    BY <1>1, <1>3, <2>1, <2>2 DEF Init, TargetWallNs, CyclesToNs
  <2>. QED  BY <1>1, <1>3, <2>3, <2>4 DEF Init, PaceInv
<1>. QED  BY <1>7, <1>8, <1>10, <1>11, <1>12 DEF IInv

LEMMA RunThrottleInv == IInv /\ RunThrottle => IInv'
<1>. SUFFICES ASSUME IInv, RunThrottle PROVE IInv'
  OBVIOUS
<1> DEFINE k == NsToCycles(SliceNs)
           target == TargetWallNs(total)
<1>0. TypeOK /\ PlaceInv /\ CoreInv /\ OrderInv /\ RateInv /\ PaceInv
  BY DEF IInv
<1>1. /\ Now = total /\ total \in Nat /\ left \in 0..MaxBlock
      /\ Throttle \in Events /\ at[Throttle] \in Nat /\ Never \notin Nat
      /\ at \in [Events -> Nat \cup {Never}] /\ rate \in Rates /\ wall \in Nat
      /\ target \in Nat
  BY Facts
<1>2. SliceNs \in Nat /\ MaxCatchUpNs \in Nat /\ k \in Nat
  BY <1>1, PaceAssumption, Conversions DEF NsToCycles
<1>3. /\ \E late \in Pauses \cup {0} :
              wall' = IF target > wall THEN target + late ELSE wall
      /\ ref_wall_ns' = IF wall - target > MaxCatchUpNs
                        THEN ref_wall_ns + (wall - target) - MaxCatchUpNs
                        ELSE ref_wall_ns
      /\ at' = [at EXCEPT ![Throttle] = total + k]
      /\ Publish(counter, Now, at') /\ Fold
      /\ last_run' = at[Throttle]
      /\ UNCHANGED <<counter, rate, rate_requests, ref_cycle, guest_ns_cycle,
                     guest_ns, asked, mode, left, unrestored, stack, total,
                     restored_at>>
  BY <1>1 DEF RunThrottle, OnThrottle, Arm, place
<1>4. /\ at[Throttle] <= total
      /\ \A e \in Events : Armed(e) => at[Throttle] <= at[e]
  BY <1>1, <1>0, FirstDueIsFirst DEF RunThrottle
<1>. HIDE DEF k, target
<1>5. /\ at' \in [Events -> Nat \cup {Never}] /\ at'[Throttle] = total + k
      /\ \A e \in Events : e = Throttle \/ at'[e] = at[e]
  BY <1>1, <1>2, <1>3
<1>6. deadline' \in Word /\ folded' \in Word /\ hi' \in Nat /\ CoreInv'
  <2>1. \A e \in Events :
            at'[e] = Never \/ at'[e] >= total \/ at'[e] = at[e]
    BY <1>1, <1>2, <1>3, <1>5
  <2>2. at'[Throttle] # Never /\ UNCHANGED <<counter, total, left, restored_at>>
    BY <1>1, <1>2, <1>3, <1>5
  <2>. QED  BY <1>0, <1>3, <1>5, <2>1, <2>2, Rearmed
<1>7. /\ wall' \in Nat /\ wall <= wall' /\ target <= wall'
      /\ ref_wall_ns' \in Nat
  <2>1. Pauses \subseteq Nat /\ ref_wall_ns \in Nat
    BY <1>0, InputAssumption DEF TypeOK
  <2>. QED  BY <1>1, <1>2, <1>3, <2>1
<1>8. TypeOK'
  BY <1>0, <1>1, <1>3, <1>5, <1>6, <1>7 DEF TypeOK
<1>9. PlaceInv'
  BY <1>0, <1>1, <1>2, <1>3, <1>5 DEF PlaceInv, Armed
<1>10. OrderInv'
  BY <1>1, <1>2, <1>3, <1>4, <1>5 DEF OrderInv, Armed
<1>11. RateInv'
  BY <1>0, <1>3 DEF RateInv
<1>12. PaceInv'
  <2>1. /\ ref_cycle <= total /\ guest_ns_cycle <= total
        /\ ref_cycle \in Nat /\ guest_ns_cycle \in Nat /\ ref_wall_ns \in Nat
    BY <1>0 DEF PaceInv, TypeOK
  <2> DEFINE x == total - ref_cycle
  <2>2. x \in Nat /\ (total + k) - ref_cycle = x + k /\ (total + k) - total = k
    BY <1>1, <1>2, <2>1
  <2>3. /\ CyclesToNs(x) \in Nat /\ CyclesToNs(x + k) \in Nat
        /\ CyclesToNs(x + k) <= CyclesToNs(x) + SliceNs
        /\ CyclesToNs(0) = 0
        /\ CyclesToNs(0 + k) <= CyclesToNs(0) + SliceNs
    <3>. HIDE DEF x
    <3>. QED  BY <1>1, <1>2, <2>2, Conversions DEF CyclesToNs, NsToCycles, k
  <2>4. CyclesToNs(k) <= SliceNs
    BY <2>3, <1>2
  <2>5. target = ref_wall_ns + CyclesToNs(x)
    BY DEF target, TargetWallNs
  <2>. HIDE DEF x
  <2>6. ref_wall_ns' + CyclesToNs(x + k) <= wall' + SliceNs
    <3>1. ref_wall_ns' + CyclesToNs(x) <= wall'
      BY <1>1, <1>2, <1>3, <1>7, <2>1, <2>3, <2>5
    <3>. QED  BY <3>1, <2>3, <1>2, <1>7
  <2>7. \A c : (CyclesToNs(c))' = CyclesToNs(c)
    BY <1>3 DEF CyclesToNs
  <2>8. TargetWallNs(at[Throttle])' <= wall' + SliceNs
    BY <1>3, <1>5, <2>2, <2>6, <2>7 DEF TargetWallNs, CyclesToNs
  <2>9. CyclesToNs(at[Throttle] - total)' <= SliceNs
    BY <1>3, <1>5, <2>2, <2>4, <2>7 DEF CyclesToNs
  <2>10. restored_at' <= ref_cycle' /\ ref_cycle' <= at'[Throttle]
    BY <1>0, <1>1, <1>2, <1>3, <1>5, <2>1 DEF PaceInv
  <2>. QED  BY <1>1, <1>2, <1>3, <1>5, <2>1, <2>8, <2>9, <2>10 DEF PaceInv
<1>. QED  BY <1>6, <1>8, <1>9, <1>10, <1>11, <1>12 DEF IInv

(* A step that moves no event, no anchor and no rate, and lets at most the *)
(* wall clock go on and the counter be read.                               *)
LEMMA QuietInv ==
    ASSUME IInv,
           UNCHANGED <<counter, deadline, at, total, last_run, restored_at, unrestored>>,
           UNCHANGED <<rate, ref_cycle, ref_wall_ns, guest_ns_cycle, guest_ns>>,
           left' = left \/ left' = 0,
           NEW w \in Nat, wall' = w, wall <= w,
           ~Dispatching' => ~Dispatching,
           (Fold /\ left' = left) \/ (UNCHANGED fold /\ (Dispatching' => Dispatching)),
           stack' \in Seq(Frames),
           \A i \in 2..Len(stack') : stack'[i].fn # "dispatch",
           mode' \in {"guest", "wfi", "restore"},
           mode' # "guest" => left' = 0,
           mode' # "restore" => unrestored = {},
           rate_requests' \in 0..MaxRequests, asked' \in Rates, RateInv'
    PROVE  IInv'
<1>0. TypeOK /\ PlaceInv /\ CoreInv /\ OrderInv /\ PaceInv
  BY DEF IInv
<1>1. /\ total \in Nat /\ left \in 0..MaxBlock /\ 0 \in 0..MaxBlock
      /\ Throttle \in Events
  BY Facts, CounterAssumption
<1>2. folded' \in Word /\ hi' \in Nat /\ CoreInv'
  BY <1>0, Still
<1>3. TypeOK'
  BY <1>0, <1>1, <1>2 DEF TypeOK
<1>4. PlaceInv'
  BY <1>0, <1>1 DEF PlaceInv, Armed
<1>5. OrderInv'
  BY <1>0 DEF OrderInv, Armed
<1>6. PaceInv'
  BY <1>0, <1>1, PaceStill
<1>. QED  BY <1>2, <1>3, <1>4, <1>5, <1>6 DEF IInv

LEMMA RunDeviceInv == IInv /\ RunDevice => IInv'
<1>. SUFFICES ASSUME IInv, RunDevice PROVE IInv'
  OBVIOUS
<1>0. TypeOK /\ PlaceInv /\ CoreInv /\ OrderInv /\ RateInv /\ PaceInv
  BY DEF IInv
<1>1. /\ Now = total /\ total \in Nat /\ left \in 0..MaxBlock /\ wall \in Nat
      /\ Throttle \in Events /\ at[Throttle] \in Nat /\ Never \notin Nat
      /\ at \in [Events -> Nat \cup {Never}]
  BY Facts
<1> DEFINE f == FirstDue(total)
<1>2. /\ f # Throttle /\ at' = [at EXCEPT ![f] = Never] /\ last_run' = at[f]
      /\ Push(DeviceCode) /\ stack # <<>>
      /\ UNCHANGED <<counter, fold, deadline, rate, rate_requests, anchors,
                     asked, wall, mode, left, unrestored, total, restored_at>>
  <2>1. stack # <<>>
    BY Zenon DEF RunDevice, TopIs
  <2>. QED  BY <1>1, <2>1 DEF RunDevice, count, fold, pace, place
<1>3. /\ f \in Events /\ at[f] \in Nat /\ at[f] <= total
      /\ \A e \in Events : Armed(e) => at[f] <= at[e]
  BY <1>0, <1>1, FirstDueIsFirst DEF RunDevice
<1>. HIDE DEF f
<1>4. /\ stack' \in Seq(Frames) /\ (Dispatching' <=> Dispatching)
      /\ \A i \in 2..Len(stack') : stack'[i].fn # "dispatch"
  BY <1>0, <1>2, Pushed, FrameFacts
<1>5. /\ at' \in [Events -> Nat \cup {Never}] /\ at'[Throttle] = at[Throttle]
      /\ \A e \in Events : at'[e] = at[e] \/ at'[e] = Never
  BY <1>1, <1>2, <1>3
<1>6. folded' \in Word /\ hi' \in Nat /\ CoreInv'
  BY <1>0, <1>2, <1>4, <1>5, Still
<1>7. TypeOK'
  BY <1>0, <1>1, <1>2, <1>3, <1>4, <1>5, <1>6 DEF TypeOK, anchors
<1>8. PlaceInv'
  BY <1>0, <1>1, <1>2, <1>4, <1>5 DEF PlaceInv, Armed
<1>9. OrderInv'
  BY <1>1, <1>2, <1>3, <1>5 DEF OrderInv, Armed
<1>10. RateInv'
  BY <1>0, <1>2, RateOnPush, FrameFacts
<1>11. PaceInv'
  <2>1. UNCHANGED <<rate, ref_cycle, ref_wall_ns, guest_ns_cycle>>
    BY <1>2 DEF anchors
  <2>. QED  BY <2>1, <1>0, <1>1, <1>2, <1>5, PaceStill
<1>. QED  BY <1>6, <1>7, <1>8, <1>9, <1>10, <1>11 DEF IInv

LEMMA DispatchEndInv == IInv /\ DispatchEnd => IInv'
<1>. SUFFICES ASSUME IInv, DispatchEnd PROVE IInv'
  OBVIOUS
<1>0. TypeOK /\ PlaceInv /\ CoreInv /\ OrderInv /\ RateInv /\ PaceInv
  BY DEF IInv
<1>1. /\ Now = total /\ total \in Nat /\ left \in 0..MaxBlock /\ wall \in Nat
      /\ Throttle \in Events /\ at[Throttle] \in Nat /\ Never \notin Nat
      /\ at \in [Events -> Nat \cup {Never}]
  BY Facts
<1>2. /\ Top.fn = "dispatch" /\ stack # <<>> /\ Pop
      /\ Publish(counter, Now, at') /\ at' = at
      /\ UNCHANGED <<counter, fold, rate, rate_requests, anchors, asked, wall,
                     mode, left, unrestored, total, last_run, restored_at>>
  <2>1. DispatchEnd => Publish(counter, Now, at') /\ at' = at
    BY DEF DispatchEnd, Publish
  <2>2. Top.fn = "dispatch" /\ stack # <<>>
    BY Zenon DEF DispatchEnd, TopIs
  <2>. QED  BY <2>1, <2>2 DEF DispatchEnd, count, fold, pace, place, ghosts
<1>3. stack' = <<>> /\ Dispatching
  BY <1>0, <1>2, Popped
<1>4. ~Dispatching' /\ Unread = 0
  BY <1>0, <1>3 DEF Dispatching, CoreInv, DeadlineInv
<1>5. deadline' \in Word /\ folded' \in Word /\ hi' \in Nat /\ CoreInv'
  <2>1. \A e \in Events :
            at'[e] = Never \/ at'[e] >= total \/ at'[e] = at[e]
    BY <1>2
  <2>2. /\ at' \in [Events -> Nat \cup {Never}] /\ at'[Throttle] # Never
        /\ UNCHANGED <<counter, total, left, restored_at>>
    BY <1>1, <1>2
  <2>. QED  BY <1>0, <1>2, <1>4, <2>1, <2>2, Rearmed
<1>6. TypeOK'
  BY <1>0, <1>2, <1>3, <1>5 DEF TypeOK, anchors
<1>7. PlaceInv'
  BY <1>0, <1>2, <1>3 DEF PlaceInv, Armed
<1>8. OrderInv'
  BY <1>0, <1>2 DEF OrderInv, Armed
<1>9. RateInv'
  BY <1>0, <1>2, RateOnPop DEF Top
<1>10. PaceInv'
  <2>1. UNCHANGED <<rate, ref_cycle, ref_wall_ns, guest_ns_cycle>>
    BY <1>2 DEF anchors
  <2>. QED  BY <2>1, <1>0, <1>1, <1>2, PaceStill
<1>. QED  BY <1>5, <1>6, <1>7, <1>8, <1>9, <1>10 DEF IInv

(* A device arms or disarms an event. *)
LEMMA DeviceMovesEvent ==
    ASSUME IInv, NEW e \in Events \ {Throttle}, NEW c \in Nat \cup {Never},
           c = Never \/ c >= total,
           at' = [at EXCEPT ![e] = c], Publish(counter, Now, at'), Fold,
           UNCHANGED <<counter, pace, wall, mode, left, stack, ghosts>>,
           unrestored' = unrestored \/ unrestored' = unrestored \ {e}
    PROVE  IInv'
<1>0. TypeOK /\ PlaceInv /\ CoreInv /\ OrderInv /\ RateInv /\ PaceInv
  BY DEF IInv
<1>1. /\ Now = total /\ total \in Nat /\ left \in 0..MaxBlock /\ wall \in Nat
      /\ Throttle \in Events /\ at[Throttle] \in Nat /\ Never \notin Nat
      /\ at \in [Events -> Nat \cup {Never}]
  BY Facts
<1>2. UNCHANGED <<counter, rate, rate_requests, ref_cycle, ref_wall_ns,
                  guest_ns_cycle, guest_ns, asked, wall, mode, left, stack,
                  total, last_run, restored_at>>
  BY DEF pace, anchors, ghosts
<1>3. /\ at' \in [Events -> Nat \cup {Never}] /\ at'[Throttle] = at[Throttle]
      /\ at'[e] = c /\ \A g \in Events : g = e \/ at'[g] = at[g]
  BY <1>1
<1>4. deadline' \in Word /\ folded' \in Word /\ hi' \in Nat /\ CoreInv'
  <2>1. \A g \in Events :
            at'[g] = Never \/ at'[g] >= total \/ at'[g] = at[g]
    BY <1>3
  <2>2. at'[Throttle] # Never /\ UNCHANGED <<counter, total, left, restored_at>>
    BY <1>1, <1>2, <1>3
  <2>. QED  BY <1>0, <1>3, <2>1, <2>2, Rearmed
<1>5. TypeOK'
  BY <1>0, <1>2, <1>3, <1>4 DEF TypeOK
<1>6. PlaceInv'
  BY <1>0, <1>1, <1>2, <1>3 DEF PlaceInv, Armed
<1>7. OrderInv'
  <2>1. last_run \in Nat /\ last_run <= total
    BY <1>0 DEF TypeOK, OrderInv
  <2>. QED  BY <2>1, <1>0, <1>1, <1>2, <1>3 DEF OrderInv, Armed
<1>8. RateInv'
  BY <1>0, <1>2 DEF RateInv
<1>9. PaceInv'
  BY <1>0, <1>1, <1>2, <1>3, PaceStill
<1>. QED  BY <1>4, <1>5, <1>6, <1>7, <1>8, <1>9 DEF IInv

LEMMA DeviceArmsInv == IInv /\ DeviceArms => IInv'
<1>. SUFFICES ASSUME IInv, DeviceArms PROVE IInv'
  OBVIOUS
<1>1. PICK e \in Events \ {Throttle}, d \in Delays : Arm(e, Now + d)
  BY DEF DeviceArms
<1> DEFINE c == Now + d
<1>2. c \in Nat /\ c >= total
  BY Facts, InputAssumption
<1>3. /\ at' = [at EXCEPT ![e] = c] /\ Publish(counter, Now, at') /\ Fold
  BY <1>1 DEF Arm
<1>4. /\ UNCHANGED <<counter, pace, wall, mode, left, stack, ghosts>>
      /\ unrestored' = unrestored
  BY DEF DeviceArms, place
<1>. HIDE DEF c
<1>. QED  BY <1>2, <1>3, <1>4, DeviceMovesEvent

LEMMA DeviceDisarmsInv == IInv /\ DeviceDisarms => IInv'
<1>. SUFFICES ASSUME IInv, DeviceDisarms PROVE IInv'
  OBVIOUS
<1>1. PICK e \in Events \ {Throttle} : Disarm(e)
  BY DEF DeviceDisarms
<1>2. /\ at' = [at EXCEPT ![e] = Never] /\ Publish(counter, Now, at') /\ Fold
  BY <1>1 DEF Disarm
<1>3. /\ UNCHANGED <<counter, pace, wall, mode, left, stack, ghosts>>
      /\ unrestored' = unrestored
  BY DEF DeviceDisarms, place
<1>. QED  BY <1>2, <1>3, DeviceMovesEvent

LEMMA PostRestoreEventInv == IInv /\ PostRestoreEvent => IInv'
<1>. SUFFICES ASSUME IInv, PostRestoreEvent PROVE IInv'
  OBVIOUS
<1>1. PICK e \in unrestored :
          /\ \/ \E d \in Delays : Arm(e, Now + d)
             \/ Disarm(e)
             \/ UNCHANGED <<queue, fold>>
          /\ unrestored' = unrestored \ {e}
  BY DEF PostRestoreEvent
<1>2. e \in Events \ {Throttle}
  BY DEF IInv, TypeOK, PlaceInv
<1>3. UNCHANGED <<counter, pace, wall, mode, left, stack, ghosts>>
  BY DEF PostRestoreEvent
<1>4. CASE Disarm(e)
  <2>1. at' = [at EXCEPT ![e] = Never] /\ Publish(counter, Now, at') /\ Fold
    BY <1>4 DEF Disarm
  <2>. QED  BY <1>1, <1>2, <1>3, <2>1, DeviceMovesEvent
<1>5. ASSUME NEW d \in Delays, Arm(e, Now + d) PROVE IInv'
  <2> DEFINE c == Now + d
  <2>1. c \in Nat /\ c >= total
    BY Facts, InputAssumption
  <2>2. at' = [at EXCEPT ![e] = c] /\ Publish(counter, Now, at') /\ Fold
    BY <1>5 DEF Arm
  <2>. HIDE DEF c
  <2>. QED  BY <1>1, <1>2, <1>3, <2>1, <2>2, DeviceMovesEvent
<1>6. CASE UNCHANGED <<queue, fold>>
  <2>1. /\ UNCHANGED <<counter, folded, hi, at, deadline, rate, rate_requests,
                       ref_cycle, ref_wall_ns, guest_ns_cycle, guest_ns, asked,
                       wall, mode, left, stack, total, last_run, restored_at>>
        /\ mode = "restore" /\ unrestored' \subseteq unrestored
    BY <1>1, <1>3, <1>6
    DEF PostRestoreEvent, queue, fold, pace, anchors, ghosts
  <2>2. TypeOK' /\ PlaceInv'
    BY <2>1 DEF IInv, TypeOK, PlaceInv, Armed
  <2>3. CoreInv'
    BY <2>1 DEF IInv, CoreInv, CounterInv, DeadlineInv, EventInv, InTime,
                Dispatching, Unread, Reading, Gap, Armed
  <2>4. OrderInv' /\ RateInv' /\ PaceInv'
    BY <2>1 DEF IInv, OrderInv, RateInv, PaceInv, Armed, TargetWallNs, CyclesToNs
  <2>. QED  BY <2>2, <2>3, <2>4 DEF IInv
<1>. QED  BY <1>1, <1>4, <1>5, <1>6

(* A call ends that is neither a dispatch nor the last request's. *)
LEMMA ReturnInv ==
    ASSUME IInv, stack # <<>>, Pop, Top.fn # "dispatch",
           Top.fn = "rate" => Top.request # rate_requests,
           UNCHANGED <<count, queue, pace, wall, place, ghosts>>
    PROVE  IInv'
<1>1. /\ UNCHANGED <<counter, deadline, at, total, last_run, restored_at, unrestored, fold>>
      /\ UNCHANGED <<rate, ref_cycle, ref_wall_ns, guest_ns_cycle, guest_ns>>
      /\ UNCHANGED <<left, wall, mode, rate_requests, asked>>
  BY DEF count, fold, queue, pace, anchors, place, ghosts
<1>2. /\ TypeOK /\ PlaceInv /\ RateInv /\ wall \in Nat /\ wall <= wall
      /\ rate_requests \in 0..MaxRequests /\ asked \in Rates
      /\ mode \in {"guest", "wfi", "restore"}
  BY Facts DEF IInv, TypeOK
<1>3. /\ stack' \in Seq(Frames) /\ (Dispatching' <=> Dispatching)
      /\ \A i \in 2..Len(stack') : stack'[i].fn # "dispatch"
  BY <1>2, Popped
<1>4. RateInv'
  BY <1>1, <1>2, RateOnPop DEF Top
<1>5. /\ mode' # "guest" => left' = 0
      /\ mode' # "restore" => unrestored = {}
  BY <1>1, <1>2 DEF PlaceInv
<1>. QED  BY <1>1, <1>2, <1>3, <1>4, <1>5, QuietInv

LEMMA DeviceReturnsInv == IInv /\ DeviceReturns => IInv'
<1>. SUFFICES ASSUME IInv, DeviceReturns PROVE IInv'
  OBVIOUS
<1>1. stack # <<>> /\ Top.fn = "device" /\ Pop
  BY Zenon DEF DeviceReturns, TopIs
<1>2. UNCHANGED <<count, queue, pace, wall, place, ghosts>>
  BY DEF DeviceReturns
<1>. QED  BY <1>1, <1>2, ReturnInv

LEMMA RateOvertakenInv == IInv /\ RateOvertaken => IInv'
<1>. SUFFICES ASSUME IInv, RateOvertaken PROVE IInv'
  OBVIOUS
<1>1. stack # <<>> /\ Top.fn = "rate" /\ Pop /\ Top.request # rate_requests
  BY Zenon DEF RateOvertaken, TopIs
<1>2. UNCHANGED <<count, queue, pace, wall, place, ghosts>>
  BY DEF RateOvertaken
<1>. QED  BY <1>1, <1>2, ReturnInv

(* A rate is asked for. *)
LEMMA RequestInv ==
    ASSUME IInv, NEW r \in Rates, SetClockRate(r), stack # <<>> \/ ~Dispatching,
           UNCHANGED <<counter, queue, rate, anchors, wall, place, ghosts>>
    PROVE  IInv'
<1>1. /\ UNCHANGED <<counter, deadline, at, total, last_run, restored_at, unrestored>>
      /\ UNCHANGED <<rate, ref_cycle, ref_wall_ns, guest_ns_cycle, guest_ns>>
      /\ UNCHANGED <<left, wall, mode>>
  BY DEF queue, anchors, place, ghosts
<1>2. /\ TypeOK /\ PlaceInv /\ RateInv /\ wall \in Nat /\ wall <= wall
      /\ mode \in {"guest", "wfi", "restore"}
  BY Facts DEF IInv, TypeOK
<1>3. /\ rate_requests' \in 0..MaxRequests /\ asked' \in Rates /\ RateInv'
      /\ \/ UNCHANGED <<fold, stack>>
         \/ Fold /\ \E n \in 1..MaxRequests : Push(RateCall(r, n))
  BY <1>1, <1>2, RateOnRequest
<1>4. /\ mode' # "guest" => left' = 0
      /\ mode' # "restore" => unrestored = {}
  BY <1>1, <1>2 DEF PlaceInv
<1>5. CASE UNCHANGED <<fold, stack>>
  <2>1. /\ stack' \in Seq(Frames) /\ (Dispatching' <=> Dispatching)
        /\ \A i \in 2..Len(stack') : stack'[i].fn # "dispatch"
        /\ UNCHANGED fold
    BY <1>2, <1>5 DEF PlaceInv, Dispatching
  <2>. QED  BY <1>1, <1>2, <1>3, <1>4, <2>1, QuietInv
<1>6. ASSUME Fold, NEW n \in 1..MaxRequests, Push(RateCall(r, n))
      PROVE  IInv'
  <2>1. RateCall(r, n) \in Frames /\ RateCall(r, n).fn = "rate"
    BY FrameFacts
  <2>2. /\ stack' \in Seq(Frames) /\ (Dispatching' <=> Dispatching)
        /\ \A i \in 2..Len(stack') : stack'[i].fn # "dispatch"
    BY <1>2, <1>6, <2>1, Pushed DEF Dispatching
  <2>. QED  BY <1>1, <1>2, <1>3, <1>4, <1>6, <2>2, QuietInv
<1>. QED  BY <1>3, <1>5, <1>6

LEMMA DeviceSetsRateInv == IInv /\ DeviceSetsRate => IInv'
<1>. SUFFICES ASSUME IInv, DeviceSetsRate PROVE IInv'
  OBVIOUS
<1>1. PICK r \in Rates : SetClockRate(r)
  BY DEF DeviceSetsRate
<1>2. stack # <<>>
  BY Zenon DEF DeviceSetsRate, TopIs
<1>3. UNCHANGED <<counter, queue, rate, anchors, wall, place, ghosts>>
  BY DEF DeviceSetsRate
<1>. QED  BY <1>1, <1>2, <1>3, RequestInv

LEMMA PostRestoreRateInv == IInv /\ PostRestoreRate => IInv'
<1>. SUFFICES ASSUME IInv, PostRestoreRate PROVE IInv'
  OBVIOUS
<1>1. PICK r \in Rates : SetClockRate(r)
  BY DEF PostRestoreRate
<1>2. ~Dispatching
  BY DEF PostRestoreRate, Dispatching
<1>3. UNCHANGED <<counter, queue, rate, anchors, wall, place, ghosts>>
  BY DEF PostRestoreRate
<1>. QED  BY <1>1, <1>2, <1>3, RequestInv

(* A dispatch or an access to a device begins. *)
LEMMA BeginInv ==
    ASSUME IInv, stack = <<>>,
           (Push(Dispatch) /\ Fold) \/ (Push(DeviceCode) /\ UNCHANGED fold),
           UNCHANGED <<counter, queue, pace, wall, place, ghosts>>
    PROVE  IInv'
<1>1. /\ UNCHANGED <<counter, deadline, at, total, last_run, restored_at, unrestored>>
      /\ UNCHANGED <<rate, ref_cycle, ref_wall_ns, guest_ns_cycle, guest_ns>>
      /\ UNCHANGED <<left, wall, mode, rate_requests, asked>>
  BY DEF queue, pace, anchors, place, ghosts
<1>2. /\ TypeOK /\ PlaceInv /\ RateInv /\ wall \in Nat /\ wall <= wall
      /\ rate_requests \in 0..MaxRequests /\ asked \in Rates
      /\ mode \in {"guest", "wfi", "restore"}
  BY Facts DEF IInv, TypeOK
<1>3. /\ mode' # "guest" => left' = 0
      /\ mode' # "restore" => unrestored = {}
  BY <1>1, <1>2 DEF PlaceInv
<1>4. CASE Push(Dispatch) /\ Fold
  <2>1. /\ stack' \in Seq(Frames) /\ Dispatching' /\ ~Dispatching
        /\ \A i \in 2..Len(stack') : stack'[i].fn # "dispatch"
    BY <1>2, <1>4, Pushed, FrameFacts
  <2>2. RateInv'
    BY <1>1, <1>2, <1>4, RateOnPush, FrameFacts
  <2>. QED  BY <1>1, <1>2, <1>3, <1>4, <2>1, <2>2, QuietInv
<1>5. CASE Push(DeviceCode) /\ UNCHANGED fold
  <2>1. /\ stack' \in Seq(Frames) /\ ~Dispatching' /\ ~Dispatching
        /\ \A i \in 2..Len(stack') : stack'[i].fn # "dispatch"
    BY <1>2, <1>5, Pushed, FrameFacts
  <2>2. RateInv'
    BY <1>1, <1>2, <1>5, RateOnPush, FrameFacts
  <2>. QED  BY <1>1, <1>2, <1>3, <1>5, <2>1, <2>2, QuietInv
<1>. QED  BY <1>4, <1>5

LEMMA OnDispatchInv == IInv /\ OnDispatch => IInv'
BY BeginInv DEF OnDispatch, InGuest

LEMMA IdleDueInv == IInv /\ IdleDue => IInv'
BY BeginInv DEF IdleDue

LEMMA AccessInv == IInv /\ Access => IInv'
BY BeginInv DEF Access, InGuest, count, fold

(* Nothing is called: wall time passes, or the guest changes its mode. *)
LEMMA PassInv ==
    ASSUME IInv, UNCHANGED <<count, queue, pace, stack, unrestored, ghosts>>,
           left' = left \/ left' = 0,
           NEW w \in Nat, wall' = w, wall <= w,
           mode' \in {"guest", "wfi", "restore"},
           mode' # "guest" => left' = 0,
           mode' # "restore" => unrestored = {}
    PROVE  IInv'
<1>1. /\ UNCHANGED <<counter, deadline, at, total, last_run, restored_at, unrestored, fold>>
      /\ UNCHANGED <<rate, ref_cycle, ref_wall_ns, guest_ns_cycle, guest_ns>>
      /\ UNCHANGED <<stack, rate_requests, asked>>
  BY DEF count, fold, queue, pace, anchors, ghosts
<1>2. /\ TypeOK /\ PlaceInv /\ RateInv
      /\ rate_requests \in 0..MaxRequests /\ asked \in Rates
  BY DEF IInv, TypeOK
<1>3. /\ stack' \in Seq(Frames) /\ (Dispatching' <=> Dispatching)
      /\ \A i \in 2..Len(stack') : stack'[i].fn # "dispatch"
  BY <1>1, <1>2 DEF PlaceInv, Dispatching
<1>4. RateInv'
  BY <1>1, <1>2 DEF RateInv
<1>. QED  BY <1>1, <1>2, <1>3, <1>4, QuietInv

LEMMA TimePassesInv == IInv /\ TimePasses => IInv'
<1>. SUFFICES ASSUME IInv, TimePasses PROVE IInv'
  OBVIOUS
<1>1. PICK d \in Pauses : wall' = wall + d
  BY DEF TimePasses
<1> DEFINE w == wall + d
<1>2. w \in Nat /\ wall <= w /\ wall' = w
  BY <1>1, Facts, InputAssumption
<1>3. /\ UNCHANGED <<count, queue, pace, stack, unrestored, ghosts>>
      /\ left' = left /\ mode' = mode
  BY DEF TimePasses, place
<1>4. /\ mode' \in {"guest", "wfi", "restore"}
      /\ mode' # "guest" => left' = 0
      /\ mode' # "restore" => unrestored = {}
  BY <1>3 DEF IInv, TypeOK, PlaceInv
<1>. HIDE DEF w
<1>. QED  BY <1>2, <1>3, <1>4, PassInv

LEMMA EnterWfiInv == IInv /\ EnterWfi => IInv'
<1>. SUFFICES ASSUME IInv, EnterWfi PROVE IInv'
  OBVIOUS
<1>1. /\ UNCHANGED <<count, queue, pace, stack, unrestored, ghosts>>
      /\ left' = 0 /\ mode' = "wfi" /\ wall' = wall /\ unrestored = {}
  BY DEF EnterWfi, InGuest, IInv, PlaceInv
<1>2. wall \in Nat /\ wall <= wall
  BY Facts
<1>. QED  BY <1>1, <1>2, PassInv

LEMMA ExitIdleInv == IInv /\ ExitIdle => IInv'
<1>. SUFFICES ASSUME IInv, ExitIdle PROVE IInv'
  OBVIOUS
<1>1. /\ UNCHANGED <<count, queue, pace, stack, unrestored, ghosts>>
      /\ left' = left /\ mode' = "guest" /\ wall' = wall /\ unrestored = {}
  BY DEF ExitIdle, IInv, PlaceInv
<1>2. wall \in Nat /\ wall <= wall
  BY Facts
<1>. QED  BY <1>1, <1>2, PassInv

LEMMA RestoreEndsInv == IInv /\ RestoreEnds => IInv'
<1>. SUFFICES ASSUME IInv, RestoreEnds PROVE IInv'
  OBVIOUS
<1>1. /\ UNCHANGED <<count, queue, pace, stack, unrestored, ghosts>>
      /\ left' = left /\ mode' = "guest" /\ wall' = wall /\ unrestored = {}
  BY DEF RestoreEnds
<1>2. wall \in Nat /\ wall <= wall
  BY Facts
<1>. QED  BY <1>1, <1>2, PassInv

(* The gap is the way from the counter to the deadline. *)
LEMMA GapMeans ==
    ASSUME TypeOK
    PROVE  /\ counter \in Word /\ deadline \in Word /\ Gap \in Int
           /\ \/ deadline = counter + Gap \/ deadline = counter + Gap - Wrap
              \/ deadline = counter + Gap + Wrap
           /\ DeadlineReached <=> Gap <= 0
<1>1. /\ counter \in Word /\ deadline \in Word /\ counter \in Int /\ deadline \in Int
      /\ counter - deadline \in Int
  BY DEF TypeOK, Word
<1> DEFINE back == (counter - deadline) % Wrap
<1>2. /\ back \in Word
      /\ back = counter - deadline \/ back = counter - deadline + Wrap
  BY <1>1, ModNear, CounterAssumption DEF Word
<1>3. /\ Gap = IF back < Wrap \div 2 THEN -back ELSE Wrap - back
      /\ DeadlineReached <=> back < Wrap \div 2
  BY DEF Gap, DeadlineReached
<1>. HIDE DEF back
<1>. QED  BY <1>1, <1>2, <1>3, CounterAssumption DEF Word

LEMMA PollGoesOnInv == IInv /\ PollGoesOn => IInv'
<1>. SUFFICES ASSUME IInv, PollGoesOn PROVE IInv'
  OBVIOUS
<1>0. TypeOK /\ PlaceInv /\ CoreInv /\ OrderInv /\ RateInv /\ PaceInv
  BY DEF IInv
<1>1. PICK n \in 1..MaxBlock : left' = n
  BY DEF PollGoesOn
<1>2. /\ UNCHANGED <<counter, folded, hi, at, deadline, rate, rate_requests,
                     ref_cycle, ref_wall_ns, guest_ns_cycle, guest_ns, asked,
                     wall, mode, unrestored, stack, total, last_run, restored_at>>
      /\ left = 0 /\ mode = "guest" /\ stack = <<>> /\ ~DeadlineReached
  BY DEF PollGoesOn, InGuest, count, queue, pace, anchors, ghosts
<1>3. /\ total \in Nat /\ wall \in Nat /\ Unread \in Int
      /\ MaxBlock \in Nat /\ MaxSlice \in Nat
      /\ at \in [Events -> Nat \cup {Never}]
  BY Facts, CounterAssumption DEF IInv, TypeOK, Unread, Reading, Word
<1>4. Gap' = Gap /\ Gap \in Int /\ Gap > 0 /\ Unread' = Unread
      /\ ~Dispatching /\ ~Dispatching'
  BY <1>0, <1>2, GapMeans DEF Gap, Unread, Reading, Dispatching
<1>5. Gap + Unread <= MaxSlice /\ 0 <= Unread
  BY <1>0, <1>4 DEF CoreInv, DeadlineInv, CounterInv
<1>6. CounterInv'
  <2>1. Unread + n <= MaxSlice + MaxBlock
    BY <1>3, <1>4, <1>5
  <2>. QED  BY <2>1, <1>0, <1>1, <1>2, <1>4 DEF CoreInv, CounterInv
<1>7. DeadlineInv'
  <2>1. n - MaxBlock <= Gap
    BY <1>3, <1>4
  <2>. QED  BY <2>1, <1>1, <1>4, <1>5 DEF DeadlineInv
<1>8. EventInv'
  <2>. SUFFICES ASSUME NEW e \in Events, Armed(e)
                PROVE  total + n <= at[e] + MaxBlock /\ total + Gap <= at[e]
    BY <1>1, <1>2, <1>4 DEF EventInv, InTime, Armed
  <2>1. total + Gap <= at[e] /\ at[e] \in Nat
    BY <1>0, <1>3, <1>4 DEF CoreInv, EventInv, Armed
  <2>. QED  BY <2>1, <1>3, <1>4
<1>9. TypeOK'
  BY <1>0, <1>1, <1>2 DEF TypeOK
<1>10. PlaceInv' /\ OrderInv' /\ RateInv'
  BY <1>0, <1>2 DEF PlaceInv, OrderInv, RateInv, Armed
<1>11. PaceInv'
  BY <1>0, <1>2, <1>3, PaceStill
<1>. QED  BY <1>6, <1>7, <1>8, <1>9, <1>10, <1>11 DEF IInv, CoreInv

LEMMA ExecuteInv == IInv /\ Execute => IInv'
<1>. SUFFICES ASSUME IInv, Execute PROVE IInv'
  OBVIOUS
<1>0. TypeOK /\ PlaceInv /\ CoreInv /\ OrderInv /\ RateInv /\ PaceInv
  BY DEF IInv
<1>1. /\ UNCHANGED <<folded, hi, at, deadline, rate, rate_requests,
                     ref_cycle, ref_wall_ns, guest_ns_cycle, guest_ns, asked,
                     wall, mode, unrestored, stack, last_run, restored_at>>
      /\ left > 0 /\ mode = "guest" /\ stack = <<>>
      /\ counter' = (counter + 1) % Wrap /\ total' = total + 1 /\ left' = left - 1
  BY DEF Execute, InGuest, fold, queue, pace, anchors
<1>2. /\ total \in Nat /\ wall \in Nat /\ left \in 1..MaxBlock
      /\ MaxBlock \in Nat /\ MaxSlice \in Nat /\ Wrap \in Nat
      /\ 2 * (MaxSlice + MaxBlock) < Wrap
      /\ at \in [Events -> Nat \cup {Never}]
      /\ folded \in Nat /\ folded < Wrap /\ counter \in Nat /\ counter < Wrap
      /\ Unread \in Int
  BY <1>1, Facts, CounterAssumption DEF IInv, TypeOK, Unread, Reading, Word
<1>3. /\ counter' \in Word
      /\ \/ counter' = counter + 1 /\ counter + 1 < Wrap
         \/ counter' = 0 /\ counter + 1 = Wrap
  BY <1>1, <1>2, ModNear DEF Word
<1>4. ~Dispatching /\ ~Dispatching'
  BY <1>1 DEF Dispatching
<1>5. Unread' = Unread + 1
  <2>1. hi * Wrap + folded \in Int
    BY <1>2 DEF IInv, TypeOK
  <2>. QED  BY <2>1, <1>1, <1>2 DEF Unread, Reading
<1>6. /\ left - MaxBlock <= Gap /\ Gap + Unread <= MaxSlice /\ 0 <= Unread
      /\ Unread + left <= MaxSlice + MaxBlock /\ Gap \in Int
      /\ deadline \in Word
      /\ \/ deadline = counter + Gap \/ deadline = counter + Gap - Wrap
         \/ deadline = counter + Gap + Wrap
  BY <1>0, <1>4, GapMeans DEF CoreInv, DeadlineInv, CounterInv
<1>7. Gap' = Gap - 1
  <2> DEFINE g == Gap - 1
  <2>1. g \in Int /\ -MaxBlock <= g /\ g <= MaxSlice
    BY <1>2, <1>6
  <2>2. \/ deadline = counter' + g \/ deadline = counter' + g - Wrap
        \/ deadline = counter' + g + Wrap
    <3>1. CASE counter' = counter + 1
      BY <3>1, <1>2, <1>6
    <3>2. CASE counter' = 0 /\ counter + 1 = Wrap
      <4>1. deadline < Wrap /\ deadline \in Nat
        BY <1>2, <1>6 DEF Word
      <4>. QED  BY <3>2, <4>1, <1>2, <1>6
    <3>. QED  BY <3>1, <3>2, <1>3
  <2>. HIDE DEF g
  <2>3. LET back == (counter' - deadline) % Wrap
        IN  (IF back < Wrap \div 2 THEN -back ELSE Wrap - back) = g
    BY <2>1, <2>2, <1>3, <1>6, GapReads
  <2>. QED  BY <2>3, <1>1 DEF Gap, g
<1>8. CounterInv'
  <2>1. counter = IF folded + Unread < Wrap THEN folded + Unread
                                            ELSE folded + Unread - Wrap
    BY <1>0 DEF CoreInv, CounterInv
  <2>2. counter' = IF folded + (Unread + 1) < Wrap THEN folded + (Unread + 1)
                                                   ELSE folded + (Unread + 1) - Wrap
    BY <2>1, <1>2, <1>3, <1>6
  <2>3. 0 <= Unread + 1 /\ (Unread + 1) + (left - 1) <= MaxSlice + MaxBlock
    BY <1>2, <1>6
  <2>. QED  BY <2>2, <2>3, <1>1, <1>5 DEF CounterInv
<1>9. DeadlineInv'
  <2>1. (left - 1) - MaxBlock <= Gap - 1 /\ (Gap - 1) + (Unread + 1) <= MaxSlice
    BY <1>2, <1>6
  <2>. QED  BY <2>1, <1>1, <1>4, <1>5, <1>7 DEF DeadlineInv
<1>10. EventInv'
  <2>. SUFFICES ASSUME NEW e \in Events, Armed(e)
                PROVE  /\ \/ (total + 1) + (left - 1) <= at[e] + MaxBlock
                          \/ (total + 1) + (left - 1) <= restored_at + MaxBlock
                       /\ Gap - 1 > 0 => (total + 1) + (Gap - 1) <= at[e]
    BY <1>1, <1>7 DEF EventInv, InTime, Armed
  <2>1. /\ \/ total + left <= at[e] + MaxBlock
           \/ total + left <= restored_at + MaxBlock
        /\ Gap > 0 => total + Gap <= at[e]
        /\ at[e] \in Nat /\ restored_at \in Nat
    BY <1>0, <1>2, <1>4 DEF CoreInv, EventInv, InTime, Armed, TypeOK
  <2>. QED  BY <2>1, <1>2, <1>6
<1>11. TypeOK'
  BY <1>0, <1>1, <1>2, <1>3 DEF TypeOK
<1>12. PlaceInv' /\ RateInv'
  BY <1>0, <1>1 DEF PlaceInv, RateInv, Armed
<1>13. OrderInv'
  <2>1. last_run \in Nat
    BY <1>0 DEF TypeOK
  <2>. QED  BY <2>1, <1>0, <1>1, <1>2 DEF OrderInv, Armed
<1>14. PaceInv'
  <2> DEFINE t == total + 1
  <2>1. t \in Nat /\ total' = t /\ total <= t
    BY <1>1, <1>2
  <2>. HIDE DEF t
  <2>. QED  BY <2>1, <1>0, <1>1, <1>2, PaceStill
<1>. QED  BY <1>8, <1>9, <1>10, <1>11, <1>12, <1>13, <1>14 DEF IInv, CoreInv

(* The innermost SetClockRate() goes on to tell its listeners. *)
LEMMA Replaced ==
    ASSUME TypeOK, PlaceInv, stack # <<>>, Top.fn = "rate",
           stack' = [stack EXCEPT ![Len(stack)] = DeviceCode]
    PROVE  /\ stack' \in Seq(Frames) /\ (Dispatching' <=> Dispatching)
           /\ Len(stack) \in DOMAIN stack /\ DOMAIN stack' = DOMAIN stack
           /\ stack'[Len(stack)] = DeviceCode
           /\ \A i \in DOMAIN stack : i = Len(stack) \/ stack'[i] = stack[i]
           /\ \A i \in 2..Len(stack') : stack'[i].fn # "dispatch"
<1>1. stack \in Seq(Frames) /\ DeviceCode \in Frames /\ DeviceCode.fn = "device"
  BY FrameFacts DEF PlaceInv
<1>2. Len(stack) \in Nat /\ Len(stack) >= 1 /\ DOMAIN stack = 1..Len(stack)
  BY <1>1
<1>3. Len(stack) \in DOMAIN stack /\ 1 \in DOMAIN stack
  BY <1>2
<1>4. /\ stack' \in Seq(Frames) /\ Len(stack') = Len(stack)
      /\ DOMAIN stack' = DOMAIN stack
      /\ stack'[Len(stack)] = DeviceCode
      /\ \A i \in DOMAIN stack : i = Len(stack) \/ stack'[i] = stack[i]
  BY <1>1, <1>2, <1>3
<1>5. stack' # <<>>
  BY <1>2, <1>4
<1>6. stack'[1].fn = "dispatch" <=> stack[1].fn = "dispatch"
  BY <1>1, <1>3, <1>4 DEF Top
<1>7. ASSUME NEW i \in 2..Len(stack') PROVE stack'[i].fn # "dispatch"
  <2>1. i \in 2..Len(stack) /\ i \in DOMAIN stack
    BY <1>2, <1>4
  <2>. QED  BY <2>1, <1>1, <1>4 DEF PlaceInv
<1>. QED  BY <1>3, <1>4, <1>5, <1>6, <1>7 DEF Dispatching

LEMMA RateChangesInv == IInv /\ RateChanges => IInv'
<1>. SUFFICES ASSUME IInv, RateChanges PROVE IInv'
  OBVIOUS
<1>0. TypeOK /\ PlaceInv /\ CoreInv /\ OrderInv /\ RateInv /\ PaceInv
  BY DEF IInv
<1>1. /\ Now = total /\ total \in Nat /\ left \in 0..MaxBlock
      /\ Throttle \in Events /\ at[Throttle] \in Nat /\ Never \notin Nat
      /\ at \in [Events -> Nat \cup {Never}] /\ rate \in Rates /\ wall \in Nat
      /\ TargetWallNs(total) \in Nat
      /\ CyclesToNs(total - guest_ns_cycle) \in Nat
  BY Facts
<1> DEFINE r == Top.rate
           x == at[Throttle] - total
           s == CyclesToNs(x)
           k == NsToCyclesAt(r, s)
<1>2. stack # <<>> /\ Top.fn = "rate" /\ Top.request = rate_requests
  BY Zenon DEF RateChanges, TopIs
<1>3. Len(stack) \in DOMAIN stack /\ Top \in Frames
  <2>1. stack \in Seq(Frames)
    BY <1>0 DEF PlaceInv
  <2>. QED  BY <2>1, <1>2 DEF Top
<1>4. r \in Rates /\ r = asked
  BY <1>0, <1>2, <1>3, FrameFacts DEF RateInv, Top
<1>5. at[Throttle] > total
  <2>1. ~(at[Throttle] <= total)
    BY <1>1 DEF RateChanges, Due, Armed
  <2>. QED  BY <2>1, <1>1
<1>6. /\ x \in Nat /\ s \in Nat /\ k \in Nat /\ s <= SliceNs
      /\ SliceNs \in Nat /\ SliceLeft = s
  <2>1. x \in Nat
    BY <1>1, <1>5
  <2>2. s \in Nat
    BY <2>1, <1>1, Conversions DEF CyclesToNs
  <2>3. k \in Nat
    BY <2>2, <1>4, Conversions
  <2>4. s <= SliceNs /\ SliceNs \in Nat
    BY <1>0, <1>1, <1>5, PaceAssumption DEF PaceInv
  <2>5. SliceLeft = s
    BY <1>0, <1>1 DEF SliceLeft, PlaceInv
  <2>. QED  BY <2>1, <2>2, <2>3, <2>4, <2>5
<1>7. /\ ref_wall_ns' = TargetWallNs(total) /\ ref_cycle' = total
      /\ guest_ns' = guest_ns + CyclesToNs(total - guest_ns_cycle)
      /\ guest_ns_cycle' = total
      /\ rate' = r /\ Publish(counter, Now, at') /\ Fold
      /\ at' = [at EXCEPT ![Throttle] = total + k]
      /\ stack' = [stack EXCEPT ![Len(stack)] = DeviceCode]
      /\ UNCHANGED <<counter, rate_requests, asked, wall, mode, left,
                     unrestored, total, last_run, restored_at>>
  BY <1>1, <1>6 DEF RateChanges, Carry, Arm, place, ghosts
<1>8. /\ stack' \in Seq(Frames) /\ (Dispatching' <=> Dispatching)
      /\ DOMAIN stack' = DOMAIN stack
      /\ stack'[Len(stack)] = DeviceCode
      /\ \A i \in DOMAIN stack : i = Len(stack) \/ stack'[i] = stack[i]
      /\ \A i \in 2..Len(stack') : stack'[i].fn # "dispatch"
  BY <1>0, <1>2, <1>7, Replaced
<1>9. PaceInv'
  <2>1. CyclesToNsAt(r, k) <= s
    <3>. HIDE DEF r, s
    <3>1. /\ CyclesToNsAt(r, 0) = 0 /\ k \in Nat
          /\ CyclesToNsAt(r, 0 + k) <= CyclesToNsAt(r, 0) + s
          /\ CyclesToNsAt(r, k) \in Nat
      BY <1>4, <1>6, Conversions
    <3>. HIDE DEF k
    <3>. QED  BY <3>1, <1>6
  <2>2. TargetWallNs(total) + s <= wall + SliceNs
    <3> DEFINE b == total - ref_cycle
               y == CyclesToNs(b)
               z == CyclesToNs(at[Throttle] - ref_cycle)
    <3>1. ref_cycle \in Nat /\ ref_wall_ns \in Nat /\ ref_cycle <= total
      BY <1>0 DEF TypeOK, PaceInv
    <3>2. b \in Nat /\ at[Throttle] - ref_cycle = b + x
      BY <3>1, <1>1, <1>5
    <3>3. y + s <= z
      <4>. HIDE DEF b, x
      <4>. QED  BY <3>2, <1>1, <1>6, Conversions DEF CyclesToNs
    <3>4. y \in Nat /\ z \in Nat
      <4>1. b + x \in Nat
        BY <3>2, <1>6
      <4>. HIDE DEF b, x
      <4>. QED  BY <3>2, <4>1, <1>1, Conversions DEF CyclesToNs
    <3>5. ref_wall_ns + z <= wall + SliceNs
      BY <1>0 DEF PaceInv, TargetWallNs
    <3>6. TargetWallNs(total) = ref_wall_ns + y
      BY DEF TargetWallNs
    <3>. HIDE DEF y, z, s
    <3>. QED  BY <3>1, <3>3, <3>4, <3>5, <3>6, <1>1, <1>6
  <2>. HIDE DEF r, x, s, k
  <2>3. /\ at'[Throttle] = total + k /\ (total + k) - total = k
        /\ CyclesToNsAt(r, k) \in Nat
    <3>1. CyclesToNsAt(r, k) \in Nat
      BY <1>4, <1>6, Conversions
    <3>. QED  BY <3>1, <1>1, <1>6, <1>7
  <2>4. (CyclesToNs(at[Throttle] - total))' = CyclesToNsAt(r, k)
    BY <2>3, <1>7 DEF CyclesToNs
  <2>5. (TargetWallNs(at[Throttle]))' = TargetWallNs(total) + CyclesToNsAt(r, k)
    BY <2>3, <1>7 DEF TargetWallNs, CyclesToNs
  <2>6. TargetWallNs(total) + CyclesToNsAt(r, k) <= wall + SliceNs
    BY <2>1, <2>2, <2>3, <1>1, <1>6
  <2>7. (CyclesToNs(at[Throttle] - total))' <= SliceNs
    BY <2>1, <2>3, <2>4, <1>6
  <2>8. (TargetWallNs(at[Throttle]))' <= wall' + SliceNs
    BY <2>5, <2>6, <1>7
  <2>9. ref_cycle' <= total' /\ guest_ns_cycle' <= total' /\ ref_cycle' <= at'[Throttle]
    BY <2>3, <1>1, <1>6, <1>7
  <2>10. restored_at' <= ref_cycle'
    <3>1. restored_at <= ref_cycle /\ ref_cycle <= total
          /\ restored_at \in Nat /\ ref_cycle \in Nat
      BY <1>0 DEF PaceInv, TypeOK
    <3>. QED  BY <3>1, <1>1, <1>7
  <2>. QED  BY <2>7, <2>8, <2>9, <2>10 DEF PaceInv
<1>. HIDE DEF r, x, s, k
<1>10. /\ at' \in [Events -> Nat \cup {Never}] /\ at'[Throttle] = total + k
       /\ \A e \in Events : e = Throttle \/ at'[e] = at[e]
  BY <1>1, <1>6, <1>7
<1>11. deadline' \in Word /\ folded' \in Word /\ hi' \in Nat /\ CoreInv'
  <2>1. \A e \in Events :
            at'[e] = Never \/ at'[e] >= total \/ at'[e] = at[e]
    BY <1>1, <1>6, <1>7, <1>10
  <2>2. at'[Throttle] # Never /\ UNCHANGED <<counter, total, left, restored_at>>
    BY <1>1, <1>6, <1>7, <1>10
  <2>. QED  BY <1>0, <1>7, <1>10, <2>1, <2>2, Rearmed
<1>12. TypeOK'
  <2>1. \A i \in DOMAIN stack' : stack'[i] \in Frames
    BY <1>8
  <2>2. guest_ns \in Nat /\ guest_ns' \in Nat
    BY <1>0, <1>1, <1>7 DEF TypeOK
  <2>. QED  BY <2>1, <2>2, <1>0, <1>1, <1>4, <1>7, <1>10, <1>11 DEF TypeOK
<1>13. PlaceInv'
  BY <1>0, <1>1, <1>6, <1>7, <1>8, <1>10 DEF PlaceInv, Armed
<1>14. OrderInv'
  <2>1. last_run \in Nat /\ last_run <= total
    BY <1>0 DEF TypeOK, OrderInv
  <2>. QED  BY <2>1, <1>0, <1>1, <1>6, <1>7, <1>10 DEF OrderInv, Armed
<1>15. RateInv'
  <2>1. \A i \in DOMAIN stack' :
            stack'[i].fn = "rate" => i \in DOMAIN stack /\ stack'[i] = stack[i]
    BY <1>8, FrameFacts
  <2>. QED  BY <2>1, <1>0, <1>4, <1>7 DEF RateInv
<1>. QED  BY <1>9, <1>11, <1>12, <1>13, <1>14, <1>15 DEF IInv

(* The counter is set: nothing is unread. *)
LEMMA SetCyclesFacts ==
    ASSUME NEW c \in Nat, SetCycles(c)
    PROVE  /\ counter' \in Word /\ folded' \in Word /\ hi' \in Nat
           /\ counter' = c % Wrap /\ folded' = counter' /\ total' = c
           /\ Unread' = 0
<1> DEFINE q == c \div Wrap
           r == c % Wrap
           n == q * Wrap + r
<1>1. Wrap \in Nat /\ Wrap > 0
  BY ModNear
<1>2. q \in Nat /\ r \in Nat /\ r < Wrap /\ c = n
  BY <1>1, DivMod
<1>3. counter' = r /\ folded' = r /\ hi' = q /\ total' = c
  BY DEF SetCycles
<1>4. hi' * Wrap + folded' = n
  BY <1>3, Zenon
<1>5. Unread' = c - n
  BY <1>3, <1>4, Zenon DEF Unread, Reading
<1>6. c - n = 0
  <2>. HIDE DEF n, q, r
  <2>. QED  BY <1>2
<1>7. r \in Word
  <2>. HIDE DEF n, q, r
  <2>. QED  BY <1>1, <1>2 DEF Word
<1>. HIDE DEF n, q
<1>. QED  BY <1>2, <1>3, <1>5, <1>6, <1>7

(* An idle guest is never moved beyond its next event. *)
LEMMA AdvancedFacts ==
    ASSUME IInv, NEW next \in Nat, total <= next, NEW w \in Nat
    PROVE  Advanced(next, w) \in total..next
<1>1. /\ Now = total /\ total \in Nat /\ TargetWallNs(total) \in Nat /\ rate \in Rates
  BY Facts
<1> DEFINE elapsed == w - TargetWallNs(total)
           n == total + NsToCycles(elapsed)
<1>2. CASE w >= TargetWallNs(next)
  BY <1>1, <1>2 DEF Advanced
<1>3. CASE ~(w >= TargetWallNs(next)) /\ elapsed > 0
  <2>1. elapsed \in Nat
    BY <1>1, <1>3
  <2>2. n \in Nat /\ total <= n
    <3>1. NsToCycles(elapsed) \in Nat
      BY <1>1, <2>1, Conversions DEF NsToCycles
    <3>. QED  BY <3>1, <1>1
  <2>3. Advanced(next, w) = Min({next, n})
    BY <1>1, <1>3 DEF Advanced
  <2>. HIDE DEF n
  <2>. QED  BY <2>2, <2>3, <1>1, MinOfTwo
<1>4. CASE ~(w >= TargetWallNs(next)) /\ ~(elapsed > 0)
  BY <1>1, <1>4 DEF Advanced
<1>. QED  BY <1>2, <1>3, <1>4

LEMMA IdleStepInv == IInv /\ IdleStep => IInv'
<1>. SUFFICES ASSUME IInv, IdleStep PROVE IInv'
  OBVIOUS
<1>0. TypeOK /\ PlaceInv /\ CoreInv /\ OrderInv /\ RateInv /\ PaceInv
  BY DEF IInv
<1>1. /\ Now = total /\ total \in Nat /\ left \in 0..MaxBlock
      /\ Throttle \in Events /\ at[Throttle] \in Nat /\ Never \notin Nat
      /\ at \in [Events -> Nat \cup {Never}] /\ rate \in Rates /\ wall \in Nat
  BY Facts
<1> DEFINE next == NextArmed(at)
<1>2. next \in Nat /\ next > total /\ \A e \in Events : Armed(e) => next <= at[e]
  BY <1>1, NextArmedIsFirst DEF IdleStep, Armed
<1>3. TargetWallNs(next) \in Nat
  <2>1. ref_cycle \in Nat /\ ref_wall_ns \in Nat /\ ref_cycle <= total
    BY <1>0 DEF TypeOK, PaceInv
  <2>2. next - ref_cycle \in Nat
    BY <1>1, <1>2, <2>1
  <2>3. CyclesToNs(next - ref_cycle) \in Nat
    BY <1>1, <2>2, Conversions DEF CyclesToNs
  <2>. QED  BY <2>1, <2>3 DEF TargetWallNs
<1>4. PICK w \in Nat : wall' = w /\ wall <= w
  <2>1. CASE wall' = wall
    BY <2>1, <1>1
  <2>2. CASE wall' \in wall..TargetWallNs(next)
    BY <2>2, <1>1, <1>3
  <2>3. ASSUME NEW late \in Pauses, wall < TargetWallNs(next),
               wall' = TargetWallNs(next) + late
        PROVE  \E w \in Nat : wall' = w /\ wall <= w
    BY <2>3, <1>1, <1>3, InputAssumption
  <2>. QED  BY <2>1, <2>2, <2>3 DEF IdleStep
<1> DEFINE t == Advanced(next, w)
<1>5. t \in total..next
  <2>. HIDE DEF next
  <2>. QED  BY <1>1, <1>2, AdvancedFacts
<1>6. /\ SetCycles(t) /\ Push(Dispatch) /\ mode = "wfi" /\ stack = <<>>
      /\ UNCHANGED <<at, deadline, rate, rate_requests, ref_cycle, ref_wall_ns,
                     guest_ns_cycle, guest_ns, asked, mode, left, unrestored,
                     last_run, restored_at>>
  BY <1>4 DEF IdleStep, queue, pace, anchors, place
<1>. HIDE DEF next, t
<1>7. t \in Nat /\ total <= t /\ t <= next
  BY <1>1, <1>2, <1>5
<1>8. /\ counter' \in Word /\ folded' \in Word /\ hi' \in Nat
      /\ folded' = counter' /\ total' = t /\ Unread' = 0
  BY <1>6, <1>7, SetCyclesFacts
<1>9. /\ stack' \in Seq(Frames) /\ Dispatching'
      /\ \A i \in 2..Len(stack') : stack'[i].fn # "dispatch"
  BY <1>0, <1>6, Pushed, FrameFacts
<1>10. left = 0
  BY <1>0, <1>6 DEF PlaceInv
<1>11. CounterInv'
  <2>1. PICK n \in Word : n = counter'
    BY <1>8
  <2>2. n + 0 < Wrap /\ n = n + 0 /\ 0 + 0 <= MaxSlice + MaxBlock
    BY CounterAssumption DEF Word
  <2>. QED  BY <2>1, <2>2, <1>6, <1>8, <1>10 DEF CounterInv
<1>12. DeadlineInv'
  BY <1>8, <1>9 DEF DeadlineInv
<1>13. EventInv'
  <2>. SUFFICES ASSUME NEW e \in Events, Armed(e)
                PROVE  t + 0 <= at[e] + MaxBlock
    BY <1>6, <1>8, <1>9, <1>10 DEF EventInv, InTime, Armed
  <2>1. at[e] \in Nat
    BY <1>1 DEF Armed
  <2>. QED  BY <2>1, <1>2, <1>7, CounterAssumption
<1>14. TypeOK'
  BY <1>0, <1>4, <1>6, <1>7, <1>8, <1>9 DEF TypeOK
<1>15. PlaceInv'
  BY <1>0, <1>6, <1>9 DEF PlaceInv, Armed
<1>16. OrderInv'
  <2>1. last_run \in Nat /\ last_run <= total
    BY <1>0 DEF TypeOK, OrderInv
  <2>. QED  BY <2>1, <1>0, <1>1, <1>6, <1>7, <1>8 DEF OrderInv, Armed
<1>17. RateInv'
  BY <1>0, <1>6, RateOnPush, FrameFacts
<1>18. PaceInv'
  BY <1>0, <1>4, <1>6, <1>7, <1>8, PaceStill
<1>. QED  BY <1>11, <1>12, <1>13, <1>14, <1>15, <1>16, <1>17, <1>18 DEF IInv, CoreInv

LEMMA RestoreInv == IInv /\ Restore => IInv'
<1>. SUFFICES ASSUME IInv, Restore PROVE IInv'
  OBVIOUS
<1>0. TypeOK /\ PlaceInv /\ CoreInv /\ OrderInv /\ RateInv /\ PaceInv
  BY DEF IInv
<1>1. /\ Throttle \in Events /\ Never \notin Nat
      /\ at \in [Events -> Nat \cup {Never}] /\ rate \in Rates /\ wall \in Nat
  BY Facts
<1>2. PICK c \in Nat : RestoreCpuState(c)
  BY InputAssumption DEF Restore
<1> DEFINE k == NsToCycles(SliceNs)
<1>3. SliceNs \in Nat /\ k \in Nat /\ CyclesToNs(k) \in Nat /\ CyclesToNs(k) <= SliceNs
      /\ CyclesToNs(c) \in Nat /\ CyclesToNs(0) = 0
  <2>1. SliceNs \in Nat /\ k \in Nat
    BY <1>1, PaceAssumption, Conversions DEF NsToCycles
  <2>2. /\ CyclesToNs(0) = 0 /\ CyclesToNs(c) \in Nat /\ CyclesToNs(k) \in Nat
        /\ CyclesToNs(0 + k) <= CyclesToNs(0) + SliceNs
    BY <1>1, <2>1, Conversions DEF CyclesToNs, NsToCycles
  <2>3. 0 + k = k /\ 0 + SliceNs = SliceNs
    BY <2>1
  <2>. QED  BY <2>1, <2>2, <2>3
<1>4. /\ SetCycles(c) /\ ref_cycle' = c /\ guest_ns_cycle' = c
      /\ ref_wall_ns' = wall /\ guest_ns' = CyclesToNs(c)
      /\ at' = [at EXCEPT ![Throttle] = c + k]
      /\ Publish(c, c, at')
      /\ mode' = "restore" /\ unrestored' = Events \ {Throttle} /\ last_run' = 0
      /\ restored_at' = c
      /\ left = 0 /\ stack = <<>>
      /\ UNCHANGED <<rate, rate_requests, asked, wall, left, stack>>
  BY <1>2 DEF RestoreCpuState, InGuest
<1>. HIDE DEF k
<1>5. /\ counter' \in Word /\ folded' \in Word /\ hi' \in Nat
      /\ counter' = c % Wrap /\ folded' = counter' /\ total' = c /\ Unread' = 0
  BY <1>4, SetCyclesFacts
<1>6. /\ at' \in [Events -> Nat \cup {Never}] /\ at'[Throttle] = c + k
      /\ at'[Throttle] # Never
  BY <1>1, <1>3, <1>4
<1>7. /\ deadline' \in Word /\ Gap' \in 0..MaxSlice
      /\ \A e \in Events : at'[e] # Never /\ Gap' > 0 => c + Gap' <= at'[e]
  BY <1>4, <1>5, <1>6, Published
<1>8. ~Dispatching'
  BY <1>4 DEF Dispatching
<1>9. CounterInv'
  <2>1. PICK n \in Word : n = counter'
    BY <1>5
  <2>2. n + 0 < Wrap /\ n = n + 0 /\ 0 + 0 <= MaxSlice + MaxBlock
    BY CounterAssumption DEF Word
  <2>. QED  BY <2>1, <2>2, <1>4, <1>5 DEF CounterInv
<1>10. DeadlineInv'
  <2>1. PICK g \in 0..MaxSlice : g = Gap'
    BY <1>7
  <2>2. 0 - MaxBlock <= g /\ g + 0 <= MaxSlice
    BY CounterAssumption
  <2>. QED  BY <2>1, <2>2, <1>4, <1>5, <1>8 DEF DeadlineInv
<1>11. EventInv'
  <2>1. c + 0 <= c + MaxBlock
    BY CounterAssumption
  <2>. QED  BY <2>1, <1>4, <1>5, <1>7 DEF EventInv, InTime, Armed
<1>12. TypeOK'
  BY <1>0, <1>1, <1>3, <1>4, <1>5, <1>6, <1>7, \A e \in {0} : e \in Nat DEF TypeOK
<1>13. PlaceInv'
  BY <1>0, <1>4, <1>6 DEF PlaceInv, Armed
<1>14. OrderInv'
  <2>1. \A e \in Events : at'[e] # Never => 0 <= at'[e]
    BY <1>6
  <2>. QED  BY <2>1, <1>4, <1>5 DEF OrderInv, Armed
<1>15. RateInv'
  BY <1>0, <1>4 DEF RateInv
<1>16. PaceInv'
  <2>1. (c + k) - c = k /\ c <= c /\ c <= c + k
    BY <1>3
  <2>2. (CyclesToNs(at[Throttle] - total))' = CyclesToNs(k)
    BY <2>1, <1>4, <1>5, <1>6 DEF CyclesToNs
  <2>3. (TargetWallNs(at[Throttle]))' = wall + CyclesToNs(k)
    BY <2>1, <1>4, <1>6 DEF TargetWallNs, CyclesToNs
  <2>4. wall + CyclesToNs(k) <= wall + SliceNs
    BY <1>1, <1>3
  <2>5. (TargetWallNs(at[Throttle]))' <= wall' + SliceNs
    BY <2>3, <2>4, <1>4
  <2>6. (CyclesToNs(at[Throttle] - total))' <= SliceNs
    BY <2>2, <1>3
  <2>. QED  BY <2>1, <2>5, <2>6, <1>4, <1>5, <1>6 DEF PaceInv
<1>. QED  BY <1>9, <1>10, <1>11, <1>12, <1>13, <1>14, <1>15, <1>16 DEF IInv, CoreInv

LEMMA NextInv == IInv /\ [Next]_vars => IInv'
<1>. SUFFICES ASSUME IInv, [Next]_vars PROVE IInv'
  OBVIOUS
<1>1. CASE RunThrottle
  BY <1>1, RunThrottleInv
<1>2. CASE RunDevice
  BY <1>2, RunDeviceInv
<1>3. CASE DispatchEnd
  BY <1>3, DispatchEndInv
<1>4. CASE DeviceArms
  BY <1>4, DeviceArmsInv
<1>5. CASE DeviceDisarms
  BY <1>5, DeviceDisarmsInv
<1>6. CASE DeviceReturns
  BY <1>6, DeviceReturnsInv
<1>7. CASE DeviceSetsRate
  BY <1>7, DeviceSetsRateInv
<1>8. CASE RateOvertaken
  BY <1>8, RateOvertakenInv
<1>9. CASE RateChanges
  BY <1>9, RateChangesInv
<1>10. CASE PollGoesOn
  BY <1>10, PollGoesOnInv
<1>11. CASE Execute
  BY <1>11, ExecuteInv
<1>12. CASE OnDispatch
  BY <1>12, OnDispatchInv
<1>13. CASE Access
  BY <1>13, AccessInv
<1>14. CASE TimePasses
  BY <1>14, TimePassesInv
<1>15. CASE EnterWfi
  BY <1>15, EnterWfiInv
<1>16. CASE ExitIdle
  BY <1>16, ExitIdleInv
<1>17. CASE IdleDue
  BY <1>17, IdleDueInv
<1>18. CASE IdleStep
  BY <1>18, IdleStepInv
<1>19. CASE Restore
  BY <1>19, RestoreInv
<1>20. CASE PostRestoreEvent
  BY <1>20, PostRestoreEventInv
<1>21. CASE PostRestoreRate
  BY <1>21, PostRestoreRateInv
<1>22. CASE RestoreEnds
  BY <1>22, RestoreEndsInv
<1>23. CASE UNCHANGED vars
  <2>1. /\ UNCHANGED <<count, queue, pace, stack, unrestored, ghosts>>
        /\ left' = left /\ mode' = mode /\ wall' = wall
    BY <1>23 DEF vars, place
  <2>2. /\ wall \in Nat /\ wall <= wall
        /\ mode' \in {"guest", "wfi", "restore"}
        /\ mode' # "guest" => left' = 0
        /\ mode' # "restore" => unrestored = {}
    BY <2>1, Facts DEF IInv, TypeOK, PlaceInv
  <2>. QED  BY <2>1, <2>2, PassInv
<1>. QED
  BY <1>1, <1>2, <1>3, <1>4, <1>5, <1>6, <1>7, <1>8, <1>9, <1>10, <1>11, <1>12,
     <1>13, <1>14, <1>15, <1>16, <1>17, <1>18, <1>19, <1>20, <1>21, <1>22, <1>23
  DEF Next

(* The clock keeps its inductive invariant: in particular the deadline is  *)
(* never beyond an event, and never so far that the counter could wrap     *)
(* twice unread.                                                           *)
THEOREM Invariance == Spec => []IInv
<1>. QED  BY InitInv, NextInv, PTL DEF Spec

-----------------------------------------------------------------------------
(* The invariants the run checks *)

(* Cycle numbers and times never go below 0, whatever the rates, delays    *)
(* and restored counters (the unsigned differences of                      *)
(* guest_cycle_clock.cpp).                                                 *)
THEOREM Typing == Spec => []TypeOK
<1>1. IInv => TypeOK
  BY DEF IInv
<1>. QED  BY <1>1, Invariance, PTL

(* CyclesNow() is the number of cycles executed, for every width of the    *)
(* counter that is more than twice a slice and a translation.              *)
THEOREM Exact == Spec => []FoldExact
<1>1. IInv => FoldExact
  BY NowExact DEF IInv, CoreInv, FoldExact
<1>. QED  BY <1>1, Invariance, PTL

(* No event waits for more cycles than one translation takes: every change *)
(* of the queue, the counter or the rate leaves a deadline that covers it, *)
(* and so does a restore for the events left from the machine before.      *)
THEOREM OnTime == Spec => []EventsOnTime
<1>1. IInv => EventsOnTime
  <2>. SUFFICES ASSUME IInv, NEW e \in Events, Armed(e)
                PROVE  \/ total <= at[e] + MaxBlock
                       \/ total <= restored_at + MaxBlock
    BY DEF EventsOnTime
  <2>1. \/ total + left <= at[e] + MaxBlock
        \/ total + left <= restored_at + MaxBlock
    BY DEF IInv, CoreInv, EventInv, InTime
  <2>2. /\ total \in Nat /\ left \in Nat /\ MaxBlock \in Nat
        /\ at[e] \in Nat /\ restored_at \in Nat
    BY Facts, CounterAssumption DEF Armed, IInv, TypeOK
  <2>. QED  BY <2>1, <2>2
<1>. QED  BY <1>1, Invariance, PTL

(* However SetClockRate() is nested in the callbacks its RunDue() runs,    *)
(* the rate asked for last is the one that is left.                        *)
THEOREM LastWins == Spec => []LastRequestWins
<1>1. IInv => LastRequestWins
  BY DEF IInv, RateInv, LastRequestWins
<1>. QED  BY <1>1, Invariance, PTL

(* The throttle is armed and at most a slice of guest time ahead at every  *)
(* rate: an idle guest always has an event to wait for.                    *)
THEOREM Throttled == Spec => []ThrottleAhead
<1>1. IInv => ThrottleAhead
  <2>. SUFFICES ASSUME IInv PROVE ThrottleAhead
    OBVIOUS
  <2>1. /\ Now = total /\ total \in Nat /\ Throttle \in Events
        /\ at[Throttle] \in Nat /\ Never \notin Nat
    BY Facts
  <2>2. Armed(Throttle)
    BY DEF IInv, PlaceInv
  <2>3. Due(Now) = {} => at[Throttle] > Now
    BY <2>1, <2>2 DEF Due
  <2>. QED  BY <2>2, <2>3 DEF IInv, PaceInv, ThrottleAhead
<1>. QED  BY <1>1, Invariance, PTL

(* The guest is at most a slice and a translation ahead of the wall clock, *)
(* though its rate changes at any cycle and each change rounds the slice.  *)
THEOREM Paced == Spec => []GuestNotAhead
<1>1. IInv => GuestNotAhead
  <2>. SUFFICES ASSUME IInv PROVE GuestNotAhead
    OBVIOUS
  <2>1. /\ total \in Nat /\ Throttle \in Events /\ at[Throttle] \in Nat
        /\ left \in Nat /\ rate \in Rates /\ wall \in Nat /\ MaxBlock \in Nat
        /\ SliceNs \in Nat
    BY Facts, CounterAssumption, PaceAssumption
  <2>2. /\ ref_cycle \in Nat /\ ref_wall_ns \in Nat
        /\ ref_cycle <= total /\ ref_cycle <= at[Throttle]
        /\ ref_wall_ns + CyclesToNs(at[Throttle] - ref_cycle) <= wall + SliceNs
    BY DEF IInv, TypeOK, PaceInv, TargetWallNs
  <2>3. total + left <= at[Throttle] + MaxBlock
    <3>1. /\ \/ total + left <= at[Throttle] + MaxBlock
             \/ total + left <= restored_at + MaxBlock
          /\ restored_at \in Nat /\ restored_at <= ref_cycle
      BY <2>1 DEF IInv, PlaceInv, CoreInv, EventInv, InTime, PaceInv, TypeOK
    <3>. QED  BY <2>1, <2>2, <3>1
  <2> DEFINE x == at[Throttle] - ref_cycle
             y == total - ref_cycle
  <2>4. x \in Nat /\ y \in Nat /\ y <= x + MaxBlock /\ x + MaxBlock \in Nat
    BY <2>1, <2>2, <2>3
  <2>5. /\ CyclesToNs(x) \in Nat /\ CyclesToNs(y) \in Nat
        /\ CyclesToNs(MaxBlock) \in Nat /\ CyclesToNs(x + MaxBlock) \in Nat
        /\ CyclesToNs(y) <= CyclesToNs(x + MaxBlock)
        /\ CyclesToNs(x + MaxBlock) <= CyclesToNs(x) + CyclesToNs(MaxBlock) + 1
    <3>. HIDE DEF x, y
    <3>. QED  BY <2>1, <2>4, Conversions DEF CyclesToNs
  <2>6. TargetWallNs(total) = ref_wall_ns + CyclesToNs(y)
    BY DEF TargetWallNs
  <2>7. ref_wall_ns + CyclesToNs(x) <= wall + SliceNs
    BY <2>2
  <2>. HIDE DEF x, y
  <2>8. ref_wall_ns + CyclesToNs(y) <= wall + SliceNs + CyclesToNs(MaxBlock) + 1
    BY <2>1, <2>2, <2>5, <2>7
  <2>. QED  BY <2>6, <2>8 DEF GuestNotAhead
<1>. QED  BY <1>1, Invariance, PTL

-----------------------------------------------------------------------------
(* What no step may do *)

(* Every step but a restore and a change of the rate leaves the guest      *)
(* time's anchor and rate, and none takes cycles back.                     *)
LEMMA Onward ==
    ASSUME IInv, [Next]_vars, ~Restore, ~RateChanges
    PROVE  UNCHANGED <<rate, guest_ns, guest_ns_cycle>> /\ total <= total'
<1>1. Now = total /\ total \in Nat /\ total <= total
  BY Facts
<1>2. CASE RunThrottle
  BY <1>1, <1>2 DEF RunThrottle
<1>3. CASE IdleStep
  <2>1. UNCHANGED <<rate, guest_ns, guest_ns_cycle>>
    BY <1>3 DEF IdleStep, pace, anchors
  <2>2. /\ at \in [Events -> Nat \cup {Never}] /\ at[Throttle] # Never
        /\ wall \in Nat /\ rate \in Rates
    BY Facts DEF IInv, PlaceInv, Armed
  <2>3. NextArmed(at) \in Nat /\ NextArmed(at) > total
    BY <1>1, <1>3, <2>2, NextArmedIsFirst DEF IdleStep
  <2>4. total' = Advanced(NextArmed(at), wall')
    BY <1>3 DEF IdleStep, SetCycles
  <2>5. wall' \in Nat
    BY IdleStepInv, <1>3 DEF IInv, TypeOK
  <2>6. PICK w \in Nat : w = wall'
    BY <2>5
  <2>7. total' = Advanced(NextArmed(at), w)
    BY <2>4, <2>6
  <2>8. total <= NextArmed(at)
    BY <1>1, <2>3
  <2>9. Advanced(NextArmed(at), w) \in total..NextArmed(at)
    BY <2>3, <2>8, AdvancedFacts
  <2>. QED  BY <2>1, <2>7, <2>9
<1>4. CASE Execute
  <2>1. total <= total + 1
    BY <1>1
  <2>. QED  BY <2>1, <1>4 DEF Execute, pace, anchors
<1>5. CASE UNCHANGED vars
  BY <1>1, <1>5 DEF vars, pace, anchors, ghosts
<1>6. CASE DeviceSetsRate \/ PostRestoreRate
  BY <1>1, <1>6 DEF DeviceSetsRate, PostRestoreRate, anchors, ghosts
<1>7. CASE RunDevice \/ DispatchEnd \/ DeviceArms \/ DeviceDisarms
           \/ DeviceReturns \/ RateOvertaken
  BY <1>1, <1>7
  DEF RunDevice, DispatchEnd, DeviceArms, DeviceDisarms, DeviceReturns,
      RateOvertaken, pace, anchors, ghosts
<1>8. CASE PollGoesOn \/ OnDispatch \/ Access \/ TimePasses \/ EnterWfi \/ ExitIdle
           \/ IdleDue \/ PostRestoreEvent \/ RestoreEnds
  BY <1>1, <1>8
  DEF PollGoesOn, OnDispatch, Access, TimePasses, EnterWfi, ExitIdle, IdleDue,
      PostRestoreEvent, RestoreEnds, pace, anchors, ghosts
<1>. QED  BY <1>2, <1>3, <1>4, <1>5, <1>6, <1>7, <1>8 DEF Next

(* Guest time never goes back, at any rate and across every wrap, jump and *)
(* change of the rate.                                                     *)
THEOREM Monotone == Spec => GuestTimeMonotone
<1>1. ASSUME IInv, IInv', FoldExact', [Next]_vars,
             mode' = mode \/ mode' # "restore"
      PROVE  NowNs' >= NowNs
  <2>0. /\ Now = total /\ Now' = total' /\ total \in Nat /\ rate \in Rates
        /\ guest_ns \in Nat /\ guest_ns_cycle \in Nat /\ guest_ns_cycle <= total
        /\ CyclesToNs(total - guest_ns_cycle) \in Nat /\ total' \in Nat
    <3>1. Now' = total'
      BY <1>1 DEF FoldExact
    <3>. QED  BY <1>1, <3>1, Facts DEF IInv, TypeOK, PaceInv
  <2>1. ~Restore
    BY <1>1 DEF Restore, RestoreCpuState, InGuest
  <2>2. CASE RateChanges
    <3>1. /\ guest_ns' = guest_ns + CyclesToNs(total - guest_ns_cycle)
          /\ guest_ns_cycle' = total /\ total' = total
      BY <2>0, <2>2 DEF RateChanges, Carry, ghosts
    <3>2. NowNs' = guest_ns' + CyclesToNsAt(rate', total - total)
      BY <2>0, <3>1 DEF NowNs, CyclesToNs
    <3>3. CyclesToNsAt(rate', total - total) = 0
      <4>1. rate' \in Rates /\ total - total = 0
        BY <1>1, <2>0 DEF IInv, TypeOK
      <4>. QED  BY <4>1, Conversions
    <3>4. NowNs = guest_ns + CyclesToNs(total - guest_ns_cycle)
      BY <2>0 DEF NowNs
    <3>5. NowNs \in Nat /\ NowNs' = NowNs + 0
      BY <2>0, <3>1, <3>2, <3>3, <3>4
    <3>. QED  BY <3>5
  <2>3. CASE ~RateChanges
    <3>1. UNCHANGED <<rate, guest_ns, guest_ns_cycle>> /\ total <= total'
      BY <1>1, <2>1, <2>3, Onward
    <3>2. PICK t \in Nat : t = total' /\ total <= t
      BY <2>0, <3>1
    <3>3. /\ total - guest_ns_cycle \in Nat /\ t - guest_ns_cycle \in Nat
          /\ total - guest_ns_cycle <= t - guest_ns_cycle
      <4>1. /\ total \in Nat /\ guest_ns_cycle \in Nat
            /\ guest_ns_cycle <= total /\ total <= t
        BY <2>0, <3>2
      <4>2. guest_ns_cycle <= t
        BY <4>1
      <4>. QED  BY <4>1, <4>2
    <3>4. /\ CyclesToNs(total - guest_ns_cycle) <= CyclesToNs(t - guest_ns_cycle)
          /\ CyclesToNs(t - guest_ns_cycle) \in Nat
      BY <2>0, <3>3, Conversions DEF CyclesToNs
    <3>5. NowNs' = guest_ns + CyclesToNs(t - guest_ns_cycle)
      BY <2>0, <3>1, <3>2 DEF NowNs, CyclesToNs
    <3>6. NowNs = guest_ns + CyclesToNs(total - guest_ns_cycle)
      BY <2>0 DEF NowNs
    <3>7. guest_ns + CyclesToNs(t - guest_ns_cycle)
              >= guest_ns + CyclesToNs(total - guest_ns_cycle)
      BY <2>0, <3>4
    <3>. QED  BY <3>5, <3>6, <3>7
  <2>. QED  BY <2>2, <2>3
<1>2. IInv /\ IInv' /\ FoldExact' /\ [Next]_vars =>
          [mode' = mode \/ mode' # "restore" => NowNs' >= NowNs]_vars
  BY <1>1
<1>. QED  BY <1>2, Invariance, Exact, PTL DEF Spec, GuestTimeMonotone

(* RunDue() runs events in the order of their cycles, through every        *)
(* nesting of calls.                                                       *)
THEOREM InOrder == Spec => RunInOrder
<1>1. ASSUME IInv, [Next]_vars, last_run' < last_run
      PROVE  mode # mode'
  <2>0. /\ Now = total /\ total \in Nat /\ Throttle \in Events
        /\ at[Throttle] \in Nat /\ Never \notin Nat /\ last_run \in Nat
        /\ TypeOK /\ OrderInv /\ ~(last_run < last_run)
        /\ last_run' # last_run
    BY <1>1, Facts DEF IInv, TypeOK
  <2>1. CASE RunThrottle
    BY <1>1, <2>0, <2>1 DEF RunThrottle, OrderInv, Armed
  <2>2. CASE RunDevice
    <3>1. last_run' = at[FirstDue(total)] /\ Due(total) # {}
      BY <2>0, <2>2 DEF RunDevice
    <3>2. /\ FirstDue(total) \in Events /\ Armed(FirstDue(total))
          /\ at[FirstDue(total)] \in Nat
      BY <2>0, <3>1, FirstDueIsFirst
    <3>. QED  BY <1>1, <2>0, <3>1, <3>2 DEF OrderInv
  <2>3. CASE Restore
    BY <2>3 DEF Restore, RestoreCpuState, InGuest
  <2>4. CASE UNCHANGED vars
    BY <2>0, <2>4 DEF vars, ghosts
  <2>5. CASE DispatchEnd \/ DeviceArms \/ DeviceDisarms \/ DeviceReturns
             \/ DeviceSetsRate \/ RateOvertaken \/ RateChanges
    BY <2>0, <2>5
    DEF DispatchEnd, DeviceArms, DeviceDisarms, DeviceReturns, DeviceSetsRate,
        RateOvertaken, RateChanges, ghosts
  <2>6. CASE PollGoesOn \/ Execute \/ OnDispatch \/ Access \/ TimePasses \/ EnterWfi
             \/ ExitIdle \/ IdleDue \/ IdleStep \/ PostRestoreEvent
             \/ PostRestoreRate \/ RestoreEnds
    BY <2>0, <2>6
    DEF PollGoesOn, Execute, OnDispatch, Access, TimePasses, EnterWfi, ExitIdle,
        IdleDue, IdleStep, PostRestoreEvent, PostRestoreRate, RestoreEnds, ghosts
  <2>. QED  BY <1>1, <2>1, <2>2, <2>3, <2>4, <2>5, <2>6 DEF Next
<1>2. IInv /\ [Next]_vars => [last_run' < last_run => mode # mode']_vars
  BY <1>1
<1>. QED  BY <1>2, Invariance, PTL DEF Spec, RunInOrder
=============================================================================

------------------------- MODULE StakingRulesProofs -------------------------
(***************************************************************************)
(* What the arithmetic of StakingRules guarantees for every word size,     *)
(* every number of portions and every staking requirement.                 *)
(***************************************************************************)
EXTENDS StakingRules, TLAPS

(***************************************************************************)
(* Rounding down.                                                          *)
(***************************************************************************)

\* What a quotient is: the operator \div of the conversions rounds down.
LEMMA DivRoundsDown ==
    ASSUME NEW a \in Nat, NEW d \in Nat \ {0}
    PROVE  /\ a \div d \in Nat
           /\ (a \div d) * d <= a
           /\ a < (a \div d) * d + d
OBVIOUS

\* A number that fits the word does not wrap.
LEMMA FitsNoWrap ==
    ASSUME NEW x \in Nat, NEW w \in Nat, x < w
    PROVE  x % w = x
OBVIOUS

\* Multiplication respects the order and can be cancelled.
LEMMA MulMonotone ==
    ASSUME NEW a \in Nat, NEW b \in Nat, NEW k \in Nat, a <= b
    PROVE  k * a <= k * b
OBVIOUS

LEMMA MulCancel ==
    ASSUME NEW a \in Nat, NEW b \in Nat, NEW k \in Nat \ {0}, a * k <= b * k
    PROVE  a <= b
OBVIOUS

\* The amount of a number of portions, rounded down, without any overflow: the
\* product of portions_to_amount keeps a double word.
LEMMA AmountOfPortions ==
    ASSUME NEW s \in 1..UINT64_MAX, NEW p \in Nat, p <= StakingPortions
    PROVE  /\ portions_to_amount(p, s) \in Nat
           /\ portions_to_amount(p, s) <= s
           /\ portions_to_amount(p, s) * StakingPortions <= s * p
<1> DEFINE q == (s * p) \div StakingPortions
<1>0. /\ Word \in Nat /\ s \in Nat /\ s < Word
      /\ StakingPortions \in Nat \ {0} /\ s * p \in Nat
  BY RulesAssumption DEF UINT64_MAX
<1>1. q \in Nat /\ q * StakingPortions <= s * p
  BY <1>0, DivRoundsDown
<1>2. s * p <= s * StakingPortions
  BY <1>0, MulMonotone
<1>3. q * StakingPortions <= s * StakingPortions
  <2> HIDE DEF q
  <2> QED BY <1>0, <1>1, <1>2
<1>4. q <= s
  <2> HIDE DEF q
  <2> QED BY <1>0, <1>1, <1>3, MulCancel
<1>5. q % Word = q
  <2> HIDE DEF q
  <2> QED BY <1>0, <1>1, <1>4
<1> QED
  BY <1>1, <1>4, <1>5 DEF portions_to_amount

\* Four amounts whose portions add up to at most the whole add up to at most
\* the staking requirement.
LEMMA FourAmountsFit ==
    ASSUME NEW s \in Nat, NEW d \in Nat \ {0},
           NEW p1 \in Nat, NEW p2 \in Nat, NEW p3 \in Nat, NEW p4 \in Nat,
           NEW a1 \in Nat, NEW a2 \in Nat, NEW a3 \in Nat, NEW a4 \in Nat,
           a1 * d <= s * p1, a2 * d <= s * p2, a3 * d <= s * p3, a4 * d <= s * p4,
           p1 + p2 + p3 + p4 <= d
    PROVE  a1 + a2 + a3 + a4 <= s
<1>1. (a1 + a2 + a3 + a4) * d = a1 * d + a2 * d + a3 * d + a4 * d
  OBVIOUS
<1>2. s * (p1 + p2 + p3 + p4) = s * p1 + s * p2 + s * p3 + s * p4
  OBVIOUS
<1>3. s * (p1 + p2 + p3 + p4) <= s * d
  BY MulMonotone
<1>4. (a1 + a2 + a3 + a4) * d <= s * d
  BY <1>1, <1>2, <1>3
<1> QED
  BY <1>4, MulCancel

LEMMA TotalAmountFits ==
    ASSUME NEW s \in Nat, NEW d \in Nat \ {0}, NEW p \in [1..4 -> Nat], NEW a \in [1..4 -> Nat],
           \A j \in 1..4 : a[j] * d <= s * p[j],
           Total(p) <= d
    PROVE  /\ Total(a) \in Nat
           /\ Total(a) <= s
           /\ \A j \in 1..4 : a[j] <= Total(a)
<1>1. /\ a[1] \in Nat /\ a[2] \in Nat /\ a[3] \in Nat /\ a[4] \in Nat
      /\ p[1] \in Nat /\ p[2] \in Nat /\ p[3] \in Nat /\ p[4] \in Nat
  OBVIOUS
<1>2. a[1] * d <= s * p[1] /\ a[2] * d <= s * p[2] /\ a[3] * d <= s * p[3] /\ a[4] * d <= s * p[4]
  OBVIOUS
<1>3. a[1] + a[2] + a[3] + a[4] <= s
  BY <1>1, <1>2, FourAmountsFit DEF Total
<1>4. \A j \in 1..4 : j = 1 \/ j = 2 \/ j = 3 \/ j = 4
  OBVIOUS
<1> QED
  BY <1>1, <1>3, <1>4 DEF Total

(***************************************************************************)
(* Registrations.                                                          *)
(***************************************************************************)

\* Words are numbers.
LEMMA WordsAreNumbers ==
    ASSUME NEW q \in Seq(Words)
    PROVE  q \in Seq(Nat)
<1>1. Words \subseteq Nat
  BY RulesAssumption DEF Words, UINT64_MAX
<1>2. /\ Len(q) \in Nat /\ DOMAIN q = 1..Len(q)
      /\ \A i \in 1..Len(q) : q[i] \in Words
  OBVIOUS
<1>3. q = [i \in 1..Len(q) |-> q[i]]
  OBVIOUS
<1> QED BY <1>1, <1>2, <1>3

\* The entries of a padded list.
LEMMA UpToEntries ==
    ASSUME NEW portions \in Seq(Nat), NEW k \in 0..4
    PROVE  /\ UpTo(portions, k) \in [1..4 -> Nat]
           /\ \A j \in 1..4 : UpTo(portions, k)[j] =
                 IF j <= k /\ j <= Len(portions) THEN portions[j] ELSE 0
BY DEF UpTo

LEMMA PaddedEntries ==
    ASSUME NEW q \in Seq(Nat)
    PROVE  /\ UpTo(q, 4) \in [1..4 -> Nat]
           /\ \A j \in 1..4 : UpTo(q, 4)[j] = IF j <= Len(q) THEN q[j] ELSE 0
BY DEF UpTo

\* get_registration_hash compares each portion with what the earlier ones left,
\* so the portions it accepts add up to at most STAKING_PORTIONS.
LEMMA HashablePortionsFit ==
    ASSUME NEW portions \in Seq(Nat), Len(portions) <= 4, hashable_portions(portions)
    PROVE  /\ Total(UpTo(portions, 4)) <= StakingPortions
           /\ \A i \in 1..Len(portions) : portions[i] <= StakingPortions
<1> DEFINE L == Len(portions)
           T(k) == Total(UpTo(portions, k))
<1>0. L \in Nat /\ L <= 4 /\ StakingPortions \in Nat \ {0}
  BY RulesAssumption
<1>1. \A i \in 1..L : portions[i] \in Nat
  OBVIOUS
<1>2. \A k \in 0..4 : T(k) \in Nat
  <2> SUFFICES ASSUME NEW k \in 0..4 PROVE T(k) \in Nat
    OBVIOUS
  <2>1. PICK f : f = UpTo(portions, k) /\ f \in [1..4 -> Nat]
    BY UpToEntries
  <2> QED BY <2>1 DEF Total
<1>3. ASSUME NEW i \in 1..L
      PROVE  portions[i] <= StakingPortions - T(i - 1) /\ T(i - 1) \in Nat /\ portions[i] \in Nat
  <2>1. i - 1 \in 0..4
    BY <1>0
  <2> QED BY <1>1, <1>2, <2>1 DEF hashable_portions
<1> HIDE DEF T
<1>4. \A i \in 1..L : portions[i] <= StakingPortions
  BY <1>0, <1>3
<1>5. CASE L = 0
  BY <1>5, <1>0 DEF T, Total, UpTo
<1>6. ASSUME NEW i \in {1, 2, 3, 4}, L = i
      PROVE  T(4) = T(i - 1) + portions[i]
  <2>1. CASE i = 1
    BY <1>1, <1>6, <2>1 DEF T, Total, UpTo
  <2>2. CASE i = 2
    BY <1>1, <1>6, <2>2 DEF T, Total, UpTo
  <2>3. CASE i = 3
    BY <1>1, <1>6, <2>3 DEF T, Total, UpTo
  <2>4. CASE i = 4
    BY <1>1, <1>6, <2>4 DEF T, Total, UpTo
  <2> QED
    BY <2>1, <2>2, <2>3, <2>4
<1>7. CASE L # 0
  <2>0. L = 1 \/ L = 2 \/ L = 3 \/ L = 4
    <3> HIDE DEF L
    <3> QED BY <1>0, <1>7
  <2>1. L \in {1, 2, 3, 4}
    BY <2>0, Zenon
  <2>2. T(4) = T(L - 1) + portions[L]
    BY <1>6, <2>1
  <2>3. portions[L] <= StakingPortions - T(L - 1) /\ T(L - 1) \in Nat /\ portions[L] \in Nat
    BY <1>0, <1>3, <1>7
  <2>4. T(4) <= StakingPortions
    BY <1>0, <2>2, <2>3
  <2> QED
    BY <1>4, <2>4 DEF T
<1> QED
  BY <1>4, <1>5, <1>7

\* Amounts listed in the order of their portions.
LEMMA ListedAmountsFit ==
    ASSUME NEW portions \in Seq(Nat), NEW amounts \in Seq(Nat), NEW s \in Nat, NEW d \in Nat \ {0},
           Len(portions) <= 4, Len(amounts) = Len(portions),
           \A i \in 1..Len(portions) : amounts[i] * d <= s * portions[i],
           Total(UpTo(portions, 4)) <= d
    PROVE  /\ Total(UpTo(amounts, 4)) \in Nat
           /\ Total(UpTo(amounts, 4)) <= s
           /\ \A i \in 1..Len(amounts) : amounts[i] <= Total(UpTo(amounts, 4))
<1>1. PICK p : /\ p = UpTo(portions, 4) /\ p \in [1..4 -> Nat]
               /\ \A j \in 1..4 : p[j] = IF j <= Len(portions) THEN portions[j] ELSE 0
  BY PaddedEntries
<1>2. PICK a : /\ a = UpTo(amounts, 4) /\ a \in [1..4 -> Nat]
               /\ \A j \in 1..4 : a[j] = IF j <= Len(amounts) THEN amounts[j] ELSE 0
  BY PaddedEntries
<1>3. \A j \in 1..4 : a[j] * d <= s * p[j]
  <2> SUFFICES ASSUME NEW j \in 1..4 PROVE a[j] * d <= s * p[j]
    OBVIOUS
  <2>1. CASE j <= Len(portions)
    <3>1. a[j] = amounts[j] /\ p[j] = portions[j]
      BY <1>1, <1>2, <2>1
    <3>2. j \in 1..Len(portions)
      BY <2>1
    <3> QED BY <3>1, <3>2
  <2>2. CASE ~(j <= Len(portions))
    <3>1. a[j] = 0 /\ p[j] = 0
      BY <1>1, <1>2, <2>2
    <3> QED BY <3>1
  <2> QED BY <2>1, <2>2
<1>4. Total(a) \in Nat /\ Total(a) <= s /\ \A j \in 1..4 : a[j] <= Total(a)
  <2>1. Total(p) <= d
    BY <1>1
  <2>2. p \in [1..4 -> Nat] /\ a \in [1..4 -> Nat]
    BY <1>1, <1>2
  <2> QED BY <1>3, <2>1, <2>2, TotalAmountFits, Zenon
<1>5. ASSUME NEW i \in 1..Len(amounts) PROVE amounts[i] <= Total(a)
  <2>1. i \in Nat /\ 1 <= i /\ i <= Len(portions)
    OBVIOUS
  <2>2. i \in 1..4
    BY <2>1
  <2>3. a[i] = amounts[i]
    BY <1>2, <2>1, <2>2
  <2> QED BY <1>4, <2>2, <2>3
<1> QED
  BY <1>2, <1>4, <1>5

\* What a registration that passes the checks of is_registration_tx reserves
\* adds up to at most the staking requirement, whatever the word size: the
\* subtraction staking_requirement - total_reserved never wraps.  Each entry
\* is at most the total.
THEOREM AcceptedReservationsFit ==
    ASSUME NEW portions \in Seq(Nat), acceptable_portions(portions),
           NEW s \in 1..UINT64_MAX
    PROVE  /\ reserved_amounts(portions, s) \in Seq(Nat)
           /\ Len(reserved_amounts(portions, s)) = Len(portions)
           /\ Total(UpTo(reserved_amounts(portions, s), 4)) \in Nat
           /\ Total(UpTo(reserved_amounts(portions, s), 4)) <= s
           /\ \A i \in 1..Len(portions) :
                 reserved_amounts(portions, s)[i] <= Total(UpTo(reserved_amounts(portions, s), 4))
<1>1. Len(portions) <= MaxContributors
  BY DEF acceptable_portions, check_service_node_portions
<1>2. /\ Len(portions) \in Nat /\ Len(portions) <= 4
      /\ StakingPortions \in Nat \ {0} /\ s \in Nat
      /\ \A i \in 1..Len(portions) : portions[i] \in Nat
  BY <1>1, RulesAssumption DEF UINT64_MAX
<1>3. /\ Total(UpTo(portions, 4)) <= StakingPortions
      /\ \A i \in 1..Len(portions) : portions[i] <= StakingPortions
  BY <1>2, HashablePortionsFit DEF acceptable_portions
<1>4. \A i \in 1..Len(portions) :
         LET amount == portions_to_amount(portions[i], s)
         IN  amount \in Nat /\ amount * StakingPortions <= s * portions[i]
  BY <1>2, <1>3, AmountOfPortions
<1>5. PICK amounts :
         /\ amounts = reserved_amounts(portions, s)
         /\ amounts \in Seq(Nat) /\ Len(amounts) = Len(portions)
         /\ \A i \in 1..Len(portions) : amounts[i] * StakingPortions <= s * portions[i]
  <2>1. reserved_amounts(portions, s) \in Seq(Nat)
    BY <1>2, <1>4 DEF reserved_amounts
  <2>2. Len(reserved_amounts(portions, s)) = Len(portions)
    BY <1>2, <1>4 DEF reserved_amounts
  <2>3. \A i \in 1..Len(portions) :
           reserved_amounts(portions, s)[i] * StakingPortions <= s * portions[i]
    BY <1>2, <1>4 DEF reserved_amounts
  <2> QED BY <2>1, <2>2, <2>3
<1>6. /\ Total(UpTo(amounts, 4)) \in Nat
      /\ Total(UpTo(amounts, 4)) <= s
      /\ \A i \in 1..Len(amounts) : amounts[i] <= Total(UpTo(amounts, 4))
  BY <1>2, <1>3, <1>5, ListedAmountsFit
<1> QED
  BY <1>5, <1>6
(***************************************************************************)
(* Portions from amounts.                                                  *)
(***************************************************************************)

\* The double word that get_portions_to_make_amount divides, built from two
\* words with a carry by hand, is the sum it stands for.
LEMMA CarryAdds ==
    ASSUME NEW product \in Nat, NEW b \in 0..UINT64_MAX
    PROVE  LET lo    == product % Word
               carry == IF lo > UINT64_MAX - b THEN 1 ELSE 0
               hi    == product \div Word + carry
               lo2   == (lo + b) % Word
           IN  hi * Word + lo2 = product + b
<1> DEFINE lo == product % Word
           q == product \div Word
<1>0. Word \in Nat /\ Word > 1 /\ b \in Nat /\ b <= Word - 1
  BY RulesAssumption DEF UINT64_MAX
<1>1. lo \in Nat /\ lo < Word /\ q \in Nat /\ product = q * Word + lo
  BY <1>0
<1> HIDE DEF lo, q
<1>2. CASE lo > UINT64_MAX - b
  <2>1. lo + b >= Word /\ lo + b - Word < Word
    BY <1>0, <1>1, <1>2 DEF UINT64_MAX
  <2>2. (lo + b) % Word = lo + b - Word
    BY <1>0, <1>1, <2>1
  <2>3. (q + 1) * Word = q * Word + Word
    BY <1>0, <1>1
  <2>4. (q + 1) * Word + ((lo + b) % Word) = product + b
    BY <1>0, <1>1, <2>2, <2>3
  <2> QED BY <1>2, <2>4 DEF lo, q
<1>3. CASE ~(lo > UINT64_MAX - b)
  <2>1. lo + b < Word
    BY <1>0, <1>1, <1>3 DEF UINT64_MAX
  <2>2. (lo + b) % Word = lo + b
    BY <1>0, <1>1, <2>1
  <2>3. (q + 0) * Word + ((lo + b) % Word) = product + b
    BY <1>0, <1>1, <2>2
  <2> QED BY <1>3, <2>3 DEF lo, q
<1> QED BY <1>2, <1>3
\* get_portions_to_make_amount rounds up: its result is the quotient of
\* amount * STAKING_PORTIONS by the requirement, rounded up, and fits a word.
LEMMA PortionsRoundUp ==
    ASSUME NEW s \in 1..UINT64_MAX, NEW amount \in Nat, amount <= s
    PROVE  LET x == get_portions_to_make_amount(s, amount) IN
           /\ x \in Nat /\ x <= StakingPortions
           /\ amount * StakingPortions <= s * x
           /\ s * x < amount * StakingPortions + s
<1> DEFINE product == amount * StakingPortions
           x == (product + (s - 1)) \div s
<1>0. /\ Word \in Nat /\ s \in Nat \ {0} /\ s - 1 \in Nat /\ s - 1 \in 0..UINT64_MAX
      /\ StakingPortions \in Nat /\ StakingPortions < Word /\ product \in Nat
  BY RulesAssumption DEF UINT64_MAX
<1>1. get_portions_to_make_amount(s, amount) = x % Word
  <2> HIDE DEF product
  <2>1. LET lo    == product % Word
            carry == IF lo > UINT64_MAX - (s - 1) THEN 1 ELSE 0
            hi    == product \div Word + carry
            lo2   == (lo + (s - 1)) % Word
        IN  hi * Word + lo2 = product + (s - 1)
    BY <1>0, CarryAdds
  <2> QED BY <2>1 DEF get_portions_to_make_amount, product
<1>2. product <= s * StakingPortions
  BY <1>0, MulMonotone
<1> HIDE DEF product
<1>3. x \in Nat /\ x * s <= product + (s - 1) /\ product + (s - 1) < x * s + s
  BY <1>0, DivRoundsDown
<1> HIDE DEF x
<1>4. product <= s * x /\ s * x < product + s
  BY <1>0, <1>3
<1>5. x <= StakingPortions
  <2> SUFFICES ASSUME x >= StakingPortions + 1 PROVE FALSE
    BY <1>0, <1>3
  <2>1. s * (StakingPortions + 1) <= s * x
    BY <1>0, <1>3, MulMonotone
  <2>2. s * (StakingPortions + 1) = s * StakingPortions + s
    BY <1>0
  <2> DEFINE whole == s * StakingPortions
             back  == s * x
  <2>3. /\ product \in Nat /\ whole \in Nat /\ back \in Nat /\ s \in Nat
        /\ product <= whole /\ whole + s <= back /\ back < product + s
    BY <1>0, <1>2, <1>3, <1>4, <2>1, <2>2
  <2> HIDE DEF whole, back
  <2> QED BY <2>3
<1>6. x % Word = x
  BY <1>0, <1>3, <1>5
<1> QED
  BY <1>1, <1>3, <1>4, <1>5, <1>6 DEF product

\* The comment on get_portions_to_make_amount (service_node_rules.h:175): it
\* returns the lowest portions worth the amount.  Converting back never loses an
\* atomic unit, and one portion less is worth less, for every word size,
\* requirement and amount.
THEOREM PortionsAreLowest ==
    ASSUME NEW s \in 1..UINT64_MAX, NEW amount \in Nat, amount <= s
    PROVE  LET x == get_portions_to_make_amount(s, amount) IN
           /\ portions_to_amount(x, s) >= amount
           /\ \A y \in 0..(x - 1) : portions_to_amount(y, s) < amount
<1>1. PICK x : /\ x = get_portions_to_make_amount(s, amount)
               /\ x \in Nat /\ x <= StakingPortions
               /\ amount * StakingPortions <= s * x
               /\ s * x < amount * StakingPortions + s
  BY PortionsRoundUp
<1>2. /\ Word \in Nat /\ s \in Nat \ {0} /\ s < Word
      /\ StakingPortions \in Nat \ {0} /\ StakingPortions < Word
  BY RulesAssumption DEF UINT64_MAX
<1>3. ASSUME NEW y \in Nat, y <= x
      PROVE  /\ portions_to_amount(y, s) \in Nat
             /\ portions_to_amount(y, s) * StakingPortions <= s * y
             /\ s * y < portions_to_amount(y, s) * StakingPortions + StakingPortions
  <2> DEFINE q == (s * y) \div StakingPortions
  <2>1. y <= StakingPortions /\ s * y \in Nat
    BY <1>1, <1>2, <1>3
  <2>2. q \in Nat /\ q * StakingPortions <= s * y /\ s * y < q * StakingPortions + StakingPortions
    BY <1>2, <2>1, DivRoundsDown
  <2>3. s * y <= s * StakingPortions
    BY <1>2, <2>1, MulMonotone
  <2> HIDE DEF q
  <2>4. q <= s
    <3>1. q * StakingPortions <= s * StakingPortions
      BY <1>2, <2>1, <2>2, <2>3
    <3> QED BY <1>2, <2>2, <3>1, MulCancel
  <2>5. q % Word = q
    BY <1>2, <2>2, <2>4
  <2>6. portions_to_amount(y, s) = q
    BY <2>5 DEF portions_to_amount, q
  <2> QED BY <2>2, <2>6
<1>4. portions_to_amount(x, s) >= amount
  <2> DEFINE a == portions_to_amount(x, s)
  <2>1. a \in Nat /\ s * x < a * StakingPortions + StakingPortions
    BY <1>1, <1>3
  <2> HIDE DEF a
  <2>2. a * StakingPortions + StakingPortions = (a + 1) * StakingPortions
    BY <1>2, <2>1
  <2>3. amount * StakingPortions < (a + 1) * StakingPortions
    BY <1>1, <1>2, <2>1, <2>2
  <2>4. ~(a + 1 <= amount)
    <3> SUFFICES ASSUME a + 1 <= amount PROVE FALSE
      OBVIOUS
    <3>1. StakingPortions * (a + 1) <= StakingPortions * amount
      BY <1>2, <2>1, MulMonotone
    <3> QED BY <1>2, <2>1, <2>3, <3>1
  <2> QED BY <2>1, <2>4 DEF a
<1>5. ASSUME NEW y \in 0..(x - 1) PROVE portions_to_amount(y, s) < amount
  <2> DEFINE a == portions_to_amount(y, s)
  <2>1. y \in Nat /\ y + 1 <= x
    BY <1>1
  <2>2. a \in Nat /\ a * StakingPortions <= s * y
    BY <1>1, <1>3, <2>1
  <2> HIDE DEF a
  <2>3. s * (y + 1) <= s * x
    BY <1>1, <1>2, <2>1, MulMonotone
  <2>4. s * (y + 1) = s * y + s
    BY <1>2, <2>1
  <2>5. a * StakingPortions < amount * StakingPortions
    BY <1>1, <1>2, <2>1, <2>2, <2>3, <2>4
  <2>6. ~(amount <= a)
    <3> SUFFICES ASSUME amount <= a PROVE FALSE
      OBVIOUS
    <3>1. StakingPortions * amount <= StakingPortions * a
      BY <1>2, <2>2, MulMonotone
    <3> QED BY <1>2, <2>2, <2>5, <3>1
  <2> QED BY <2>2, <2>6 DEF a
<1> QED
  BY <1>1, <1>4, <1>5
(***************************************************************************)
(* Rewards.                                                                *)
(***************************************************************************)

\* Sums that differ in their first numbers only.
LEMMA SumsInOrder ==
    \A b1, a1, a2, a3, a4, f \in Nat :
        b1 <= a1 + f => /\ b1 + a2 + a3 + a4 \in Int
                        /\ b1 + a2 + a3 + a4 <= (a1 + a2 + a3 + a4) + f
OBVIOUS

\* A share of what the fee leaves, with the fee, is less than the word.
LEMMA ShareAndFee ==
    \A t, f, rem, fee, portions, w \in Nat :
        t <= rem /\ f <= fee /\ rem + fee = portions /\ portions < w =>
            t + f \in Nat /\ t + f < w
OBVIOUS

\* The payouts get_block_winner computes for the contributors of a node, the fee
\* of the operator included, add up to at most the whole reward as long as the
\* contributions add up to at most the staking requirement.
THEOREM PayoutsFit ==
    ASSUME NEW amounts \in Seq(Nat), Len(amounts) <= 4, NEW s \in 1..UINT64_MAX,
           NEW fee \in 0..StakingPortions, Total(UpTo(amounts, 4)) <= s
    PROVE  LET payouts == [i \in 1..Len(amounts) |-> payout_portions(amounts[i], i = 1, fee, s)]
           IN  Total(UpTo(payouts, 4)) <= StakingPortions
<1> DEFINE remaining == StakingPortions - fee
           payouts == [i \in 1..Len(amounts) |-> payout_portions(amounts[i], i = 1, fee, s)]
<1>0. /\ Word \in Nat /\ s \in Nat \ {0} /\ StakingPortions \in Nat /\ StakingPortions < Word
      /\ fee \in Nat /\ remaining \in Nat /\ remaining + fee = StakingPortions
  BY RulesAssumption DEF UINT64_MAX
<1>1. PICK rem \in Nat : rem = remaining
  BY <1>0
<1>2. ASSUME NEW i \in 1..Len(amounts)
      PROVE  /\ (amounts[i] * rem) \div s \in Nat
             /\ ((amounts[i] * rem) \div s) * s <= rem * amounts[i]
  <2>1. PICK a \in Nat : a = amounts[i]
    OBVIOUS
  <2>2. a * rem \in Nat /\ a * rem = rem * a
    OBVIOUS
  <2>3. (a * rem) \div s \in Nat /\ ((a * rem) \div s) * s <= a * rem
    BY <1>0, <2>2, DivRoundsDown
  <2> QED BY <2>1, <2>2, <2>3
<1>3. PICK q : /\ q = [i \in 1..Len(amounts) |-> (amounts[i] * rem) \div s]
               /\ q \in Seq(Nat) /\ Len(q) = Len(amounts)
               /\ \A i \in 1..Len(amounts) : q[i] = (amounts[i] * rem) \div s
               /\ \A i \in 1..Len(amounts) : q[i] * s <= rem * amounts[i]
  <2> DEFINE q0 == [i \in 1..Len(amounts) |-> (amounts[i] * rem) \div s]
  <2>1. q0 \in Seq(Nat)
    BY <1>2
  <2>2. Len(q0) = Len(amounts)
    BY <1>2
  <2>3. \A i \in 1..Len(amounts) : q0[i] = (amounts[i] * rem) \div s
    OBVIOUS
  <2>4. \A i \in 1..Len(amounts) : q0[i] * s <= rem * amounts[i]
    BY <1>2
  <2> HIDE DEF q0
  <2> QED BY <2>1, <2>2, <2>3, <2>4 DEF q0
<1>4. /\ Total(UpTo(q, 4)) \in Nat /\ Total(UpTo(q, 4)) <= rem
      /\ \A i \in 1..Len(q) : q[i] <= Total(UpTo(q, 4))
  BY <1>0, <1>3, ListedAmountsFit
<1>5. ASSUME NEW i \in 1..Len(amounts)
      PROVE  payouts[i] = q[i] + IF i = 1 THEN fee ELSE 0
  <2>1. i \in 1..Len(q)
    BY <1>3
  <2>2. q[i] \in Nat
    BY <1>3, <2>1
  <2>3. PICK t \in Nat : t = q[i] /\ t <= rem
    BY <1>4, <2>1, <2>2
  <2>4. PICK f \in Nat : f = (IF i = 1 THEN fee ELSE 0) /\ f <= fee
    BY <1>0
  <2>5. (t + f) % Word = t + f
    <3>1. t + f \in Nat /\ t + f < Word
      BY <1>0, <1>1, <2>3, <2>4, ShareAndFee, Zenon
    <3> QED BY <1>0, <3>1
  <2>6. payouts[i] = (t + f) % Word
    BY <1>1, <1>3, <2>3, <2>4 DEF payout_portions
  <2> QED BY <2>3, <2>4, <2>5, <2>6
<1>6. ASSUME NEW j \in 1..4
      PROVE  /\ UpTo(q, 4)[j] \in Nat
             /\ UpTo(payouts, 4)[j] = UpTo(q, 4)[j] \/ UpTo(payouts, 4)[j] = UpTo(q, 4)[j] + fee
             /\ j # 1 => UpTo(payouts, 4)[j] = UpTo(q, 4)[j]
  <2>1. UpTo(q, 4)[j] = (IF j <= Len(amounts) THEN q[j] ELSE 0) /\ UpTo(q, 4)[j] \in Nat
    BY <1>3, PaddedEntries
  <2>2. Len(payouts) = Len(amounts)
    OBVIOUS
  <2>3. UpTo(payouts, 4)[j] = IF j <= Len(amounts) THEN payouts[j] ELSE 0
    <3> HIDE DEF payouts
    <3> QED BY <2>2 DEF UpTo
  <2> HIDE DEF payouts
  <2>4. CASE j <= Len(amounts)
    <3>1. j \in 1..Len(amounts)
      BY <2>4
    <3>2. payouts[j] = q[j] + IF j = 1 THEN fee ELSE 0
      BY <1>5, <3>1
    <3> QED BY <1>0, <2>1, <2>3, <2>4, <3>2
  <2>5. CASE ~(j <= Len(amounts))
    BY <2>1, <2>3, <2>5
  <2> QED BY <2>4, <2>5
<1> HIDE DEF payouts
<1>7. PICK a, b : a = UpTo(q, 4) /\ b = UpTo(payouts, 4)
  OBVIOUS
<1>8. Total(b) \in Int /\ Total(b) <= Total(a) + fee
  <2>1. PICK a1 \in Nat, a2 \in Nat, a3 \in Nat, a4 \in Nat :
           a1 = a[1] /\ a2 = a[2] /\ a3 = a[3] /\ a4 = a[4]
    BY <1>6, <1>7
  <2>2. b[1] = a1 \/ b[1] = a1 + fee
    BY <1>6, <1>7, <2>1
  <2>3. b[2] = a2 /\ b[3] = a3 /\ b[4] = a4
    BY <1>6, <1>7, <2>1
  <2>4. b[1] \in Nat /\ b[1] <= a1 + fee
    BY <1>0, <2>2
  <2>5. PICK b1 \in Nat : b1 = b[1] /\ b1 <= a1 + fee
    BY <2>4
  <2>6. Total(a) = a1 + a2 + a3 + a4 /\ Total(b) = b1 + a2 + a3 + a4
    BY <2>1, <2>3, <2>5 DEF Total
  <2>7. fee \in Nat
    BY <1>0
  <2>8. /\ b1 + a2 + a3 + a4 \in Int
        /\ b1 + a2 + a3 + a4 <= (a1 + a2 + a3 + a4) + fee
    BY <2>5, <2>7, SumsInOrder, Zenon
  <2> QED BY <2>6, <2>8, Zenon
<1>9. Total(UpTo(payouts, 4)) <= StakingPortions
  BY <1>0, <1>1, <1>4, <1>7, <1>8
<1> QED BY <1>9 DEF payouts
=============================================================================

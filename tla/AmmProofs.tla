----------------------------- MODULE AmmProofs -----------------------------
(***************************************************************************)
(* Theorems about the whole AMM of an asset: Milton, its storage, Joseph   *)
(* and Stanley, for any numbers of accounts, swaps and contracts, any      *)
(* amounts and rates, and lists of swaps of any length closed in one       *)
(* transaction.                                                            *)
(***************************************************************************)
EXTENDS Amm, MiltonStorageLemmas, FiniteSums

-----------------------------------------------------------------------------
(* Whole units of the asset's token, and what rounding to them does *)

Whole(x) == \E k \in Int : x = k * Unit

LEMMA Regrouped == \A a, b, c \in Int : a * c + b * c = (a + b) * c /\ a * c - b * c = (a - b) * c
  BY SMT

(* Sums and differences of whole amounts are whole. *)
LEMMA WholeSum ==
    ASSUME NEW x, NEW y, Whole(x), Whole(y)
    PROVE  Whole(x + y) /\ Whole(x - y)
<1>1. PICK a \in Int : x = a * Unit
  BY DEF Whole
<1>2. PICK b \in Int : y = b * Unit
  BY DEF Whole
<1>3. x + y = (a + b) * Unit /\ x - y = (a - b) * Unit
  BY <1>1, <1>2, Regrouped, VaultAssumption
<1>4. a + b \in Int /\ a - b \in Int
  OBVIOUS
<1> QED BY <1>3, <1>4 DEF Whole

LEMMA WholeZero == Whole(0)
<1>1. 0 = 0 * Unit
  BY VaultAssumption
<1> QED BY <1>1 DEF Whole

LEMMA WholeInt == \A x : Whole(x) => x \in Int
  BY VaultAssumption DEF Whole

(* Amounts of the token are whole, and so are multiples of 1.0. *)
LEMMA WholeToWad ==
    ASSUME NEW assets \in Int
    PROVE  ToWad(assets) \in Int /\ Whole(ToWad(assets)) /\ (assets >= 0 => ToWad(assets) >= 0)
<1>1. ToWad(assets) = assets * Unit
  BY DEF ToWad, ConvertToWad
<1>2. assets >= 0 => assets * Unit >= 0
  BY VaultAssumption, ProductOfNaturals
<1> QED BY <1>1, <1>2, VaultAssumption DEF Whole

LEMMA WholeTimesD18 ==
    ASSUME NEW k \in Int
    PROVE  Whole(k * D18)
<1> DEFINE q == D18 \div Unit
<1>1. q \in Int /\ D18 = Unit * q
  BY VaultAssumption, D18Assumption
<1>2. \A i, j, u \in Int : i * (u * j) = (i * j) * u
  BY SMT
<1> HIDE DEF q
<1>3. k * D18 = (k * q) * Unit
  BY <1>1, <1>2, VaultAssumption
<1>4. k * q \in Int
  BY <1>1
<1> QED BY <1>3, <1>4 DEF Whole

(* Rounding to the decimals of the token moves an amount by half a unit at
   most, keeps a whole one, and does not pass one. *)
LEMMA RoundingWithin ==
    ASSUME NEW x \in Int
    PROVE  /\ ToAsset(x) \in Int
           /\ x >= 0 => ToAsset(x) >= 0
           /\ ToWad(ToAsset(x)) \in Int
           /\ Within(ToWad(ToAsset(x)) - x, Unit)
<1>1. ToAsset(x) = Division(x, Unit)
  BY DEF ToAsset, ConvertWadToAssetDecimals
<1>2. Division(x, Unit) \in Int /\ (x >= 0 => Division(x, Unit) >= 0)
  BY VaultAssumption, DivisionType
<1>3. ToWad(ToAsset(x)) = Unit * Division(x, Unit)
  BY <1>1, <1>2, VaultAssumption DEF ToWad, ConvertToWad
<1>4. Within(Unit * Division(x, Unit) - x, Unit)
  BY VaultAssumption, DivisionWithin
<1> QED BY <1>1, <1>2, <1>3, <1>4, VaultAssumption

LEMMA WholeRounded ==
    ASSUME NEW x, Whole(x)
    PROVE  ToWad(ToAsset(x)) = x
<1>1. PICK k \in Int : x = k * Unit
  BY DEF Whole
<1>2. x = Unit * k
  BY <1>1, VaultAssumption
<1>3. Division(Unit * k, Unit) = k
  BY VaultAssumption, DivisionExact
<1> QED BY <1>1, <1>2, <1>3 DEF ToWad, ToAsset, ConvertToWad, ConvertWadToAssetDecimals

(* Whole amounts that differ do so by a unit at least. *)
LEMMA WholeApart ==
    ASSUME NEW x, NEW y, Whole(x), Whole(y), x < y + Unit
    PROVE  x <= y
<1>1. PICK a \in Int : x = a * Unit
  BY DEF Whole
<1>2. PICK b \in Int : y = b * Unit
  BY DEF Whole
<1>3. CASE a <= b
  <2>1. Unit * a <= Unit * b
    BY <1>3, VaultAssumption, ProductMonotonic
  <2> QED BY <2>1, <1>1, <1>2, VaultAssumption
<1>4. CASE a > b
  <2>1. Unit * (b + 1) <= Unit * a
    <3>1. b + 1 <= a /\ b + 1 \in Int
      BY <1>4
    <3> QED BY <3>1, VaultAssumption, ProductMonotonic
  <2>2. Unit * (b + 1) = b * Unit + Unit /\ Unit * a = a * Unit
    BY VaultAssumption
  <2> DEFINE p == b * Unit
             q == a * Unit
  <2>3. p \in Int /\ q \in Int /\ p + Unit <= q
    BY <2>1, <2>2, VaultAssumption
  <2> HIDE DEF p, q
  <2>4. ~(q < p + Unit)
    BY <2>3, VaultAssumption
  <2> QED BY <2>4, <1>1, <1>2 DEF p, q
<1> QED BY <1>3, <1>4

LEMMA RoundedBelow ==
    ASSUME NEW x \in Int, NEW m, Whole(m), x <= m
    PROVE  ToWad(ToAsset(x)) <= m
<1> DEFINE r == ToWad(ToAsset(x))
<1>1. r \in Int /\ Within(r - x, Unit) /\ ToAsset(x) \in Int
  BY RoundingWithin
<1>2. Whole(r)
  BY <1>1, WholeToWad
<1>3. m \in Int /\ Unit \in Nat /\ Unit > 0
  BY WholeInt, VaultAssumption
<1> HIDE DEF r
<1>4. r < m + Unit
  BY <1>1, <1>3 DEF Within
<1> QED BY <1>2, <1>4, WholeApart DEF r

(* What a division that rounds down pays: a whole amount, less than a unit
   short of what was asked for. *)
LEMMA FloorBelow ==
    ASSUME NEW x \in Nat
    PROVE  LET r == ToWad(ConvertWadToAssetDecimalsWithoutRound(x, Unit))
           IN  r \in Nat /\ Whole(r) /\ r <= x /\ x - r < Unit
<1> DEFINE q == x \div Unit
           r == ToWad(ConvertWadToAssetDecimalsWithoutRound(x, Unit))
<1>1. q \in Nat /\ x = Unit * q + (x % Unit) /\ x % Unit \in 0..(Unit - 1)
  BY VaultAssumption
<1>2. r = Unit * q
  BY <1>1, VaultAssumption DEF ToWad, ConvertToWad, ConvertWadToAssetDecimalsWithoutRound
<1>3. r \in Nat /\ Whole(r)
  <2>1. r = q * Unit
    BY <1>1, <1>2, VaultAssumption
  <2> HIDE DEF r, q
  <2>2. r \in Nat
    BY <2>1, <1>1, ProductOfNaturals, VaultAssumption
  <2> QED BY <2>1, <2>2, <1>1 DEF Whole
<1> HIDE DEF q, r
<1>4. r \in Nat /\ r <= x /\ x - r < Unit
  BY <1>1, <1>2, <1>3, VaultAssumption
<1> QED BY <1>3, <1>4 DEF r

(* Cancelling a positive factor. *)
LEMMA Cancelled == \A q \in Nat \ {0}, x, y \in Int : q * x < q * y => x < y
  BY SMT

LEMMA FloorBounds ==
    ASSUME NEW x \in Int, NEW q \in Nat \ {0}
    PROVE  x \div q \in Int /\ q * (x \div q) <= x /\ x < q * (x \div q) + q
<1>1. x \div q \in Int /\ x = q * (x \div q) + (x % q) /\ x % q \in 0..(q - 1)
  OBVIOUS
<1> DEFINE d == x \div q
           p == q * d
<1>2. p \in Int
  BY <1>1
<1> HIDE DEF p, d
<1> QED BY <1>1, <1>2 DEF p, d

LEMMA DivisionNatural == \A x \in Nat, y \in Nat \ {0} : Division(x, y) \in Nat
  BY DivisionType

LEMMA FloorNatural == \A x \in Nat, q \in Nat \ {0} : x \div q \in Nat
  BY SMT

LEMMA FloorMonotonic ==
    ASSUME NEW x \in Int, NEW y \in Int, x <= y, NEW q \in Nat \ {0}
    PROVE  x \div q <= y \div q
<1> DEFINE a == x \div q
           b == y \div q
<1>1. /\ a \in Int /\ q * a <= x /\ x < q * a + q
      /\ b \in Int /\ q * b <= y /\ y < q * b + q
  BY FloorBounds
<1> HIDE DEF a, b
<1>2. q * (b + 1) = q * b + q /\ q * a \in Int /\ q * b \in Int /\ b + 1 \in Int
  BY <1>1
<1>3. q * a < q * (b + 1)
  BY <1>1, <1>2
<1>4. a < b + 1
  BY <1>1, <1>2, <1>3, Cancelled
<1> QED BY <1>1, <1>4 DEF a, b

(* The units of WAD times 1.0 that one unit of the token is. *)
LEMMA PerUnit == D18 \div Unit \in Nat \ {0} /\ D18 = (D18 \div Unit) * Unit
<1> DEFINE q == D18 \div Unit
<1>1. q \in Nat /\ D18 = Unit * q
  BY VaultAssumption, D18Assumption
<1>2. q # 0
  BY <1>1, D18Assumption, VaultAssumption
<1>3. Unit * q = q * Unit
  BY <1>1, VaultAssumption
<1> QED BY <1>1, <1>2, <1>3

-----------------------------------------------------------------------------
(* Compound: what cTokens are worth, and what minting and redeeming changes *)

(* The value of n cTokens at a rate. *)
Worth(rate, n) == Division(rate * n, D18 \div Unit)

(* What one conversion at a rate can change it by. *)
RoundingAt(rate) == Unit + ToWad(rate) \div D18 + 1

LEMMA RoundingType ==
    ASSUME NEW rate \in Nat
    PROVE  RoundingAt(rate) \in Nat
<1>1. ToWad(rate) \in Nat
  BY WholeToWad
<1>2. ToWad(rate) \div D18 \in Nat
  BY <1>1, FloorNatural, D18Assumption
<1> QED BY <1>2, VaultAssumption DEF RoundingAt

LEMMA RoundingGrows ==
    ASSUME NEW r \in Nat, NEW s \in Nat, r <= s
    PROVE  RoundingAt(r) <= RoundingAt(s)
<1>1. ToWad(r) \in Int /\ ToWad(s) \in Int /\ ToWad(r) = Unit * r /\ ToWad(s) = Unit * s
  BY WholeToWad, VaultAssumption DEF ToWad, ConvertToWad
<1>2. ToWad(r) <= ToWad(s)
  BY <1>1, ProductMonotonic, VaultAssumption
<1>3. ToWad(r) \div D18 <= ToWad(s) \div D18
  BY <1>1, <1>2, FloorMonotonic, D18Assumption
<1>4. ToWad(r) \div D18 \in Int /\ ToWad(s) \div D18 \in Int
  BY <1>1, FloorBounds, D18Assumption
<1> QED BY <1>3, <1>4, VaultAssumption DEF RoundingAt

(* A cToken is worth less than that. *)
LEMMA RateBelow ==
    ASSUME NEW rate \in Nat
    PROVE  LET q == D18 \div Unit
               e == ToWad(rate) \div D18
           IN  e \in Nat /\ rate < q * e + q
<1> DEFINE q == D18 \div Unit
           e == ToWad(rate) \div D18
<1>1. q \in Nat \ {0} /\ D18 = q * Unit
  BY PerUnit
<1>2. ToWad(rate) \in Nat /\ ToWad(rate) = Unit * rate
  BY WholeToWad, VaultAssumption DEF ToWad, ConvertToWad
<1>3. e \in Nat /\ ToWad(rate) < D18 * e + D18
  <2>1. ToWad(rate) \in Nat /\ ToWad(rate) \in Int /\ D18 \in Nat \ {0}
    BY <1>2, D18Assumption
  <2>2. e \in Nat
    BY <2>1, FloorNatural
  <2>3. ToWad(rate) < D18 * e + D18
    BY <2>1, FloorBounds
  <2> QED BY <2>2, <2>3
<1> HIDE DEF q, e
<1>4. \A u, i, j \in Int : (i * u) * j + i * u = u * (i * j + i)
  BY SMT
<1>5. D18 * e + D18 = Unit * (q * e + q)
  BY <1>1, <1>3, <1>4, VaultAssumption
<1>6. q * e + q \in Int
  BY <1>1, <1>3
<1>7. rate < q * e + q
  BY <1>2, <1>3, <1>5, <1>6, Cancelled, VaultAssumption
<1> QED BY <1>3, <1>7 DEF q, e

LEMMA WorthBounds ==
    ASSUME NEW rate \in Nat, NEW n \in Nat
    PROVE  LET q == D18 \div Unit
               x == rate * n + (q \div 2)
           IN  /\ Worth(rate, n) \in Nat
               /\ q * Worth(rate, n) <= x
               /\ x < q * Worth(rate, n) + q
<1> DEFINE q == D18 \div Unit
           x == rate * n + (q \div 2)
<1>1. q \in Nat \ {0}
  BY PerUnit
<1>2. rate * n \in Nat /\ q \div 2 \in Nat
  BY <1>1, ProductOfNaturals
<1>3. Worth(rate, n) = x \div q
  BY DEF Worth, Division
<1>4. x \in Nat
  BY <1>2
<1> HIDE DEF x, q
<1>5. x \div q \in Nat /\ q * (x \div q) <= x /\ x < q * (x \div q) + q
  BY <1>1, <1>4, FloorBounds, FloorNatural
<1> QED BY <1>3, <1>5 DEF x, q

LEMMA WorthGrows ==
    ASSUME NEW r \in Nat, NEW s \in Nat, NEW n \in Nat, r <= s
    PROVE  Worth(r, n) <= Worth(s, n)
<1> DEFINE q == D18 \div Unit
<1>1. q \in Nat \ {0} /\ q \div 2 \in Int
  BY PerUnit
<1>2. r * n \in Int /\ s * n \in Int /\ r * n <= s * n
  <2>1. n * r <= n * s
    BY ProductMonotonic
  <2> QED BY <2>1
<1> HIDE DEF q
<1>3. (r * n + (q \div 2)) \div q <= (s * n + (q \div 2)) \div q
  <2>1. r * n + (q \div 2) \in Int /\ s * n + (q \div 2) \in Int
        /\ r * n + (q \div 2) <= s * n + (q \div 2)
    BY <1>1, <1>2
  <2> QED BY <2>1, <1>1, FloorMonotonic
<1> QED BY <1>3 DEF Worth, Division, q

(* Minting: the cTokens are worth what was paid, or less by the rounding. *)
LEMMA MintedWorth ==
    ASSUME NEW rate \in Nat \ {0}, NEW n \in Nat, NEW assets \in Nat
    PROVE  LET k == (assets * D18) \div rate
               d == Worth(rate, n + k) - Worth(rate, n) - ToWad(assets)
           IN  k \in Nat /\ -RoundingAt(rate) <= d /\ d <= RoundingAt(rate)
<1> DEFINE q == D18 \div Unit
           k == (assets * D18) \div rate
           w == ToWad(assets)
           e == ToWad(rate) \div D18
           h == q \div 2
           old == Worth(rate, n)
           new == Worth(rate, n + k)
           a == rate * n
           b == rate * k
<1>1. q \in Nat \ {0} /\ D18 = q * Unit /\ h \in Int
  BY PerUnit
<1>2. assets * D18 \in Nat
  BY ProductOfNaturals, D18Assumption
<1>3. k \in Nat /\ rate * k <= assets * D18 /\ assets * D18 < rate * k + rate
  BY <1>2, FloorBounds, FloorNatural
<1>4. w \in Nat /\ w = assets * Unit
  BY WholeToWad DEF ToWad, ConvertToWad
<1>5. assets * D18 = q * w
  <2> HIDE DEF q, w
  <2>1. \A i, j, u \in Int : i * (j * u) = j * (i * u)
    BY SMT
  <2> QED BY <2>1, <1>1, <1>4, VaultAssumption
<1>6. e \in Nat /\ rate < q * e + q
  BY RateBelow
<1>7. old \in Nat /\ q * old <= a + h /\ a + h < q * old + q
  BY WorthBounds
<1>8. new \in Nat /\ q * new <= rate * (n + k) + h /\ rate * (n + k) + h < q * new + q
  <2>1. n + k \in Nat
    BY <1>3
  <2> QED BY <2>1, WorthBounds
<1>9. rate * (n + k) = a + b /\ a \in Int /\ b \in Int
  BY <1>3
<1> HIDE DEF q, k, w, e, h, old, new, a
<1>10. b <= q * w /\ q * w < b + rate
  BY <1>3, <1>5
<1>11. q * old \in Int /\ q * new \in Int /\ q * w \in Int /\ q * e \in Int
  BY <1>1, <1>4, <1>6, <1>7, <1>8
<1> HIDE DEF b
<1>12. q * new < q * old + q * w + q
  BY <1>1, <1>7, <1>8, <1>9, <1>10, <1>11
<1>13. q * old + q * w < q * new + q * e + (q + q)
  BY <1>1, <1>6, <1>7, <1>8, <1>9, <1>10, <1>11
<1>14. \A x, y, z, i \in Int : /\ i * y + i * z + i = i * (y + z + 1)
                               /\ i * y + i * z = i * (y + z)
                               /\ i * x + i * z + (i + i) = i * (x + z + 2)
  BY SMT
<1>15. new < old + w + 1
  <2>1. q * new < q * (old + w + 1)
    BY <1>12, <1>14, <1>1, <1>4, <1>7, <1>8
  <2>2. old + w + 1 \in Int
    BY <1>4, <1>7
  <2> QED BY <2>1, <2>2, <1>1, <1>8, Cancelled
<1>16. old + w < new + e + 2
  <2>1. q * (old + w) < q * (new + e + 2)
    BY <1>13, <1>14, <1>1, <1>4, <1>6, <1>7, <1>8
  <2>2. old + w \in Int /\ new + e + 2 \in Int
    BY <1>4, <1>6, <1>7, <1>8
  <2> QED BY <2>1, <2>2, <1>1, Cancelled
<1>17. RoundingAt(rate) = Unit + e + 1
  BY DEF RoundingAt, e
<1>18. new - old - w <= RoundingAt(rate) /\ -RoundingAt(rate) <= new - old - w
  BY <1>15, <1>16, <1>17, <1>4, <1>6, <1>7, <1>8, VaultAssumption
<1> QED BY <1>3, <1>18 DEF k, w, old, new

(* Redeeming: what is paid and what is left are worth what was there, or less
   by the rounding. *)
LEMMA RedeemedWorth ==
    ASSUME NEW rate \in Nat \ {0}, NEW n \in Nat, NEW t \in 0..n
    PROVE  LET w == ToWad((t * rate) \div D18)
               d == Worth(rate, n - t) + w - Worth(rate, n)
           IN  w \in Nat /\ Whole(w) /\ -RoundingAt(rate) <= d /\ d <= RoundingAt(rate)
<1> DEFINE q == D18 \div Unit
           p == (t * rate) \div D18
           w == ToWad(p)
           e == ToWad(rate) \div D18
           h == q \div 2
           old == Worth(rate, n)
           new == Worth(rate, n - t)
           a == rate * n
           b == t * rate
<1>1. q \in Nat \ {0} /\ D18 = q * Unit /\ h \in Int
  BY PerUnit
<1>2. b \in Nat /\ a \in Nat
  BY ProductOfNaturals
<1>3. p \in Nat /\ D18 * p <= b /\ b < D18 * p + D18
  BY <1>2, FloorBounds, FloorNatural, D18Assumption
<1>4. w \in Nat /\ Whole(w) /\ w = p * Unit
  BY <1>3, WholeToWad DEF ToWad, ConvertToWad
<1>5. D18 * p = q * w
  <2> HIDE DEF q, w, p
  <2>1. \A i, j, u \in Int : (j * u) * i = j * (i * u)
    BY SMT
  <2> QED BY <2>1, <1>1, <1>3, <1>4, VaultAssumption
<1>6. e \in Nat
  BY RateBelow
<1>7. old \in Nat /\ q * old <= a + h /\ a + h < q * old + q
  BY WorthBounds
<1>8. new \in Nat /\ q * new <= rate * (n - t) + h /\ rate * (n - t) + h < q * new + q
  <2>1. n - t \in Nat
    OBVIOUS
  <2> QED BY <2>1, WorthBounds
<1>9. rate * (n - t) = a - b
  OBVIOUS
<1> HIDE DEF q, p, w, e, h, old, new, a, b
<1>10. q * w <= b /\ b < q * w + q * Unit
  BY <1>1, <1>3, <1>5
<1>11. q * old \in Int /\ q * new \in Int /\ q * w \in Int /\ q * Unit \in Int
  BY <1>1, <1>4, <1>7, <1>8, VaultAssumption
<1>12. q * new + q * w < q * old + q
  BY <1>1, <1>2, <1>7, <1>8, <1>9, <1>10, <1>11
<1>13. q * old < q * new + q * w + (q * Unit + q)
  BY <1>1, <1>2, <1>7, <1>8, <1>9, <1>10, <1>11
<1>14. \A x, y, z, i \in Int : /\ i * y + i = i * (y + 1)
                               /\ i * y + i * z = i * (y + z)
                               /\ i * x + i * y + (i * z + i) = i * (x + y + (z + 1))
  BY SMT
<1>15. new + w < old + 1
  <2>1. q * (new + w) < q * (old + 1)
    BY <1>12, <1>14, <1>1, <1>4, <1>7, <1>8
  <2>2. new + w \in Int /\ old + 1 \in Int
    BY <1>4, <1>7, <1>8
  <2> QED BY <2>1, <2>2, <1>1, Cancelled
<1>16. old < new + w + (Unit + 1)
  <2>1. q * old < q * (new + w + (Unit + 1))
    BY <1>13, <1>14, <1>1, <1>4, <1>7, <1>8, VaultAssumption
  <2>2. new + w + (Unit + 1) \in Int
    BY <1>4, <1>7, <1>8, VaultAssumption
  <2> QED BY <2>1, <2>2, <1>1, <1>7, Cancelled
<1>17. RoundingAt(rate) = Unit + e + 1
  BY DEF RoundingAt, e
<1>18. new + w - old <= RoundingAt(rate) /\ -RoundingAt(rate) <= new + w - old
  BY <1>15, <1>16, <1>17, <1>4, <1>6, <1>7, <1>8, VaultAssumption
<1> QED BY <1>4, <1>18 DEF p, w, old, new, b

-----------------------------------------------------------------------------
(* Sums over the contracts *)

LEMMA SumChanges ==
    ASSUME NEW S, IsFiniteSet(S), NEW f, NEW g, NEW e \in S, NEW n \in Int,
           \A x \in S : f[x] \in Int, \A x \in S : g[x] \in Int,
           g[e] = f[e] + n, \A x \in S \ {e} : g[x] = f[x]
    PROVE  SumFunctionOnSet(g, S) = SumFunctionOnSet(f, S) + n
<1> DEFINE rest == S \ {e}
<1>1. IsFiniteSet(rest) /\ \A x \in rest : f[x] \in Int
  BY FS_Subset
<1>2. SumFunctionOnSet(f, S) = f[e] + SumFunctionOnSet(f, rest)
  BY SumRemove
<1>3. SumFunctionOnSet(g, S) = g[e] + SumFunctionOnSet(g, rest)
  BY SumRemove
<1>4. SumFunctionOnSet(g, rest) = SumFunctionOnSet(f, rest)
  BY <1>1, SumAgrees
<1>5. SumFunctionOnSet(f, rest) \in Int /\ f[e] \in Int
  BY <1>1, SumType
<1> HIDE DEF rest
<1> QED BY <1>2, <1>3, <1>4, <1>5

LEMMA SumGrows ==
    ASSUME NEW S, IsFiniteSet(S), NEW f, NEW g, \A x \in S : f[x] \in Int,
           \A x \in S : g[x] \in Int, \A x \in S : f[x] <= g[x]
    PROVE  SumFunctionOnSet(f, S) <= SumFunctionOnSet(g, S)
<1> DEFINE h == [x \in S |-> g[x] - f[x]]
<1>1. \A x \in S : h[x] \in Nat /\ h[x] = 1 * g[x] + (-1) * f[x]
  OBVIOUS
<1> HIDE DEF h
<1>2. SumFunctionOnSet(h, S) = 1 * SumFunctionOnSet(g, S) + (-1) * SumFunctionOnSet(f, S)
  BY <1>1, SumIsLinear
<1>3. SumFunctionOnSet(h, S) \in Nat
  BY <1>1, SumOfNaturals
<1>4. SumFunctionOnSet(f, S) \in Int /\ SumFunctionOnSet(g, S) \in Int
  BY SumType
<1> QED BY <1>2, <1>3, <1>4

-----------------------------------------------------------------------------
(* Stanley *)

(* Interest on Aave and everything that is moved come in whole units, so an
   Aave contract never holds a part of one, and can pay all it holds. *)
AaveHeldWhole(v) == \A c \in AaveContracts : Whole(v.held[c])

(* Compound's rate rises only, and the stored one follows the current one. *)
RatesOrdered(v) == InitialRate <= v.stored /\ v.stored <= v.current

VaultOK(v) ==
    v \in Vault /\ AaveHeldWhole(v) /\ RatesOrdered(v) /\ v.reported <= v.conversions

Apart(v) == v.at[Aave] # v.at[Compound]

(* What a contract has, its cTokens taken at a rate, and what all have. *)
HeldBy(v, rate, c) == IF c \in AaveContracts THEN v.held[c] ELSE Worth(rate, v.held[c])

AllAt(v, rate) ==
    SumFunctionOnSet([c \in StrategyContract |-> HeldBy(v, rate, c)], StrategyContract)

AllHeld(v) == AllAt(v, v.current)

AllStored(v) == AllAt(v, v.stored)

(* The same contracts are in use, and those that are not are left alone. *)
SameContracts(v, w) ==
    /\ w.at = v.at
    /\ w.approved = v.approved
    /\ \A c \in StrategyContract \ InUse(v) : w.held[c] = v.held[c]

(* What one contract has changes. *)
SameBut(v, w, c) ==
    /\ w.at = v.at /\ w.approved = v.approved /\ w.iv = v.iv /\ w.max = v.max
    /\ w.paused = v.paused /\ w.reported = v.reported
    /\ \A d \in StrategyContract \ {c} : w.held[d] = v.held[d]

(* What the roundings of the conversions from v to w can be. *)
RoundingsFrom(v, w) == (w.conversions - v.conversions) * RoundingAt(v.current)

(* All that the contracts have changes by x, but for Compound's roundings. *)
Changes(v, w, x) ==
    /\ w.current = v.current
    /\ v.conversions <= w.conversions
    /\ (AllHeld(v) + x) - RoundingsFrom(v, w) <= AllHeld(w)
    /\ AllHeld(w) <= (AllHeld(v) + x) + RoundingsFrom(v, w)
    /\ (AllStored(v) + x) - RoundingsFrom(v, w) <= AllStored(w)

LEMMA VaultFields ==
    ASSUME NEW v \in Vault
    PROVE  /\ v.at \in [Strategy -> StrategyContract]
           /\ v.at[Aave] \in StrategyContract /\ v.at[Compound] \in StrategyContract
           /\ v.held \in [StrategyContract -> Nat]
           /\ v.stored \in Nat /\ v.current \in Nat
           /\ v.conversions \in Nat /\ v.reported \in Nat
           /\ v.approved \subseteq StrategyContract
           /\ v.iv \in Nat
           /\ v.max \in Strategy
           /\ v.paused \in BOOLEAN
           /\ v.at[v.max] \in StrategyContract
  BY DEF Vault, Strategy

LEMMA HeldByType ==
    ASSUME NEW v \in Vault, NEW rate \in Nat
    PROVE  /\ \A c \in StrategyContract : HeldBy(v, rate, c) \in Nat
           /\ AllAt(v, rate) \in Nat
<1>1. ASSUME NEW c \in StrategyContract PROVE HeldBy(v, rate, c) \in Nat
  <2>1. v.held[c] \in Nat
    BY VaultFields
  <2> QED BY <2>1, WorthBounds DEF HeldBy
<1> DEFINE f == [c \in StrategyContract |-> HeldBy(v, rate, c)]
<1>2. \A c \in StrategyContract : f[c] \in Nat
  BY <1>1
<1> HIDE DEF f
<1>3. SumFunctionOnSet(f, StrategyContract) \in Nat
  BY <1>2, AmmAssumption, SumOfNaturals
<1> QED BY <1>1, <1>3 DEF AllAt, f

LEMMA BalanceIsHeld ==
    ASSUME NEW v \in Vault
    PROVE  /\ \A c : BalanceOf(v, c) = HeldBy(v, v.stored, c)
           /\ \A c : BalanceOf(Accrued(v), c) = HeldBy(v, v.current, c)
<1> DEFINE w == Accrued(v)
<1>1. w.stored = v.current /\ w.held = v.held
  BY DEF Accrued, Vault
<1> HIDE DEF w
<1>2. \A c : BalanceOf(w, c) = HeldBy(v, v.current, c)
  BY <1>1 DEF BalanceOf, HeldBy, Worth
<1> QED BY <1>2 DEF BalanceOf, HeldBy, Worth, w

LEMMA HeldTypes ==
    ASSUME NEW v \in Vault
    PROVE  /\ HeldAt(v, Aave) \in Nat /\ HeldAt(v, Compound) \in Nat
           /\ HeldTotal(v) \in Nat /\ HeldTotal(Accrued(v)) \in Nat
           /\ \A c \in StrategyContract : BalanceOf(v, c) \in Nat
           /\ AllHeld(v) \in Nat /\ AllStored(v) \in Nat
           /\ RoundingAt(v.current) \in Nat
<1>1. v.stored \in Nat /\ v.current \in Nat
  BY VaultFields
<1>2. v.at[Aave] \in StrategyContract /\ v.at[Compound] \in StrategyContract
  BY VaultFields
<1>3. \A c \in StrategyContract : BalanceOf(v, c) \in Nat /\ BalanceOf(Accrued(v), c) \in Nat
  BY <1>1, HeldByType, BalanceIsHeld
<1>4. Accrued(v).at = v.at
  BY DEF Accrued, Vault
<1>5. AllHeld(v) \in Nat /\ AllStored(v) \in Nat
  BY <1>1, HeldByType DEF AllHeld, AllStored
<1>6. RoundingAt(v.current) \in Nat
  BY <1>1, RoundingType
<1> QED BY <1>2, <1>3, <1>4, <1>5, <1>6 DEF HeldTotal, HeldAt

(* The rates of a vault are positive. *)
LEMMA RatesPositive ==
    ASSUME NEW v, VaultOK(v)
    PROVE  /\ InitialRate \in Nat \ {0}
           /\ v.stored \in Nat \ {0} /\ v.current \in Nat \ {0}
           /\ v.stored <= v.current /\ InitialRate <= v.stored
<1>1. InitialRate # 0
  <2>1. InitialRate = 0 => InitialRate * Unit = 0
    BY VaultAssumption
  <2> QED BY <2>1, VaultAssumption, D18Assumption
<1>2. v.stored \in Nat /\ v.current \in Nat /\ InitialRate <= v.stored /\ v.stored <= v.current
  BY VaultFields DEF VaultOK, RatesOrdered
<1> QED BY <1>1, <1>2, VaultAssumption

(* What all have changes by what one contract's does. *)
LEMMA OneChanges ==
    ASSUME NEW v \in Vault, NEW w \in Vault, NEW c \in StrategyContract, SameBut(v, w, c),
           NEW rate \in Nat
    PROVE  AllAt(w, rate) = AllAt(v, rate) + (HeldBy(w, rate, c) - HeldBy(v, rate, c))
<1> DEFINE f == [d \in StrategyContract |-> HeldBy(v, rate, d)]
           g == [d \in StrategyContract |-> HeldBy(w, rate, d)]
           n == HeldBy(w, rate, c) - HeldBy(v, rate, c)
<1>1. /\ \A d \in StrategyContract : HeldBy(v, rate, d) \in Nat
      /\ \A d \in StrategyContract : HeldBy(w, rate, d) \in Nat
  BY HeldByType
<1>2. /\ \A d \in StrategyContract : f[d] \in Int
      /\ \A d \in StrategyContract : g[d] \in Int
      /\ g[c] = f[c] + n /\ n \in Int
  BY <1>1
<1>3. \A d \in StrategyContract \ {c} : g[d] = f[d]
  BY DEF SameBut, HeldBy
<1> HIDE DEF f, g, n
<1>4. SumFunctionOnSet(g, StrategyContract) = SumFunctionOnSet(f, StrategyContract) + n
  BY <1>2, <1>3, AmmAssumption, SumChanges
<1> QED BY <1>4 DEF AllAt, f, g, n

LEMMA WorthOfMore ==
    ASSUME NEW r \in Nat, NEW m \in Nat, NEW n \in Nat, m <= n
    PROVE  Worth(r, m) <= Worth(r, n)
<1>1. Worth(m, r) <= Worth(n, r)
  BY WorthGrows
<1>2. m * r = r * m /\ n * r = r * n
  OBVIOUS
<1> QED BY <1>1, <1>2 DEF Worth

(* At a higher rate contracts that have as much or more have more. *)
LEMMA AllGrows ==
    ASSUME NEW v \in Vault, NEW w \in Vault, NEW r \in Nat, NEW s \in Nat, r <= s,
           \A c \in StrategyContract : v.held[c] <= w.held[c]
    PROVE  /\ \A c \in StrategyContract : HeldBy(v, r, c) <= HeldBy(w, s, c)
           /\ AllAt(v, r) <= AllAt(w, s)
<1> DEFINE f == [c \in StrategyContract |-> HeldBy(v, r, c)]
           g == [c \in StrategyContract |-> HeldBy(w, s, c)]
<1>1. ASSUME NEW c \in StrategyContract PROVE HeldBy(v, r, c) <= HeldBy(w, s, c)
  <2>1. v.held[c] \in Nat /\ w.held[c] \in Nat /\ v.held[c] <= w.held[c]
    BY VaultFields
  <2>2. Worth(r, v.held[c]) <= Worth(s, v.held[c]) /\ Worth(s, v.held[c]) <= Worth(s, w.held[c])
    BY <2>1, WorthGrows, WorthOfMore
  <2>3. Worth(r, v.held[c]) \in Nat /\ Worth(s, v.held[c]) \in Nat /\ Worth(s, w.held[c]) \in Nat
    BY <2>1, WorthBounds
  <2> QED BY <2>1, <2>2, <2>3 DEF HeldBy
<1>2. /\ \A c \in StrategyContract : HeldBy(v, r, c) \in Nat
      /\ \A c \in StrategyContract : HeldBy(w, s, c) \in Nat
  BY HeldByType
<1>3. /\ \A c \in StrategyContract : f[c] \in Int
      /\ \A c \in StrategyContract : g[c] \in Int
      /\ \A c \in StrategyContract : f[c] <= g[c]
  BY <1>1, <1>2
<1> HIDE DEF f, g
<1>4. SumFunctionOnSet(f, StrategyContract) <= SumFunctionOnSet(g, StrategyContract)
  BY <1>3, AmmAssumption, SumGrows
<1> QED BY <1>1, <1>4 DEF AllAt, f, g

LEMMA StoredBelow ==
    ASSUME NEW v, VaultOK(v)
    PROVE  AllStored(v) <= AllHeld(v)
<1>1. v \in Vault /\ v.stored \in Nat /\ v.current \in Nat /\ v.stored <= v.current
  BY RatesPositive DEF VaultOK
<1>2. \A c \in StrategyContract : v.held[c] <= v.held[c]
  <2>1. v.held \in [StrategyContract -> Nat]
    BY <1>1, VaultFields
  <2> QED BY <2>1
<1> QED BY <1>1, <1>2, AllGrows DEF AllStored, AllHeld

LEMMA ChangesNothing ==
    ASSUME NEW v, VaultOK(v)
    PROVE  Changes(v, v, 0)
<1>1. AllHeld(v) \in Nat /\ AllStored(v) \in Nat /\ RoundingAt(v.current) \in Nat
      /\ v.conversions \in Nat
  BY HeldTypes, VaultFields DEF VaultOK
<1>2. RoundingsFrom(v, v) = 0
  BY <1>1 DEF RoundingsFrom
<1> QED BY <1>1, <1>2 DEF Changes

LEMMA RoundingsType ==
    ASSUME NEW v \in Vault, NEW w \in Vault, v.conversions <= w.conversions
    PROVE  RoundingsFrom(v, w) \in Nat
<1>1. w.conversions - v.conversions \in Nat /\ RoundingAt(v.current) \in Nat
  BY VaultFields, HeldTypes
<1> QED BY <1>1, ProductOfNaturals DEF RoundingsFrom

LEMMA ChangesTransitive ==
    ASSUME NEW u, NEW v, NEW w, VaultOK(u), VaultOK(v), VaultOK(w),
           NEW x \in Int, NEW y \in Int, Changes(u, v, x), Changes(v, w, y)
    PROVE  Changes(u, w, x + y)
<1>1. u \in Vault /\ v \in Vault /\ w \in Vault
  BY DEF VaultOK
<1>2. /\ AllHeld(u) \in Nat /\ AllStored(u) \in Nat /\ RoundingAt(u.current) \in Nat
      /\ AllHeld(v) \in Nat /\ AllStored(v) \in Nat
      /\ AllHeld(w) \in Nat /\ AllStored(w) \in Nat
  BY <1>1, HeldTypes
<1>3. u.conversions \in Nat /\ v.conversions \in Nat /\ w.conversions \in Nat
  BY <1>1, VaultFields
<1>4. /\ w.current = u.current /\ v.current = u.current
      /\ u.conversions <= v.conversions /\ v.conversions <= w.conversions
      /\ u.conversions <= w.conversions
  BY <1>3 DEF Changes
<1>5. RoundingsFrom(u, v) \in Nat /\ RoundingsFrom(v, w) \in Nat /\ RoundingsFrom(u, w) \in Nat
  BY <1>1, <1>4, RoundingsType
<1>6. RoundingsFrom(u, w) = RoundingsFrom(u, v) + RoundingsFrom(v, w)
  <2>1. \A a, b, c, r \in Int : (c - a) * r = (b - a) * r + (c - b) * r
    BY SMT
  <2> QED BY <2>1, <1>2, <1>3, <1>4 DEF RoundingsFrom
<1>7. /\ (AllHeld(u) + x) - RoundingsFrom(u, v) <= AllHeld(v)
      /\ AllHeld(v) <= (AllHeld(u) + x) + RoundingsFrom(u, v)
      /\ (AllStored(u) + x) - RoundingsFrom(u, v) <= AllStored(v)
  BY DEF Changes
<1>8. /\ (AllHeld(v) + y) - RoundingsFrom(v, w) <= AllHeld(w)
      /\ AllHeld(w) <= (AllHeld(v) + y) + RoundingsFrom(v, w)
      /\ (AllStored(v) + y) - RoundingsFrom(v, w) <= AllStored(w)
  BY DEF Changes
<1>9. (AllHeld(u) + (x + y)) - RoundingsFrom(u, w) <= AllHeld(w)
  BY <1>2, <1>5, <1>6, <1>7, <1>8
<1>10. AllHeld(w) <= (AllHeld(u) + (x + y)) + RoundingsFrom(u, w)
  BY <1>2, <1>5, <1>6, <1>7, <1>8
<1>11. (AllStored(u) + (x + y)) - RoundingsFrom(u, w) <= AllStored(w)
  BY <1>2, <1>5, <1>6, <1>7, <1>8
<1> QED BY <1>4, <1>9, <1>10, <1>11 DEF Changes

(* What a vault has depends on its contracts and its rates only. *)
LEMMA SameHeldSameAll ==
    ASSUME NEW v \in Vault, NEW w \in Vault, NEW rate \in Nat,
           \A c \in StrategyContract : w.held[c] = v.held[c]
    PROVE  AllAt(w, rate) = AllAt(v, rate)
<1> DEFINE f == [c \in StrategyContract |-> HeldBy(v, rate, c)]
           g == [c \in StrategyContract |-> HeldBy(w, rate, c)]
<1>1. \A c \in StrategyContract : f[c] = g[c]
  BY DEF HeldBy
<1> HIDE DEF f, g
<1>2. SumFunctionOnSet(f, StrategyContract) = SumFunctionOnSet(g, StrategyContract)
  BY <1>1, AmmAssumption, SumAgrees
<1> QED BY <1>2 DEF AllAt, f, g

(* An Aave contract has another amount, of whole units. *)
LEMMA AaveHolds ==
    ASSUME NEW v, VaultOK(v), NEW c \in AaveContracts, NEW x, x \in Nat, Whole(x)
    PROVE  LET w == [v EXCEPT !.held[c] = x]
           IN  /\ VaultOK(w) /\ SameBut(v, w, c)
               /\ w.held[c] = x /\ w.stored = v.stored /\ w.conversions = v.conversions
               /\ Changes(v, w, x - v.held[c])
<1> DEFINE w == [v EXCEPT !.held[c] = x]
<1>1. /\ v \in Vault /\ v.held \in [StrategyContract -> Nat] /\ v.conversions \in Nat
      /\ v.stored \in Nat /\ v.current \in Nat /\ c \in StrategyContract
  BY VaultFields DEF VaultOK, StrategyContract
<1>2. w = [v EXCEPT !.held = [v.held EXCEPT ![c] = x]]
  OBVIOUS
<1> HIDE DEF w
<1>3. /\ w \in Vault
      /\ w.at = v.at /\ w.approved = v.approved /\ w.iv = v.iv /\ w.max = v.max
      /\ w.paused = v.paused /\ w.reported = v.reported
      /\ w.stored = v.stored /\ w.current = v.current /\ w.conversions = v.conversions
      /\ w.held = [v.held EXCEPT ![c] = x]
  BY <1>1, <1>2 DEF Vault
<1>4. w.held[c] = x /\ \A d \in StrategyContract \ {c} : w.held[d] = v.held[d]
  BY <1>1, <1>3
<1>5. SameBut(v, w, c)
  BY <1>3, <1>4 DEF SameBut
<1>6. VaultOK(w)
  <2>1. AaveHeldWhole(w)
    BY <1>4 DEF AaveHeldWhole, VaultOK, StrategyContract
  <2> QED BY <2>1, <1>3 DEF VaultOK, RatesOrdered
<1>7. \A rate \in Nat : AllAt(w, rate) = AllAt(v, rate) + (x - v.held[c])
  BY <1>1, <1>3, <1>4, <1>5, OneChanges DEF HeldBy
<1>8. /\ AllHeld(w) = AllHeld(v) + (x - v.held[c])
      /\ AllStored(w) = AllStored(v) + (x - v.held[c])
  BY <1>1, <1>3, <1>7 DEF AllHeld, AllStored
<1>9. RoundingsFrom(v, w) = 0
  <2>1. RoundingAt(v.current) \in Nat
    BY <1>1, HeldTypes
  <2> QED BY <2>1, <1>1, <1>3 DEF RoundingsFrom
<1>10. AllHeld(v) \in Nat /\ AllStored(v) \in Nat /\ v.held[c] \in Nat
  BY <1>1, HeldTypes
<1>11. Changes(v, w, x - v.held[c])
  BY <1>1, <1>3, <1>8, <1>9, <1>10 DEF Changes
<1> QED BY <1>3, <1>4, <1>5, <1>6, <1>11 DEF w

(* A Compound contract has other cTokens: the rate is stored, and what they are
   worth counts. *)
LEMMA CompoundHolds ==
    ASSUME NEW v, VaultOK(v), NEW c \in StrategyContract, c \notin AaveContracts,
           NEW n \in Int, v.held[c] + n \in Nat, NEW y \in Int,
           -RoundingAt(v.current) <= (Worth(v.current, v.held[c] + n) - Worth(v.current, v.held[c])) - y,
           (Worth(v.current, v.held[c] + n) - Worth(v.current, v.held[c])) - y <= RoundingAt(v.current)
    PROVE  LET w == Converted(v, c, n)
           IN  /\ VaultOK(w) /\ SameBut(v, w, c)
               /\ w.held[c] = v.held[c] + n /\ w.stored = v.current
               /\ w.conversions = v.conversions + 1
               /\ Changes(v, w, y)
<1> DEFINE w == Converted(v, c, n)
           x == v.held[c] + n
           e == RoundingAt(v.current)
<1>1. /\ v \in Vault /\ v.held \in [StrategyContract -> Nat] /\ v.conversions \in Nat
      /\ v.stored \in Nat /\ v.current \in Nat /\ v.reported \in Nat
  BY VaultFields DEF VaultOK
<1>2. w = [v EXCEPT !.held = [v.held EXCEPT ![c] = x], !.stored = v.current,
                    !.conversions = v.conversions + 1]
  BY DEF Converted
<1>3. x \in Nat
  OBVIOUS
<1> HIDE DEF w, x
<1>4. /\ w \in Vault
      /\ w.at = v.at /\ w.approved = v.approved /\ w.iv = v.iv /\ w.max = v.max
      /\ w.paused = v.paused /\ w.reported = v.reported
      /\ w.stored = v.current /\ w.current = v.current /\ w.conversions = v.conversions + 1
      /\ w.held = [v.held EXCEPT ![c] = x]
  <2> DEFINE held2 == [v.held EXCEPT ![c] = x]
             more == v.conversions + 1
  <2>1. held2 \in [StrategyContract -> Nat] /\ more \in Nat
    BY <1>1, <1>3
  <2>2. w = [v EXCEPT !.held = held2, !.stored = v.current, !.conversions = more]
    BY <1>2
  <2> HIDE DEF held2, more
  <2>3. /\ w \in Vault
        /\ w.at = v.at /\ w.approved = v.approved /\ w.iv = v.iv /\ w.max = v.max
        /\ w.paused = v.paused /\ w.reported = v.reported
        /\ w.stored = v.current /\ w.current = v.current /\ w.conversions = more
        /\ w.held = held2
    BY <1>1, <2>1, <2>2 DEF Vault
  <2> QED BY <2>3 DEF held2, more
<1>5. w.held[c] = x /\ \A d \in StrategyContract \ {c} : w.held[d] = v.held[d]
  BY <1>1, <1>4
<1>6. SameBut(v, w, c)
  BY <1>4, <1>5 DEF SameBut
<1>7. VaultOK(w)
  <2>1. AaveHeldWhole(w)
    BY <1>5 DEF AaveHeldWhole, VaultOK, StrategyContract
  <2>2. RatesOrdered(w)
    BY <1>4, RatesPositive, VaultAssumption DEF RatesOrdered
  <2>3. w.reported <= w.conversions
    BY <1>1, <1>4 DEF VaultOK
  <2> QED BY <2>1, <2>2, <2>3, <1>4 DEF VaultOK
<1> DEFINE new == Worth(v.current, x)
           old == Worth(v.current, v.held[c])
<1>8. AllAt(w, v.current) = AllAt(v, v.current) + (new - old)
  BY <1>1, <1>4, <1>5, <1>6, OneChanges DEF HeldBy
<1>9. /\ AllHeld(w) = AllHeld(v) + (new - old)
      /\ AllStored(w) = AllHeld(v) + (new - old)
  BY <1>4, <1>8 DEF AllHeld, AllStored
<1>10. /\ AllHeld(v) \in Nat /\ AllStored(v) \in Nat /\ e \in Nat
       /\ AllStored(v) <= AllHeld(v)
  BY <1>1, HeldTypes, StoredBelow
<1>11. new \in Nat /\ old \in Nat
  <2>1. v.held[c] \in Nat
    BY <1>1
  <2> QED BY <2>1, <1>1, <1>3, WorthBounds
<1>12. RoundingsFrom(v, w) = e
  <2>1. w.conversions - v.conversions = 1
    BY <1>1, <1>4
  <2> QED BY <2>1, <1>10 DEF RoundingsFrom
<1>13. -e <= (new - old) - y /\ (new - old) - y <= e
  BY DEF x
<1> HIDE DEF new, old, e
<1>14. /\ (AllHeld(v) + y) - e <= AllHeld(w)
       /\ AllHeld(w) <= (AllHeld(v) + y) + e
       /\ (AllStored(v) + y) - e <= AllStored(w)
  BY <1>9, <1>10, <1>11, <1>13
<1>15. Changes(v, w, y)
  BY <1>1, <1>4, <1>12, <1>14 DEF Changes
<1> QED BY <1>4, <1>5, <1>6, <1>7, <1>15 DEF w, x

LEMMA StrategyDepositAdds ==
    ASSUME NEW v, VaultOK(v), NEW c \in StrategyContract, NEW amount \in Nat
    PROVE  LET w == StrategyDeposit(v, c, amount)
           IN  /\ VaultOK(w) /\ SameBut(v, w, c)
               /\ v.held[c] <= w.held[c]
               /\ Changes(v, w, ToWad(ToAsset(amount)))
<1> DEFINE w == StrategyDeposit(v, c, amount)
           assets == ToAsset(amount)
           added == ToWad(assets)
<1>1. assets \in Nat
  BY RoundingWithin
<1> HIDE DEF assets
<1>2. added \in Nat /\ Whole(added)
  BY <1>1, WholeToWad
<1>3. v.held[c] \in Nat /\ v.current \in Nat \ {0}
  BY VaultFields, RatesPositive DEF VaultOK
<1> HIDE DEF added
<1>4. CASE c \in AaveContracts
  <2> DEFINE x == v.held[c] + added
  <2>1. w = [v EXCEPT !.held[c] = x]
    BY <1>4 DEF StrategyDeposit, added, assets
  <2>2. Whole(v.held[c])
    BY <1>4 DEF VaultOK, AaveHeldWhole
  <2>3. x \in Nat /\ Whole(x)
    <3>1. Whole(v.held[c] + added)
      BY <2>2, <1>2, WholeSum
    <3> QED BY <3>1, <1>2, <1>3
  <2>4. x - v.held[c] = added /\ v.held[c] <= x
    BY <1>2, <1>3
  <2> HIDE DEF x, w
  <2>5. /\ VaultOK(w) /\ SameBut(v, w, c) /\ w.held[c] = x
        /\ Changes(v, w, x - v.held[c])
    BY <2>1, <2>3, <1>4, AaveHolds
  <2> QED BY <2>4, <2>5 DEF w, added, assets
<1>5. CASE c \notin AaveContracts
  <2> DEFINE k == (assets * D18) \div v.current
  <2>1. w = Converted(v, c, k)
    BY <1>5 DEF StrategyDeposit, MintedTokens, assets
  <2>2. /\ k \in Nat
        /\ -RoundingAt(v.current) <= Worth(v.current, v.held[c] + k) - Worth(v.current, v.held[c]) - added
        /\ Worth(v.current, v.held[c] + k) - Worth(v.current, v.held[c]) - added <= RoundingAt(v.current)
    BY <1>1, <1>3, MintedWorth DEF added
  <2> HIDE DEF k, w
  <2>3. v.held[c] + k \in Nat /\ k \in Int /\ v.held[c] <= v.held[c] + k
    BY <2>2, <1>3
  <2>4. /\ VaultOK(w) /\ SameBut(v, w, c)
        /\ w.held[c] = v.held[c] + k
        /\ Changes(v, w, added)
    BY <2>1, <2>2, <2>3, <1>2, <1>5, CompoundHolds
  <2> QED BY <2>3, <2>4 DEF w, added, assets
<1> QED BY <1>4, <1>5

LEMMA StrategyWithdrawTakes ==
    ASSUME NEW v, VaultOK(v), NEW c \in StrategyContract, NEW amount \in Nat,
           StrategyWithdraw(v, c, amount).ok
    PROVE  LET got == StrategyWithdraw(v, c, amount)
           IN  /\ got.paid \in Nat /\ Whole(got.paid)
               /\ VaultOK(got.vault) /\ SameBut(v, got.vault, c)
               /\ got.vault.held[c] <= v.held[c]
               /\ c \in AaveContracts => got.vault.held[c] = v.held[c] - got.paid
               /\ Changes(v, got.vault, -got.paid)
<1> DEFINE got == StrategyWithdraw(v, c, amount)
<1>1. v.held[c] \in Nat /\ v.current \in Nat \ {0} /\ v.stored \in Nat \ {0}
  BY VaultFields, RatesPositive DEF VaultOK
<1>2. CASE c \in AaveContracts
  <2> DEFINE paid == ToWad(ToAsset(amount))
             x == v.held[c] - paid
  <2>1. got.paid = paid /\ got.vault = [v EXCEPT !.held[c] = x]
    BY <1>2 DEF StrategyWithdraw, AaveWithdrawn
  <2>2. Whole(v.held[c])
    BY <1>2 DEF VaultOK, AaveHeldWhole
  <2>3. ToAsset(amount) \in Nat
    BY RoundingWithin
  <2>4. paid \in Nat /\ Whole(paid)
    BY <2>3, WholeToWad
  <2>5. paid <= v.held[c]
    BY <1>2 DEF StrategyWithdraw, AaveWithdrawn
  <2>6. Whole(v.held[c] - paid)
    BY <2>2, <2>4, WholeSum
  <2> HIDE DEF paid, got
  <2>7. x \in Nat /\ Whole(x) /\ x <= v.held[c] /\ x - v.held[c] = -paid
    BY <2>4, <2>5, <2>6, <1>1
  <2> HIDE DEF x
  <2>8. /\ VaultOK(got.vault) /\ SameBut(v, got.vault, c) /\ got.vault.held[c] = x
        /\ Changes(v, got.vault, x - v.held[c])
    BY <2>1, <2>7, <1>2, AaveHolds
  <2> QED BY <2>1, <2>4, <2>7, <2>8 DEF got, x
<1>3. CASE c \notin AaveContracts
  <2> DEFINE t == RedeemedTokens(v, amount)
             paid == ToWad(RedeemedAssets(v, t))
  <2>1. got.paid = paid /\ got.vault = Converted(v, c, -t) /\ t <= v.held[c]
    BY <1>3 DEF StrategyWithdraw
  <2>2. t \in Nat
    <3>1. amount \div Unit \in Nat
      BY FloorNatural, VaultAssumption
    <3>2. (amount \div Unit) * D18 \in Nat
      BY <3>1, D18Assumption, ProductOfNaturals
    <3> QED BY <3>2, <1>1, DivisionNatural DEF RedeemedTokens, ConvertWadToAssetDecimalsWithoutRound
  <2> HIDE DEF t, got
  <2>3. t \in 0..v.held[c]
    BY <2>1, <2>2, <1>1
  <2>4. /\ paid \in Nat /\ Whole(paid)
        /\ -RoundingAt(v.current) <= Worth(v.current, v.held[c] - t) + paid - Worth(v.current, v.held[c])
        /\ Worth(v.current, v.held[c] - t) + paid - Worth(v.current, v.held[c]) <= RoundingAt(v.current)
    BY <2>3, <1>1, RedeemedWorth DEF RedeemedAssets
  <2> HIDE DEF paid
  <2>5. /\ v.held[c] + (-t) \in Nat /\ -t \in Int /\ -paid \in Int
        /\ v.held[c] + (-t) = v.held[c] - t /\ v.held[c] - t <= v.held[c]
        /\ Worth(v.current, v.held[c] - t) \in Nat /\ Worth(v.current, v.held[c]) \in Nat
    <3>1. v.held[c] - t \in Nat
      BY <2>3, <1>1
    <3>2. Worth(v.current, v.held[c] - t) \in Nat /\ Worth(v.current, v.held[c]) \in Nat
      BY <3>1, <1>1, WorthBounds
    <3> QED BY <3>1, <3>2, <2>3, <2>4, <1>1
  <2>6. /\ -RoundingAt(v.current) <= (Worth(v.current, v.held[c] + (-t)) - Worth(v.current, v.held[c])) - (-paid)
        /\ (Worth(v.current, v.held[c] + (-t)) - Worth(v.current, v.held[c])) - (-paid) <= RoundingAt(v.current)
    <3>1. \A x, y, z \in Int : (x - y) - (-z) = x + z - y
      OBVIOUS
    <3> QED BY <3>1, <2>4, <2>5
  <2>7. /\ VaultOK(got.vault) /\ SameBut(v, got.vault, c)
        /\ got.vault.held[c] = v.held[c] + (-t)
        /\ Changes(v, got.vault, -paid)
    BY <2>1, <2>5, <2>6, <1>3, CompoundHolds
  <2> QED BY <2>1, <2>4, <2>5, <2>7, <1>3 DEF got
<1> QED BY <1>2, <1>3

-----------------------------------------------------------------------------
(* What is in use and what was replaced *)

LEMMA StrandedNatural ==
    ASSUME NEW v \in Vault
    PROVE  Stranded(v) \in Nat
<1> DEFINE f == [c \in StrategyContract |-> BalanceOf(v, c)]
           S == StrategyContract \ InUse(v)
<1>1. IsFiniteSet(S)
  BY AmmAssumption, FS_Subset
<1>2. \A c \in S : f[c] \in Nat
  BY HeldTypes
<1> HIDE DEF S, f
<1>3. SumFunctionOnSet(f, S) \in Nat
  BY <1>1, <1>2, SumOfNaturals
<1> QED BY <1>3 DEF S, f, Stranded

(* Every contract is either in use, in one place, or out of use. *)
LEMMA UsedAndReplaced ==
    ASSUME NEW v \in Vault, Apart(v), NEW rate \in Nat, NEW f,
           f = [c \in StrategyContract |-> HeldBy(v, rate, c)]
    PROVE  AllAt(v, rate) = (f[v.at[Aave]] + f[v.at[Compound]])
                            + SumFunctionOnSet(f, StrategyContract \ InUse(v))
<1> DEFINE a == v.at[Aave]
           c == v.at[Compound]
           S == StrategyContract
           rest == S \ {a}
           out  == rest \ {c}
<1>1. \A x \in S : f[x] \in Nat
  BY HeldByType
<1>2. /\ a \in S /\ c \in S /\ a # c /\ c \in rest
      /\ \A x \in S : f[x] \in Int
      /\ \A x \in rest : f[x] \in Int
      /\ \A x \in out : f[x] \in Int
      /\ f[a] \in Nat /\ f[c] \in Nat
  BY <1>1, VaultFields DEF Apart
<1>3. IsFiniteSet(S) /\ IsFiniteSet(rest) /\ IsFiniteSet(out)
  BY AmmAssumption, FS_Subset
<1>4. out = S \ InUse(v)
  BY DEF InUse
<1>5. AllAt(v, rate) = SumFunctionOnSet(f, S)
  BY DEF AllAt
<1> HIDE DEF a, c, S, rest, out
<1>6. SumFunctionOnSet(f, S) = f[a] + SumFunctionOnSet(f, rest)
  BY <1>2, <1>3, SumRemove DEF rest
<1>7. SumFunctionOnSet(f, rest) = f[c] + SumFunctionOnSet(f, out)
  BY <1>2, <1>3, SumRemove DEF out
<1>8. SumFunctionOnSet(f, out) \in Int
  BY <1>2, <1>3, SumType
<1> QED BY <1>2, <1>4, <1>5, <1>6, <1>7, <1>8 DEF S, a, c

LEMMA HeldAndStranded ==
    ASSUME NEW v \in Vault, Apart(v)
    PROVE  /\ AllStored(v) = HeldTotal(v) + Stranded(v)
           /\ AllHeld(v) = HeldTotal(Accrued(v)) + Stranded(Accrued(v))
<1> DEFINE w == Accrued(v)
           f == [c \in StrategyContract |-> HeldBy(v, v.stored, c)]
           g == [c \in StrategyContract |-> HeldBy(v, v.current, c)]
<1>1. v.stored \in Nat /\ v.current \in Nat
      /\ v.at[Aave] \in StrategyContract /\ v.at[Compound] \in StrategyContract
  BY VaultFields
<1>2. AllAt(v, v.stored) = (f[v.at[Aave]] + f[v.at[Compound]])
                           + SumFunctionOnSet(f, StrategyContract \ InUse(v))
  BY <1>1, UsedAndReplaced
<1>3. AllAt(v, v.current) = (g[v.at[Aave]] + g[v.at[Compound]])
                            + SumFunctionOnSet(g, StrategyContract \ InUse(v))
  BY <1>1, UsedAndReplaced
<1>4. /\ \A c : BalanceOf(v, c) = HeldBy(v, v.stored, c)
      /\ \A c : BalanceOf(w, c) = HeldBy(v, v.current, c)
  BY BalanceIsHeld
<1>5. w.at = v.at
  BY DEF Accrued, Vault
<1> HIDE DEF w
<1>6. /\ f = [c \in StrategyContract |-> BalanceOf(v, c)]
      /\ g = [c \in StrategyContract |-> BalanceOf(w, c)]
  BY <1>4
<1>7. /\ f[v.at[Aave]] = HeldAt(v, Aave) /\ f[v.at[Compound]] = HeldAt(v, Compound)
      /\ g[v.at[Aave]] = HeldAt(w, Aave) /\ g[v.at[Compound]] = HeldAt(w, Compound)
  BY <1>1, <1>5, <1>6 DEF HeldAt
<1> HIDE DEF f, g
<1>8. AllStored(v) = HeldTotal(v) + Stranded(v)
  BY <1>2, <1>6, <1>7 DEF AllStored, HeldTotal, Stranded
<1>9. AllHeld(v) = HeldTotal(w) + Stranded(w)
  BY <1>3, <1>5, <1>6, <1>7 DEF AllHeld, HeldTotal, Stranded, InUse
<1> QED BY <1>8, <1>9 DEF w

LEMMA HeldTotalBelow ==
    ASSUME NEW v \in Vault, Apart(v)
    PROVE  HeldTotal(v) <= AllStored(v)
  BY HeldAndStranded, StrandedNatural, HeldTypes

-----------------------------------------------------------------------------
(* Withdrawals and deposits *)

LEMMA SelectedType ==
    ASSUME NEW v, VaultOK(v), NEW amount \in Nat
    PROVE  LET selected == SelectStrategyAndWithdrawAmount(v, amount)
           IN  selected[1] \in Strategy /\ selected[2] \in Nat
<1> DEFINE a == HeldAt(v, Aave)
           c == HeldAt(v, Compound)
           selected == SelectStrategyAndWithdrawAmount(v, amount)
<1>1. a \in Nat /\ c \in Nat
  BY HeldTypes DEF VaultOK
<1>2. \/ selected = <<Aave, amount>>
      \/ selected = <<Compound, amount>>
      \/ selected = <<Compound, c>>
      \/ selected = <<Aave, a>>
  BY DEF SelectStrategyAndWithdrawAmount
<1> HIDE DEF selected, a, c
<1>3. selected[1] \in Strategy /\ selected[2] \in Nat
  BY <1>1, <1>2 DEF Strategy
<1> QED BY <1>3 DEF selected

(* The shares for an amount, at the rate of a vault, are a natural number. *)
LEMMA RateType ==
    ASSUME NEW assets \in Nat, NEW supply \in Nat
    PROVE  VaultRate(assets, supply) \in Nat
<1>1. CASE assets = 0 \/ supply = 0
  BY <1>1, D18Assumption DEF VaultRate
<1>2. CASE ~(assets = 0 \/ supply = 0)
  <2>1. assets * D18 \in Nat /\ supply \in Nat \ {0}
    BY <1>2, D18Assumption, ProductOfNaturals
  <2>2. Division(assets * D18, supply) \in Nat
    BY <2>1, DivisionNatural
  <2> QED BY <1>2, <2>2 DEF VaultRate
<1> QED BY <1>1, <1>2

LEMMA SharesType ==
    ASSUME NEW amount \in Nat, NEW assets \in Nat, NEW supply \in Nat
    PROVE  SharesFor(amount, VaultRate(assets, supply)) \in Nat
<1> DEFINE rate == VaultRate(assets, supply)
<1>1. rate \in Nat
  BY RateType
<1> HIDE DEF rate
<1>2. ASSUME rate # 0 PROVE Division(amount * D18, rate) \in Nat
  <2>1. amount * D18 \in Nat /\ rate \in Nat \ {0}
    BY <1>1, <1>2, D18Assumption, ProductOfNaturals
  <2> QED BY <2>1, DivisionNatural
<1>3. SharesFor(amount, rate) \in Nat
  BY <1>2 DEF SharesFor
<1> QED BY <1>3 DEF rate

Reporting(v, n, m) == [v EXCEPT !.iv = n, !.reported = m]

(* The supply of shares and when the balance was reported do not matter to what
   is held. *)
LEMMA SharesOK ==
    ASSUME NEW v, VaultOK(v), NEW n \in Nat, NEW m \in Nat, m <= v.conversions,
           NEW w, w = Reporting(v, n, m)
    PROVE  /\ VaultOK(w)
           /\ w.at = v.at /\ w.approved = v.approved /\ w.held = v.held
           /\ w.iv = n /\ w.reported = m
           /\ w.conversions = v.conversions /\ w.current = v.current
           /\ HeldTotal(w) = HeldTotal(v)
           /\ AllHeld(w) = AllHeld(v) /\ AllStored(w) = AllStored(v)
<1>1. v \in Vault
  BY DEF VaultOK
<1>2. /\ w.at = v.at /\ w.approved = v.approved /\ w.held = v.held
      /\ w.iv = n /\ w.reported = m
      /\ w.conversions = v.conversions /\ w.current = v.current /\ w.stored = v.stored
      /\ w \in Vault
  BY <1>1 DEF Vault, Reporting
<1>3. VaultOK(w)
  BY <1>2 DEF VaultOK, AaveHeldWhole, RatesOrdered
<1>4. HeldTotal(w) = HeldTotal(v)
  BY <1>2 DEF HeldTotal, HeldAt, BalanceOf
<1>5. v.stored \in Nat /\ v.current \in Nat
  BY <1>1, VaultFields
<1>6. AllHeld(w) = AllHeld(v) /\ AllStored(w) = AllStored(v)
  BY <1>1, <1>2, <1>5, SameHeldSameAll DEF AllHeld, AllStored
<1> QED BY <1>2, <1>3, <1>4, <1>6

LEMMA SharesChangeNothing ==
    ASSUME NEW u, NEW v, NEW w, NEW x, Changes(u, v, x),
           w.current = v.current, w.conversions = v.conversions,
           AllHeld(w) = AllHeld(v), AllStored(w) = AllStored(v)
    PROVE  Changes(u, w, x)
  BY DEF Changes, RoundingsFrom

LEMMA SameContractsItself == \A v : SameContracts(v, v)
  BY DEF SameContracts

LEMMA SameContractsTransitive ==
    ASSUME NEW u, NEW v, NEW w, SameContracts(u, v), SameContracts(v, w)
    PROVE  SameContracts(u, w)
<1>1. InUse(v) = InUse(u)
  BY DEF SameContracts, InUse
<1> QED BY <1>1 DEF SameContracts

LEMMA SameButSameContracts ==
    ASSUME NEW v, NEW w, NEW c \in InUse(v), SameBut(v, w, c)
    PROVE  SameContracts(v, w)
  BY DEF SameBut, SameContracts

(* A payment by a contract in use, or nothing. *)
LEMMA PaymentKeepsVault ==
    ASSUME NEW v, VaultOK(v), NEW c \in InUse(v), NEW amount \in Nat,
           WithdrawFromStrategy(v, c, amount).ok
    PROVE  LET got == WithdrawFromStrategy(v, c, amount)
           IN  /\ got.paid \in Nat /\ Whole(got.paid)
               /\ VaultOK(got.vault) /\ SameContracts(v, got.vault)
               /\ got.vault.iv = v.iv
               /\ Changes(v, got.vault, -got.paid)
<1> DEFINE got == WithdrawFromStrategy(v, c, amount)
<1>1. c \in StrategyContract
  BY VaultFields DEF VaultOK, InUse
<1>2. CASE amount = 0
  <2>1. got.paid = 0 /\ got.vault = v
    BY <1>2 DEF WithdrawFromStrategy
  <2> HIDE DEF got
  <2> QED BY <2>1, WholeZero, ChangesNothing, SameContractsItself DEF got
<1>3. CASE amount # 0
  <2> DEFINE g == StrategyWithdraw(v, c, amount)
  <2>1. /\ DOMAIN g = {"ok", "paid", "vault"}
    BY DEF StrategyWithdraw
  <2>2. g.ok /\ got.paid = g.paid /\ got.vault = g.vault
    <3> HIDE DEF g
    <3> QED BY <2>1, <1>3 DEF WithdrawFromStrategy, g
  <2>3. /\ g.paid \in Nat /\ Whole(g.paid)
        /\ VaultOK(g.vault) /\ SameBut(v, g.vault, c)
        /\ Changes(v, g.vault, -g.paid)
    BY <2>2, <1>1, StrategyWithdrawTakes
  <2> HIDE DEF g, got
  <2>4. SameContracts(v, g.vault) /\ g.vault.iv = v.iv
    BY <2>3, SameButSameContracts DEF SameBut
  <2> QED BY <2>2, <2>3, <2>4 DEF got
<1> QED BY <1>2, <1>3

(* What a withdrawal reports, and what it leaves: the payment is whole; the
   balance reported is the one held, unless nothing was there to pay. *)
PaidOut(v, result) ==
    /\ VaultOK(result.vault)
    /\ SameContracts(v, result.vault)
    /\ result.withdrawn \in Nat
    /\ Whole(result.withdrawn)
    /\ \/ result.vaultBalance = HeldTotal(result.vault)
       \/ result.withdrawn = 0 /\ result.vaultBalance = 0 /\ result.vault = v
    /\ Changes(v, result.vault, -result.withdrawn)

LEMMA WithdrawPays ==
    ASSUME NEW v, VaultOK(v), NEW amount \in Int, Withdraw(v, amount).ok
    PROVE  PaidOut(v, Withdraw(v, amount))
<1> DEFINE selected == SelectStrategyAndWithdrawAmount(v, amount)
           c        == v.at[selected[1]]
           got      == WithdrawFromStrategy(v, c, selected[2])
           shares   == SharesWithdrawn(got.paid, HeldTotal(got.vault), v.iv)
           burnt    == IF shares > v.iv THEN v.iv ELSE shares
           result   == Withdraw(v, amount)
<1>1. amount \in Nat
  <2>1. amount > 0
    <3> HIDE DEF selected, burnt, got
    <3>1. CASE selected[2] = 0
      BY <3>1, Zenon DEF Withdraw, selected
    <3>2. CASE selected[2] # 0
      BY <3>2, Zenon DEF Withdraw, selected
    <3> QED BY <3>1, <3>2
  <2> QED BY <2>1
<1>2. selected[1] \in Strategy /\ selected[2] \in Nat
  BY <1>1, SelectedType
<1>3. c \in InUse(v)
  BY <1>2 DEF Strategy, InUse
<1>4. CASE selected[2] = 0
  <2>1. result.vault = v /\ result.withdrawn = 0 /\ result.vaultBalance = 0
    BY <1>4 DEF Withdraw
  <2> HIDE DEF result
  <2>2. Changes(v, result.vault, -result.withdrawn)
    BY <2>1, ChangesNothing
  <2>3. PaidOut(v, result)
    BY <2>1, <2>2, WholeZero, SameContractsItself DEF PaidOut
  <2> QED BY <2>3 DEF result
<1>5. CASE selected[2] # 0
  <2> HIDE DEF selected
  <2>1. /\ result.vault = [got.vault EXCEPT !.iv = @ - burnt, !.reported = got.vault.conversions]
        /\ result.withdrawn = got.paid
        /\ result.vaultBalance = HeldTotal(got.vault)
        /\ got.ok
    <3>1. result = [ok |-> ~v.paused /\ amount > 0 /\ got.ok /\ burnt > 0,
              vault |-> [got.vault EXCEPT !.iv = @ - burnt, !.reported = got.vault.conversions],
              withdrawn |-> got.paid,
              vaultBalance |-> HeldTotal(got.vault)]
      BY <1>5, Zenon DEF Withdraw, selected
    <3> HIDE DEF result, got, burnt
    <3>2. result.ok
      BY DEF result
    <3> QED BY <3>1, <3>2
  <2>2. /\ got.paid \in Nat /\ Whole(got.paid)
        /\ VaultOK(got.vault) /\ SameContracts(v, got.vault)
        /\ got.vault.iv = v.iv
        /\ Changes(v, got.vault, -got.paid)
    BY <1>2, <1>3, <2>1, PaymentKeepsVault
  <2> HIDE DEF result, got, c
  <2>3. /\ v.iv \in Nat /\ HeldTotal(got.vault) \in Nat
        /\ got.vault.conversions \in Nat
    BY <2>2, VaultFields, HeldTypes DEF VaultOK
  <2>4. shares \in Nat
    <3>1. HeldTotal(got.vault) + got.paid \in Nat
      BY <2>2, <2>3
    <3> QED BY <3>1, <2>2, <2>3, SharesType DEF SharesWithdrawn
  <2>5. v.iv - burnt \in Nat
    <3> HIDE DEF shares
    <3> QED BY <2>3, <2>4
  <2> HIDE DEF burnt
  <2> DEFINE left == v.iv - burnt
             m == got.vault.conversions
  <2>6. result.vault = Reporting(got.vault, left, m)
    BY <2>1, <2>2 DEF Reporting
  <2>7. m \in Nat /\ m <= got.vault.conversions /\ left \in Nat
    BY <2>3, <2>5
  <2> HIDE DEF left, m
  <2>8. /\ VaultOK(result.vault)
        /\ result.vault.at = got.vault.at /\ result.vault.approved = got.vault.approved
        /\ result.vault.held = got.vault.held
        /\ result.vault.conversions = got.vault.conversions
        /\ result.vault.current = got.vault.current
        /\ HeldTotal(result.vault) = HeldTotal(got.vault)
        /\ AllHeld(result.vault) = AllHeld(got.vault)
        /\ AllStored(result.vault) = AllStored(got.vault)
    BY <2>2, <2>6, <2>7, SharesOK
  <2>9. SameContracts(v, result.vault)
    BY <2>2, <2>8 DEF SameContracts
  <2>10. Changes(v, result.vault, -result.withdrawn)
    BY <2>1, <2>2, <2>8, SharesChangeNothing
  <2>11. PaidOut(v, result)
    BY <2>1, <2>2, <2>8, <2>9, <2>10 DEF PaidOut
  <2> QED BY <2>11 DEF result
<1> QED BY <1>4, <1>5

LEMMA WithdrawAllPays ==
    ASSUME NEW v, VaultOK(v), WithdrawAll(v).ok
    PROVE  PaidOut(v, WithdrawAll(v))
<1> DEFINE x      == HeldAt(v, Aave)
           y      == HeldAt(v, Compound)
           first  == WithdrawFromStrategy(v, v.at[Aave], x)
           second == WithdrawFromStrategy(first.vault, v.at[Compound], y)
           result == WithdrawAll(v)
<1>1. /\ first.ok /\ second.ok
      /\ result.vault = [second.vault EXCEPT !.iv = 0, !.reported = second.vault.conversions]
      /\ result.withdrawn = first.paid + second.paid
      /\ result.vaultBalance = HeldTotal(second.vault)
  <2>1. result = [ok |-> ~v.paused /\ first.ok /\ second.ok /\ v.iv > 0,
            vault |-> [second.vault EXCEPT !.iv = 0, !.reported = second.vault.conversions],
            withdrawn |-> first.paid + second.paid,
            vaultBalance |-> HeldTotal(second.vault)]
    BY Zenon DEF WithdrawAll
  <2> HIDE DEF result, first, second
  <2>2. result.ok
    BY DEF result
  <2> QED BY <2>1, <2>2
<1>2. x \in Nat /\ y \in Nat
  BY HeldTypes DEF VaultOK
<1> HIDE DEF result, x, y
<1>3. /\ first.paid \in Nat /\ Whole(first.paid)
      /\ VaultOK(first.vault) /\ SameContracts(v, first.vault)
      /\ Changes(v, first.vault, -first.paid)
  <2>1. v.at[Aave] \in InUse(v)
    BY DEF InUse
  <2> QED BY <2>1, <1>1, <1>2, PaymentKeepsVault
<1> HIDE DEF first
<1>4. /\ second.paid \in Nat /\ Whole(second.paid)
      /\ VaultOK(second.vault) /\ SameContracts(first.vault, second.vault)
      /\ Changes(first.vault, second.vault, -second.paid)
  <2>1. v.at[Compound] \in InUse(first.vault)
    BY <1>3 DEF InUse, SameContracts
  <2> QED BY <2>1, <1>1, <1>2, <1>3, PaymentKeepsVault
<1> HIDE DEF second
<1>5. result.withdrawn \in Nat /\ Whole(result.withdrawn)
      /\ -first.paid \in Int /\ -second.paid \in Int
      /\ (-first.paid) + (-second.paid) = -result.withdrawn
  BY <1>1, <1>3, <1>4, WholeSum
<1>6. Changes(v, second.vault, -result.withdrawn) /\ SameContracts(v, second.vault)
  <2>1. Changes(v, second.vault, (-first.paid) + (-second.paid))
    BY <1>3, <1>4, <1>5, ChangesTransitive
  <2> QED BY <2>1, <1>3, <1>4, <1>5, SameContractsTransitive
<1> DEFINE m == second.vault.conversions
<1>7. m \in Nat /\ m <= second.vault.conversions /\ 0 \in Nat
  BY <1>4, VaultFields DEF VaultOK
<1>8. result.vault = Reporting(second.vault, 0, m)
  BY <1>1 DEF Reporting
<1> HIDE DEF m
<1>9. /\ VaultOK(result.vault)
      /\ result.vault.at = second.vault.at /\ result.vault.approved = second.vault.approved
      /\ result.vault.held = second.vault.held
      /\ result.vault.conversions = second.vault.conversions
      /\ result.vault.current = second.vault.current
      /\ HeldTotal(result.vault) = HeldTotal(second.vault)
      /\ AllHeld(result.vault) = AllHeld(second.vault)
      /\ AllStored(result.vault) = AllStored(second.vault)
  BY <1>4, <1>7, <1>8, SharesOK
<1>10. SameContracts(v, result.vault)
  BY <1>6, <1>9 DEF SameContracts
<1>11. Changes(v, result.vault, -result.withdrawn)
  BY <1>6, <1>9, SharesChangeNothing
<1>12. PaidOut(v, result)
  BY <1>1, <1>5, <1>9, <1>10, <1>11 DEF PaidOut
<1> QED BY <1>12 DEF result

(* What a deposit reports, and what it leaves: it is reported as if the
   strategy had all of it. *)
TakenIn(v, result) ==
    /\ VaultOK(result.vault)
    /\ SameContracts(v, result.vault)
    /\ result.assets \in Nat
    /\ result.deposited = ToWad(result.assets)
    /\ result.deposited \in Nat \ {0}
    /\ result.vaultBalance = HeldTotal(v) + result.deposited
    /\ result.vault.reported = v.conversions
    /\ Changes(v, result.vault, result.deposited)

LEMMA DepositTakes ==
    ASSUME NEW v, VaultOK(v), NEW amount \in Int, Deposit(v, amount).ok
    PROVE  TakenIn(v, Deposit(v, amount))
<1> DEFINE assets    == ToAsset(amount)
           shares    == SharesFor(amount, VaultExchangeRate(v))
           deposited == ToWad(assets)
           target    == v.at[v.max]
           after     == StrategyDeposit(v, target, amount)
           result    == Deposit(v, amount)
<1>1. /\ amount > 0 /\ assets > 0
      /\ result.vault = [after EXCEPT !.iv = @ + shares, !.reported = v.conversions]
      /\ result.assets = assets
      /\ result.deposited = deposited
      /\ result.vaultBalance = HeldTotal(v) + deposited
  <2>1. result = [ok |-> /\ ~v.paused
                         /\ amount > 0 /\ assets > 0 /\ shares > 0
                         /\ target \in v.approved,
                  vault |-> [after EXCEPT !.iv = @ + shares, !.reported = v.conversions],
                  assets |-> assets, deposited |-> deposited,
                  vaultBalance |-> HeldTotal(v) + deposited]
    BY Zenon DEF Deposit
  <2> HIDE DEF result, after, assets, shares, deposited, target
  <2>2. result.ok
    BY DEF result
  <2> QED BY <2>1, <2>2
<1>2. amount \in Nat /\ assets \in Nat
  BY <1>1, RoundingWithin
<1>3. deposited \in Nat \ {0} /\ Whole(deposited)
  <2> HIDE DEF assets
  <2>1. deposited \in Int /\ Whole(deposited) /\ deposited >= 0
    BY <1>2, WholeToWad
  <2>2. deposited = Unit * assets
    BY <1>2, VaultAssumption DEF ToWad, ConvertToWad
  <2>3. Unit * assets >= Unit * 1
    <3>1. 1 <= assets /\ 1 \in Int /\ assets \in Int
      BY <1>1, <1>2
    <3> QED BY <3>1, VaultAssumption, ProductMonotonic
  <2> HIDE DEF deposited
  <2> QED BY <2>1, <2>2, <2>3, VaultAssumption
<1>4. target \in InUse(v) /\ target \in StrategyContract
  BY VaultFields DEF VaultOK, InUse, Strategy
<1> HIDE DEF target
<1>5. VaultOK(after) /\ SameBut(v, after, target) /\ Changes(v, after, deposited)
  BY <1>2, <1>4, StrategyDepositAdds
<1>6. v.iv + shares \in Nat
  <2>1. v.iv \in Nat /\ HeldTotal(v) \in Nat
    BY VaultFields, HeldTypes DEF VaultOK
  <2>2. shares \in Nat
    BY <2>1, <1>2, SharesType DEF VaultExchangeRate
  <2> HIDE DEF shares
  <2> QED BY <2>1, <2>2
<1> HIDE DEF after, result, assets, deposited, shares
<1> DEFINE n == v.iv + shares
           m == v.conversions
<1>7. n \in Nat /\ m \in Nat /\ m <= after.conversions
  BY <1>5, <1>6, VaultFields DEF VaultOK, Changes
<1>8. result.vault = Reporting(after, n, m)
  BY <1>1, <1>5 DEF SameBut, Reporting
<1> HIDE DEF n, m
<1>9. /\ VaultOK(result.vault)
      /\ result.vault.at = after.at /\ result.vault.approved = after.approved
      /\ result.vault.held = after.held
      /\ result.vault.reported = m
      /\ result.vault.conversions = after.conversions
      /\ result.vault.current = after.current
      /\ AllHeld(result.vault) = AllHeld(after)
      /\ AllStored(result.vault) = AllStored(after)
  BY <1>5, <1>7, <1>8, SharesOK
<1>10. SameContracts(v, result.vault)
  <2>1. SameContracts(v, after)
    BY <1>4, <1>5, SameButSameContracts
  <2> QED BY <2>1, <1>9 DEF SameContracts
<1>11. Changes(v, result.vault, result.deposited)
  BY <1>1, <1>5, <1>9, SharesChangeNothing
<1>12. result.deposited = ToWad(result.assets)
  BY <1>1 DEF deposited
<1>13. TakenIn(v, result)
  BY <1>1, <1>2, <1>3, <1>9, <1>10, <1>11, <1>12 DEF TakenIn, m
<1> QED BY <1>13 DEF result

(* Moving all that a contract has to another one, or to itself. *)
LEMMA MoveAllKeepsVault ==
    ASSUME NEW v, VaultOK(v), NEW from \in StrategyContract, NEW to \in StrategyContract,
           MoveAll(v, from, to).ok
    PROVE  LET got == StrategyWithdraw(v, from, BalanceOf(v, from))
               w   == MoveAll(v, from, to).vault
           IN  /\ VaultOK(w)
               /\ got.ok
               /\ w.at = v.at /\ w.approved = v.approved /\ w.iv = v.iv /\ w.reported = v.reported
               /\ \A c \in StrategyContract \ {from, to} : w.held[c] = v.held[c]
               /\ from # to => w.held[from] = got.vault.held[from]
               /\ Changes(v, w, 0)
<1> DEFINE got == StrategyWithdraw(v, from, BalanceOf(v, from))
           w   == MoveAll(v, from, to).vault
<1>1. got.ok /\ w = StrategyDeposit(got.vault, to, got.paid)
  BY Zenon DEF MoveAll
<1>2. BalanceOf(v, from) \in Nat
  BY HeldTypes DEF VaultOK
<1>3. /\ got.paid \in Nat /\ Whole(got.paid)
      /\ VaultOK(got.vault) /\ SameBut(v, got.vault, from)
      /\ Changes(v, got.vault, -got.paid)
  BY <1>1, <1>2, StrategyWithdrawTakes
<1> HIDE DEF got, w
<1>4. /\ VaultOK(w) /\ SameBut(got.vault, w, to)
      /\ Changes(got.vault, w, ToWad(ToAsset(got.paid)))
  BY <1>1, <1>3, StrategyDepositAdds
<1>5. ToWad(ToAsset(got.paid)) = got.paid
  BY <1>3, WholeRounded
<1>6. Changes(v, w, 0)
  <2>1. -got.paid \in Int /\ got.paid \in Int /\ (-got.paid) + got.paid = 0
    BY <1>3
  <2> QED BY <2>1, <1>3, <1>4, <1>5, ChangesTransitive
<1>7. /\ w.at = v.at /\ w.approved = v.approved /\ w.iv = v.iv /\ w.reported = v.reported
      /\ \A c \in StrategyContract \ {from, to} : w.held[c] = v.held[c]
      /\ from # to => w.held[from] = got.vault.held[from]
  BY <1>3, <1>4 DEF SameBut
<1> QED BY <1>1, <1>4, <1>6, <1>7 DEF got, w

(* Migrating moves what the contracts in use have from one to the other. *)
LEMMA MigrateKeepsVault ==
    ASSUME NEW v, VaultOK(v), Migrate(v).ok
    PROVE  LET w == Migrate(v).vault
           IN  /\ VaultOK(w) /\ SameContracts(v, w)
               /\ w.reported = v.reported /\ Changes(v, w, 0)
<1> DEFINE from  == v.at[IF v.max = Aave THEN Compound ELSE Aave]
           to    == v.at[v.max]
           w     == Migrate(v).vault
<1>1. w = MoveAll(v, from, to).vault /\ MoveAll(v, from, to).ok
  BY Zenon DEF Migrate
<1>2. from \in InUse(v) /\ to \in InUse(v)
  BY VaultFields DEF VaultOK, InUse, Strategy
<1>3. from \in StrategyContract /\ to \in StrategyContract
  BY <1>2, VaultFields DEF VaultOK, InUse
<1> HIDE DEF from, to, w
<1>4. /\ VaultOK(w)
      /\ w.at = v.at /\ w.approved = v.approved /\ w.reported = v.reported
      /\ \A c \in StrategyContract \ {from, to} : w.held[c] = v.held[c]
      /\ Changes(v, w, 0)
  BY <1>1, <1>3, MoveAllKeepsVault
<1>5. SameContracts(v, w)
  BY <1>2, <1>4 DEF SameContracts
<1> QED BY <1>4, <1>5 DEF w

-----------------------------------------------------------------------------
(* Replacing contracts *)

(* What a contract may keep when all it has was asked for. *)
Left(c, n) == IF c \in AaveContracts THEN n = 0 ELSE n * InitialRate < InitialRate + D18

ReplacedAreLeft(v) ==
    \A c \in StrategyContract \ InUse(v) : c \notin v.approved /\ Left(c, v.held[c])

LEMMA FewTokens ==
    ASSUME NEW r \in Nat \ {0}, InitialRate <= r, NEW n \in Nat, r * n < r + D18
    PROVE  n * InitialRate < InitialRate + D18
<1>1. InitialRate \in Nat /\ D18 \in Nat \ {0}
  BY VaultAssumption, D18Assumption
<1>2. CASE n = 0
  BY <1>1, <1>2
<1>3. CASE n # 0
  <2> DEFINE m == n - 1
  <2>1. m \in Nat /\ n = m + 1
    BY <1>3
  <2> HIDE DEF m
  <2>2. r * n = r * m + r /\ r * m \in Int /\ n * InitialRate = m * InitialRate + InitialRate
    BY <2>1, <1>1
  <2>3. m * InitialRate <= m * r
    BY <2>1, <1>1, ProductMonotonic
  <2>4. m * r = r * m /\ m * InitialRate \in Int
    BY <2>1, <1>1
  <2> QED BY <2>2, <2>3, <2>4, <1>1
<1> QED BY <1>2, <1>3

LEMMA AskedForAll ==
    ASSUME NEW v, VaultOK(v), NEW c \in StrategyContract,
           StrategyWithdraw(v, c, BalanceOf(v, c)).ok
    PROVE  Left(c, StrategyWithdraw(v, c, BalanceOf(v, c)).vault.held[c])
<1> DEFINE b == BalanceOf(v, c)
           got == StrategyWithdraw(v, c, b)
           h == v.held[c]
           r == v.stored
<1>1. b \in Nat /\ h \in Nat /\ r \in Nat \ {0} /\ InitialRate <= r
      /\ v \in Vault /\ v.held \in [StrategyContract -> Nat]
  BY HeldTypes, VaultFields, RatesPositive DEF VaultOK
<1>2. CASE c \in AaveContracts
  <2>1. b = h /\ Whole(h)
    BY <1>2 DEF BalanceOf, VaultOK, AaveHeldWhole
  <2>2. AaveWithdrawn(b) = h
    BY <2>1, WholeRounded DEF AaveWithdrawn
  <2>3. got.vault = [v EXCEPT !.held[c] = @ - AaveWithdrawn(b)]
    BY <1>2 DEF StrategyWithdraw
  <2>4. got.vault.held[c] = h - AaveWithdrawn(b)
    <3> DEFINE x == AaveWithdrawn(b)
    <3> HIDE DEF x, got, b, h
    <3>1. got.vault = [v EXCEPT !.held = [v.held EXCEPT ![c] = v.held[c] - x]]
      BY <2>3 DEF x
    <3>2. got.vault.held = [v.held EXCEPT ![c] = v.held[c] - x]
      BY <3>1, <1>1 DEF Vault
    <3> QED BY <3>2, <1>1 DEF x, h
  <2>5. got.vault.held[c] = 0
    BY <2>2, <2>4, <1>1
  <2> QED BY <2>5, <1>2 DEF Left
<1>3. CASE c \notin AaveContracts
  <2> DEFINE q == D18 \div Unit
             a == b \div Unit
             t == RedeemedTokens(v, b)
             g == q \div 2
  <2>1. q \in Nat \ {0} /\ D18 = q * Unit /\ g \in Nat
    BY PerUnit
  <2>2. b = Worth(r, h)
    BY <1>3 DEF BalanceOf, Worth
  <2>3. r * h + g < q * b + q
    BY <2>2, <1>1, WorthBounds
  <2>4. a \in Nat /\ b < Unit * a + Unit
    <3> HIDE DEF b
    <3>1. b \in Nat /\ b \in Int /\ Unit \in Nat \ {0}
      BY <1>1, VaultAssumption
    <3>2. a \in Nat
      BY <3>1, FloorNatural
    <3>3. b < Unit * a + Unit
      BY <3>1, FloorBounds
    <3> QED BY <3>2, <3>3
  <2>5. t = Division(a * D18, r)
    BY DEF RedeemedTokens, ConvertWadToAssetDecimalsWithoutRound
  <2>6. a * D18 \in Nat
    BY <2>4, D18Assumption, ProductOfNaturals
  <2>7. Within(r * t - a * D18, r)
    BY <2>5, <2>6, <1>1, DivisionWithin
  <2>8. t \in Nat
    BY <2>5, <2>6, <1>1, DivisionNatural
  <2>9. got.vault = Converted(v, c, -t) /\ t <= h
    BY <1>3 DEF StrategyWithdraw
  <2>10. got.vault.held[c] = h - t /\ h - t \in Nat
    <3> HIDE DEF t, got, h
    <3>1. h - t \in Nat
      BY <2>8, <2>9, <1>1
    <3>2. got.vault = [v EXCEPT !.held = [v.held EXCEPT ![c] = v.held[c] + (-t)],
                                !.stored = v.current, !.conversions = v.conversions + 1]
      BY <2>9 DEF Converted
    <3>3. got.vault.held = [v.held EXCEPT ![c] = v.held[c] + (-t)]
      BY <3>2, <1>1 DEF Vault
    <3>4. got.vault.held[c] = v.held[c] + (-t)
      BY <3>3, <1>1
    <3> QED BY <3>1, <3>4, <2>8, <1>1 DEF h
  <2> HIDE DEF q, a, t, g, b, h, r, got
  <2>11. q * b + q <= a * D18 + D18
    <3>1. b + 1 <= Unit * a + Unit /\ b + 1 \in Int /\ Unit * a + Unit \in Int
      BY <2>4, <1>1, VaultAssumption
    <3>2. q * (b + 1) <= q * (Unit * a + Unit)
      BY <3>1, <2>1, ProductMonotonic
    <3>3. \A i, j, u \in Int : i * (u * j + u) = j * (i * u) + i * u
      BY SMT
    <3>4. q * (Unit * a + Unit) = a * D18 + D18
      BY <3>3, <2>1, <2>4, VaultAssumption
    <3>5. q * (b + 1) = q * b + q
      BY <2>1, <1>1
    <3> QED BY <3>2, <3>4, <3>5
  <2>12. r * h < a * D18 + D18
    <3>1. r * h \in Int /\ q * b \in Int
      BY <2>1, <1>1
    <3> QED BY <3>1, <2>1, <2>3, <2>6, <2>11, <1>1, D18Assumption
  <2>13. 2 * (a * D18) <= 2 * (r * t) + r
    <3>1. r * t \in Int
      BY <2>8, <1>1
    <3> QED BY <3>1, <2>6, <2>7, <1>1 DEF Within
  <2> DEFINE n == h - t
  <2>14. r * n = r * h - r * t /\ r * h \in Int /\ r * t \in Int
    BY <2>8, <1>1
  <2>15. r * n < r + D18
    BY <2>6, <2>12, <2>13, <2>14, <1>1, D18Assumption
  <2>16. n * InitialRate < InitialRate + D18
    BY <2>10, <2>15, <1>1, FewTokens
  <2> QED BY <2>10, <2>16, <1>3 DEF Left, got, b
<1> QED BY <1>2, <1>3

(* One whose balance is zero has as little. *)
LEMMA NoBalance ==
    ASSUME NEW v, VaultOK(v), NEW c \in StrategyContract, BalanceOf(v, c) = 0
    PROVE  Left(c, v.held[c])
<1> DEFINE h == v.held[c]
           r == v.stored
           q == D18 \div Unit
           g == q \div 2
<1>1. h \in Nat /\ r \in Nat \ {0} /\ InitialRate <= r
  BY VaultFields, RatesPositive DEF VaultOK
<1>2. CASE c \in AaveContracts
  BY <1>2 DEF Left, BalanceOf
<1>3. CASE c \notin AaveContracts
  <2>1. Worth(r, h) = 0
    BY <1>3 DEF BalanceOf, Worth
  <2>2. q \in Nat \ {0} /\ D18 = q * Unit /\ g \in Nat
    BY PerUnit
  <2>3. r * h + g < q * Worth(r, h) + q
    BY <1>1, WorthBounds
  <2> HIDE DEF q, g, r, h
  <2>4. q <= D18
    <3>1. q * 1 <= q * Unit
      BY <2>2, VaultAssumption, ProductMonotonic
    <3> QED BY <3>1, <2>2
  <2>5. r * h < r + D18
    <3>1. r * h \in Int
      BY <1>1
    <3> QED BY <3>1, <2>1, <2>2, <2>3, <2>4, <1>1, D18Assumption
  <2>6. h * InitialRate < InitialRate + D18
    BY <2>5, <1>1, FewTokens
  <2> QED BY <2>6, <1>3 DEF Left, h
<1> QED BY <1>2, <1>3

(* Another contract in a place, and other allowances. *)
Placed(v, s, new, allowed) == [v EXCEPT !.at[s] = new, !.approved = allowed]

LEMMA PlacingKeepsVault ==
    ASSUME NEW v, VaultOK(v), NEW s \in Strategy, NEW new \in StrategyContract,
           NEW allowed, allowed \subseteq StrategyContract, NEW w, w = Placed(v, s, new, allowed)
    PROVE  /\ VaultOK(w)
           /\ w.at = [v.at EXCEPT ![s] = new] /\ w.approved = allowed /\ w.held = v.held
           /\ w.conversions = v.conversions /\ w.current = v.current /\ w.reported = v.reported
           /\ AllHeld(w) = AllHeld(v) /\ AllStored(w) = AllStored(v)
<1>1. v \in Vault /\ v.at \in [Strategy -> StrategyContract]
      /\ v.stored \in Nat /\ v.current \in Nat
  BY VaultFields DEF VaultOK
<1> DEFINE at2 == [v.at EXCEPT ![s] = new]
<1>2. w = [v EXCEPT !.at = at2, !.approved = allowed]
  BY DEF Placed
<1>3. at2 \in [Strategy -> StrategyContract]
  BY <1>1
<1> HIDE DEF at2
<1>4. /\ w \in Vault
      /\ w.at = at2 /\ w.approved = allowed /\ w.held = v.held
      /\ w.conversions = v.conversions /\ w.current = v.current
      /\ w.stored = v.stored /\ w.reported = v.reported
  BY <1>1, <1>2, <1>3 DEF Vault
<1>5. VaultOK(w)
  BY <1>4 DEF VaultOK, AaveHeldWhole, RatesOrdered
<1>6. AllHeld(w) = AllHeld(v) /\ AllStored(w) = AllStored(v)
  BY <1>1, <1>4, SameHeldSameAll DEF AllHeld, AllStored
<1> QED BY <1>4, <1>5, <1>6 DEF at2

(* Putting a contract in a place moves what the one replaced can pay, and
   leaves it with next to nothing and no allowance. *)
LEMMA SetStrategyMoves ==
    ASSUME NEW v, VaultOK(v), NEW s \in Strategy, NEW new \in StrategyContract,
           SetStrategy(v, s, new).ok
    PROVE  LET w   == SetStrategy(v, s, new).vault
               old == v.at[s]
           IN  /\ VaultOK(w)
               /\ w.at = [v.at EXCEPT ![s] = new]
               /\ w.approved = (v.approved \cup {new}) \ {old}
               /\ w.reported = v.reported
               /\ new # old => Left(old, w.held[old])
               /\ \A c \in StrategyContract \ {old, new} : w.held[c] = v.held[c]
               /\ Changes(v, w, 0)
<1> DEFINE old   == v.at[s]
           moved == TransferFromOldToNewStrategy(v, old, new)
           w     == SetStrategy(v, s, new).vault
           allowed == (v.approved \cup {new}) \ {old}
<1>1. moved.ok /\ w = [moved.vault EXCEPT !.at[s] = new,
                                 !.approved = (@ \cup {new}) \ {old}]
  BY Zenon DEF SetStrategy
<1>2. old \in StrategyContract /\ v.approved \subseteq StrategyContract
      /\ BalanceOf(v, old) \in Nat
  <2>1. old \in StrategyContract /\ v.approved \subseteq StrategyContract
    BY VaultFields DEF VaultOK, Strategy
  <2> QED BY <2>1, HeldTypes DEF VaultOK
<1> HIDE DEF old, moved, w
<1> DEFINE u == moved.vault
<1>3. /\ VaultOK(u)
      /\ u.at = v.at /\ u.approved = v.approved /\ u.reported = v.reported
      /\ new # old => Left(old, u.held[old])
      /\ \A c \in StrategyContract \ {old, new} : u.held[c] = v.held[c]
      /\ Changes(v, u, 0)
  <2>1. CASE BalanceOf(v, old) > 0
    <3>1. moved = MoveAll(v, old, new)
      BY <2>1 DEF moved, TransferFromOldToNewStrategy
    <3>2. MoveAll(v, old, new).ok
      BY <1>1, <3>1
    <3>3. /\ VaultOK(u)
          /\ StrategyWithdraw(v, old, BalanceOf(v, old)).ok
          /\ u.at = v.at /\ u.approved = v.approved /\ u.reported = v.reported
          /\ \A c \in StrategyContract \ {old, new} : u.held[c] = v.held[c]
          /\ old # new => u.held[old] = StrategyWithdraw(v, old, BalanceOf(v, old)).vault.held[old]
          /\ Changes(v, u, 0)
      BY <3>1, <3>2, <1>2, MoveAllKeepsVault
    <3>4. Left(old, StrategyWithdraw(v, old, BalanceOf(v, old)).vault.held[old])
      BY <3>3, <1>2, AskedForAll
    <3> HIDE DEF u
    <3> QED BY <3>3, <3>4
  <2>2. CASE ~(BalanceOf(v, old) > 0)
    <3>1. moved.vault = v
      BY <2>2 DEF moved, TransferFromOldToNewStrategy
    <3>2. BalanceOf(v, old) = 0
      BY <2>2, <1>2
    <3>3. Left(old, v.held[old])
      BY <3>2, <1>2, NoBalance
    <3> QED BY <3>1, <3>3, ChangesNothing
  <2> QED BY <2>1, <2>2
<1> HIDE DEF u
<1>4. w = Placed(u, s, new, allowed)
  BY <1>1, <1>3 DEF Placed, u
<1>5. allowed \subseteq StrategyContract
  BY <1>2
<1> HIDE DEF allowed
<1>6. /\ VaultOK(w)
      /\ w.at = [u.at EXCEPT ![s] = new] /\ w.approved = allowed /\ w.held = u.held
      /\ w.conversions = u.conversions /\ w.current = u.current /\ w.reported = u.reported
      /\ AllHeld(w) = AllHeld(u) /\ AllStored(w) = AllStored(u)
  BY <1>3, <1>4, <1>5, PlacingKeepsVault
<1>7. Changes(v, w, 0)
  BY <1>3, <1>6, SharesChangeNothing
<1> QED BY <1>3, <1>6, <1>7 DEF w, old, allowed

(* The contract replaced is left, also when it was in both places, and the
   others out of use are left alone. *)
LEMMA ReplacingLeaves ==
    ASSUME NEW v, VaultOK(v), ReplacedAreLeft(v), NEW s \in Strategy,
           NEW new \in StrategyContract, SetStrategy(v, s, new).ok
    PROVE  ReplacedAreLeft(SetStrategy(v, s, new).vault)
<1> DEFINE w   == SetStrategy(v, s, new).vault
           old == v.at[s]
<1>1. /\ w.at = [v.at EXCEPT ![s] = new]
      /\ w.approved = (v.approved \cup {new}) \ {old}
      /\ new # old => Left(old, w.held[old])
      /\ \A c \in StrategyContract \ {old, new} : w.held[c] = v.held[c]
  BY SetStrategyMoves
<1>2. v.at \in [Strategy -> StrategyContract]
  BY VaultFields DEF VaultOK
<1>3. new \in InUse(w) /\ InUse(v) \subseteq InUse(w) \cup {old}
  BY <1>1, <1>2 DEF InUse, Strategy
<1> HIDE DEF w, old
<1>4. ASSUME NEW c \in StrategyContract \ InUse(w)
      PROVE  c \notin w.approved /\ Left(c, w.held[c])
  <2>1. c # new
    BY <1>3
  <2>2. CASE c = old
    BY <2>1, <2>2, <1>1
  <2>3. CASE c # old
    <3>1. c \notin InUse(v) /\ w.held[c] = v.held[c]
      BY <2>1, <2>3, <1>1, <1>3
    <3>2. Left(c, v.held[c]) /\ c \notin v.approved
      BY <3>1 DEF ReplacedAreLeft
    <3> QED BY <3>1, <3>2, <2>1, <2>3, <1>1
  <2> QED BY <2>2, <2>3
<1>5. ReplacedAreLeft(w)
  BY <1>4 DEF ReplacedAreLeft
<1> QED BY <1>5 DEF w

(* Between transactions aTokens earn whole units and Compound's rate rises; an
   Aave contract out of use has nothing to earn on. *)
LEMMA EarningKeepsVault ==
    ASSUME NEW v, VaultOK(v), ReplacedAreLeft(v), NEW max \in Strategy,
           NEW earning \in SUBSET {c \in AaveContracts : v.held[c] > 0},
           NEW step \in Nat, NEW rate, rate = v.stored \/ rate = v.current + step
    PROVE  LET w == [v EXCEPT !.held = Earned(@, earning), !.current = @ + step,
                              !.stored = rate, !.max = max]
           IN  /\ VaultOK(w)
               /\ SameContracts(v, w)
               /\ w.conversions = v.conversions /\ w.reported = v.reported
               /\ v.current <= w.current
               /\ AllHeld(v) <= AllHeld(w) /\ AllStored(v) <= AllStored(w)
<1> DEFINE held2 == Earned(v.held, earning)
           risen == v.current + step
           w     == [v EXCEPT !.held = Earned(@, earning), !.current = @ + step,
                              !.stored = rate, !.max = max]
<1>1. /\ v \in Vault /\ v.held \in [StrategyContract -> Nat]
      /\ v.stored \in Nat /\ v.current \in Nat
      /\ InitialRate <= v.stored /\ v.stored <= v.current /\ InitialRate \in Nat
  BY VaultFields, RatesPositive DEF VaultOK
<1>2. Interest \in Nat /\ ToWad(Interest) \in Nat /\ Whole(ToWad(Interest))
  BY AmmAssumption, WholeToWad
<1>3. ASSUME NEW c \in StrategyContract
      PROVE  /\ held2[c] \in Nat /\ v.held[c] <= held2[c]
             /\ c \notin earning => held2[c] = v.held[c]
             /\ c \in AaveContracts => Whole(held2[c])
  <2>1. held2[c] = IF c \in earning THEN v.held[c] + ToWad(Interest) ELSE v.held[c]
    BY DEF Earned
  <2>2. v.held[c] \in Nat
    BY <1>1
  <2>3. c \in AaveContracts => Whole(held2[c])
    <3>1. c \in AaveContracts => Whole(v.held[c])
      BY DEF VaultOK, AaveHeldWhole
    <3>2. held2[c] = v.held[c] \/ held2[c] = v.held[c] + ToWad(Interest)
      BY <2>1
    <3> HIDE DEF held2
    <3> QED BY <3>1, <3>2, <1>2, WholeSum
  <2> HIDE DEF held2
  <2> QED BY <2>1, <2>2, <2>3, <1>2
<1>4. held2 \in [StrategyContract -> Nat]
  <2>1. held2 = [c \in StrategyContract |-> held2[c]]
    BY DEF Earned
  <2> HIDE DEF held2
  <2> QED BY <2>1, <1>3
<1>5. w = [v EXCEPT !.held = held2, !.current = risen, !.stored = rate, !.max = max]
  OBVIOUS
<1>6. risen \in Nat /\ v.current <= risen
  BY <1>1
<1> HIDE DEF held2, w, risen
<1>7. rate \in Nat /\ v.stored <= rate /\ rate <= risen /\ InitialRate <= rate
  BY <1>1, <1>6 DEF risen
<1>8. /\ w \in Vault
      /\ w.at = v.at /\ w.approved = v.approved /\ w.held = held2
      /\ w.current = risen /\ w.stored = rate
      /\ w.conversions = v.conversions /\ w.reported = v.reported
  BY <1>1, <1>4, <1>5, <1>6, <1>7 DEF Vault
<1>9. VaultOK(w)
  <2>1. AaveHeldWhole(w)
    BY <1>3, <1>8 DEF AaveHeldWhole, StrategyContract
  <2> QED BY <2>1, <1>7, <1>8 DEF VaultOK, RatesOrdered
<1>10. SameContracts(v, w)
  <2>1. ASSUME NEW c \in StrategyContract \ InUse(v) PROVE c \notin earning
    <3>1. Left(c, v.held[c])
      BY DEF ReplacedAreLeft
    <3> QED BY <3>1 DEF Left
  <2> QED BY <2>1, <1>3, <1>8 DEF SameContracts
<1>11. AllHeld(v) <= AllHeld(w)
  BY <1>1, <1>3, <1>6, <1>8, AllGrows DEF AllHeld
<1>12. AllStored(v) <= AllStored(w)
  BY <1>1, <1>3, <1>7, <1>8, AllGrows DEF AllStored
<1> QED BY <1>6, <1>8, <1>9, <1>10, <1>11, <1>12 DEF w

-----------------------------------------------------------------------------
(* Transactions: what a part of one leaves of what it found *)

Tx == [ok: BOOLEAN, swaps: [Leg -> [SwapId -> Swap]], ids: [Leg -> [Account -> Seq(SwapId)]],
       balances: Balances, soap: [Leg -> SoapOfLegType], cash: Nat, vault: Vault, payout: Nat,
       unowned: Nat]

(* Stored types, lists that agree with the swaps, and deposits to pay that are
   whole tokens. *)
Sound(tx) ==
    /\ tx \in Tx
    /\ VaultOK(tx.vault)
    /\ Whole(tx.payout)
    /\ \A leg \in Leg : LegConsistent(tx.swaps[leg], tx.ids[leg])

ActiveOf(sw) == {id \in SwapId : IsActive(sw, id)}

DepositOf(sw) == SumFunctionOnSet([id \in SwapId |-> WadDeposit(sw[id])], ActiveOf(sw))

OpenSwaps(tx) ==
    Cardinality(ActiveOf(tx.swaps[PayFixed])) + Cardinality(ActiveOf(tx.swaps[ReceiveFixed]))

BookedClaims(b) == b.liquidityPool + b.totalCollateral[PayFixed] + b.totalCollateral[ReceiveFixed]
                   + b.iporPublicationFee + b.treasury

DepositsIn(tx) == DepositOf(tx.swaps[PayFixed]) + DepositOf(tx.swaps[ReceiveFixed])

(* The tokens on Milton and those booked on Stanley, less all that is owed and
   what was booked for nobody. *)
Surplus(tx) == ((ToWad(tx.cash) + tx.balances.vault) - (BookedClaims(tx.balances) + DepositsIn(tx)))
               - (tx.payout + tx.unowned)

(* The pool with its interest, and all that belongs to it or to nobody. *)
PoolOf(tx) == (tx.balances.liquidityPool + AllHeld(tx.vault) + tx.unowned) - tx.balances.vault

CollateralOf(b) == b.totalCollateral[PayFixed] + b.totalCollateral[ReceiveFixed]

(* The roundings of all conversions up to now. *)
RoundingsOf(v) == v.conversions * RoundingAt(v.current)

(* What the pool and the roundings have above the collateral of the swaps. *)
Margin(tx) == (PoolOf(tx) + RoundingsOf(tx.vault)) - CollateralOf(tx.balances)

(* What is booked is there, but for the roundings since it was reported. *)
Covered(tx) ==
    tx.balances.vault <= AllStored(tx.vault)
                         + (tx.vault.conversions - tx.vault.reported) * RoundingAt(tx.vault.current)

(* The collateral does not change, and the pool by roundings only. *)
SamePool(tx, r) ==
    /\ r.balances.totalCollateral = tx.balances.totalCollateral
    /\ r.vault.current = tx.vault.current
    /\ tx.vault.conversions <= r.vault.conversions
    /\ PoolOf(tx) - RoundingsFrom(tx.vault, r.vault) <= PoolOf(r)
    /\ PoolOf(r) <= PoolOf(tx) + RoundingsFrom(tx.vault, r.vault)

LEMMA BalancesFields ==
    ASSUME NEW b \in Balances
    PROVE  /\ b.totalCollateral \in [Leg -> Nat]
           /\ b.totalCollateral[PayFixed] \in Nat /\ b.totalCollateral[ReceiveFixed] \in Nat
           /\ b.liquidityPool \in Nat /\ b.vault \in Nat
           /\ b.iporPublicationFee \in Nat /\ b.treasury \in Nat
           /\ BookedClaims(b) \in Nat
<1>1. \A x \in UInt128 : x \in Nat
  BY StorageAssumption DEF UInt128
<1>2. /\ b.totalCollateral \in [Leg -> UInt128]
      /\ b.liquidityPool \in UInt128 /\ b.vault \in UInt128
      /\ b.iporPublicationFee \in UInt128 /\ b.treasury \in UInt128
  BY DEF Balances
<1>3. /\ b.totalCollateral \in [Leg -> Nat]
      /\ b.totalCollateral[PayFixed] \in Nat /\ b.totalCollateral[ReceiveFixed] \in Nat
      /\ b.liquidityPool \in Nat /\ b.vault \in Nat
      /\ b.iporPublicationFee \in Nat /\ b.treasury \in Nat
  BY <1>1, <1>2 DEF Leg
<1> QED BY <1>3 DEF BookedClaims

LEMMA DepositOfType ==
    ASSUME NEW sw \in [SwapId -> Swap]
    PROVE  /\ IsFiniteSet(ActiveOf(sw))
           /\ \A id \in SwapId : WadDeposit(sw[id]) \in Nat
           /\ DepositOf(sw) \in Nat
           /\ Cardinality(ActiveOf(sw)) \in Nat
<1> DEFINE f == [id \in SwapId |-> WadDeposit(sw[id])]
           S == ActiveOf(sw)
<1>1. IsFiniteSet(S)
  <2>1. IsFiniteSet(SwapId)
    BY StorageAssumption, FS_Interval DEF SwapId
  <2> QED BY <2>1, FS_Subset DEF ActiveOf
<1>2. \A id \in SwapId : WadDeposit(sw[id]) \in Nat
  BY StorageAssumption, D18Assumption, ProductOfNaturals DEF WadDeposit, Swap, UInt32
<1>3. \A id \in S : f[id] \in Nat
  BY <1>2 DEF ActiveOf
<1> HIDE DEF f, S
<1>4. SumFunctionOnSet(f, S) \in Nat
  BY <1>1, <1>3, SumOfNaturals
<1>5. Cardinality(S) \in Nat
  BY <1>1, FS_CardinalityType
<1> QED BY <1>1, <1>2, <1>4, <1>5 DEF f, S, DepositOf

LEMMA TxFields ==
    ASSUME NEW tx \in Tx
    PROVE  /\ tx.ok \in BOOLEAN
           /\ tx.swaps \in [Leg -> [SwapId -> Swap]]
           /\ tx.swaps[PayFixed] \in [SwapId -> Swap] /\ tx.swaps[ReceiveFixed] \in [SwapId -> Swap]
           /\ tx.ids \in [Leg -> [Account -> Seq(SwapId)]]
           /\ tx.balances \in Balances
           /\ tx.soap \in [Leg -> SoapOfLegType]
           /\ tx.cash \in Nat /\ ToWad(tx.cash) \in Int
           /\ tx.vault \in Vault
           /\ tx.payout \in Nat /\ tx.unowned \in Nat
           /\ OpenSwaps(tx) \in Nat
           /\ DepositsIn(tx) \in Nat
           /\ Surplus(tx) \in Int
<1>1. /\ tx.ok \in BOOLEAN
      /\ tx.swaps \in [Leg -> [SwapId -> Swap]]
      /\ tx.ids \in [Leg -> [Account -> Seq(SwapId)]]
      /\ tx.balances \in Balances
      /\ tx.soap \in [Leg -> SoapOfLegType]
      /\ tx.cash \in Nat
      /\ tx.vault \in Vault
      /\ tx.payout \in Nat /\ tx.unowned \in Nat
  BY DEF Tx
<1>2. tx.swaps[PayFixed] \in [SwapId -> Swap] /\ tx.swaps[ReceiveFixed] \in [SwapId -> Swap]
  BY <1>1 DEF Leg
<1>3. ToWad(tx.cash) \in Int
  BY <1>1, WholeToWad
<1>4. OpenSwaps(tx) \in Nat /\ DepositsIn(tx) \in Nat
  BY <1>2, DepositOfType DEF OpenSwaps, DepositsIn
<1>5. tx.balances.vault \in Nat /\ BookedClaims(tx.balances) \in Nat
  BY <1>1, BalancesFields
<1>6. Surplus(tx) \in Int
  BY <1>1, <1>3, <1>4, <1>5 DEF Surplus
<1> QED BY <1>1, <1>2, <1>3, <1>4, <1>6

LEMMA MarginType ==
    ASSUME NEW tx \in Tx
    PROVE  /\ PoolOf(tx) \in Int /\ CollateralOf(tx.balances) \in Nat
           /\ RoundingsOf(tx.vault) \in Nat /\ Margin(tx) \in Int
<1>1. tx.balances \in Balances /\ tx.vault \in Vault /\ tx.unowned \in Nat
  BY TxFields
<1>2. /\ AllHeld(tx.vault) \in Nat /\ RoundingAt(tx.vault.current) \in Nat
      /\ tx.vault.conversions \in Nat
      /\ tx.balances.liquidityPool \in Nat /\ tx.balances.vault \in Nat
      /\ tx.balances.totalCollateral[PayFixed] \in Nat
      /\ tx.balances.totalCollateral[ReceiveFixed] \in Nat
  BY <1>1, HeldTypes, VaultFields, BalancesFields
<1>3. RoundingsOf(tx.vault) \in Nat
  BY <1>2, ProductOfNaturals DEF RoundingsOf
<1> QED BY <1>1, <1>2, <1>3 DEF PoolOf, CollateralOf, Margin

LEMMA SamePoolKeepsMargin ==
    ASSUME NEW tx \in Tx, NEW r \in Tx, SamePool(tx, r)
    PROVE  Margin(tx) <= Margin(r)
<1>1. /\ PoolOf(tx) \in Int /\ CollateralOf(tx.balances) \in Nat /\ RoundingsOf(tx.vault) \in Nat
      /\ PoolOf(r) \in Int /\ RoundingsOf(r.vault) \in Nat
  BY MarginType
<1>2. CollateralOf(r.balances) = CollateralOf(tx.balances)
  BY DEF SamePool, CollateralOf
<1>3. /\ tx.vault \in Vault /\ r.vault \in Vault
      /\ tx.vault.conversions \in Int /\ r.vault.conversions \in Int
      /\ RoundingAt(tx.vault.current) \in Int
  <2>1. tx.vault \in Vault /\ r.vault \in Vault
    BY TxFields
  <2> QED BY <2>1, VaultFields, HeldTypes
<1>4. RoundingsOf(r.vault) = RoundingsOf(tx.vault) + RoundingsFrom(tx.vault, r.vault)
  <2>1. \A a, b, x \in Int : b * x = a * x + (b - a) * x
    BY SMT
  <2> QED BY <2>1, <1>3 DEF RoundingsOf, RoundingsFrom, SamePool
<1>5. RoundingsFrom(tx.vault, r.vault) \in Nat
  BY <1>3, RoundingsType DEF SamePool
<1>6. PoolOf(tx) - RoundingsFrom(tx.vault, r.vault) <= PoolOf(r)
  BY DEF SamePool
<1> QED BY <1>1, <1>2, <1>4, <1>5, <1>6 DEF Margin

LEMMA SamePoolTransitive ==
    ASSUME NEW tx \in Tx, NEW q \in Tx, NEW r \in Tx, SamePool(tx, q), SamePool(q, r)
    PROVE  SamePool(tx, r)
<1>1. PoolOf(tx) \in Int /\ PoolOf(q) \in Int /\ PoolOf(r) \in Int
  BY MarginType
<1>2. /\ tx.vault \in Vault /\ q.vault \in Vault /\ r.vault \in Vault
      /\ tx.vault.conversions \in Int /\ q.vault.conversions \in Int
      /\ r.vault.conversions \in Int /\ RoundingAt(tx.vault.current) \in Int
  <2>1. tx.vault \in Vault /\ q.vault \in Vault /\ r.vault \in Vault
    BY TxFields
  <2> QED BY <2>1, VaultFields, HeldTypes
<1>3. /\ r.balances.totalCollateral = tx.balances.totalCollateral
      /\ q.vault.current = tx.vault.current /\ r.vault.current = tx.vault.current
      /\ tx.vault.conversions <= q.vault.conversions
      /\ q.vault.conversions <= r.vault.conversions
      /\ tx.vault.conversions <= r.vault.conversions
  BY <1>2 DEF SamePool
<1>4. /\ RoundingsFrom(tx.vault, q.vault) \in Int /\ RoundingsFrom(q.vault, r.vault) \in Int
      /\ RoundingsFrom(tx.vault, r.vault)
            = RoundingsFrom(tx.vault, q.vault) + RoundingsFrom(q.vault, r.vault)
  <2>1. \A a, b, c, x \in Int : (c - a) * x = (b - a) * x + (c - b) * x
    BY SMT
  <2>2. RoundingsFrom(tx.vault, q.vault) \in Int /\ RoundingsFrom(q.vault, r.vault) \in Int
    BY <1>2, <1>3, RoundingsType
  <2> QED BY <2>1, <2>2, <1>2, <1>3 DEF RoundingsFrom
<1>5. /\ PoolOf(tx) - RoundingsFrom(tx.vault, q.vault) <= PoolOf(q)
      /\ PoolOf(q) <= PoolOf(tx) + RoundingsFrom(tx.vault, q.vault)
      /\ PoolOf(q) - RoundingsFrom(q.vault, r.vault) <= PoolOf(r)
      /\ PoolOf(r) <= PoolOf(q) + RoundingsFrom(q.vault, r.vault)
  BY DEF SamePool
<1>6. /\ PoolOf(tx) - RoundingsFrom(tx.vault, r.vault) <= PoolOf(r)
      /\ PoolOf(r) <= PoolOf(tx) + RoundingsFrom(tx.vault, r.vault)
  BY <1>1, <1>4, <1>5
<1> QED BY <1>3, <1>6 DEF SamePool

(* Nothing the pool depends on is another. *)
LEMMA SamePoolItself ==
    ASSUME NEW tx \in Tx, NEW r, r.balances = tx.balances, r.vault = tx.vault,
           r.unowned = tx.unowned
    PROVE  SamePool(tx, r)
<1>1. /\ tx.vault \in Vault /\ PoolOf(tx) \in Int
      /\ tx.vault.conversions \in Int /\ RoundingAt(tx.vault.current) \in Int
  BY TxFields, VaultFields, HeldTypes, MarginType
<1>2. RoundingsFrom(tx.vault, r.vault) = 0 /\ PoolOf(r) = PoolOf(tx)
  BY <1>1 DEF RoundingsFrom, PoolOf
<1> QED BY <1>1, <1>2 DEF SamePool

(* Such a part of Covered is never negative. *)
LEMMA SinceReported ==
    ASSUME NEW v, VaultOK(v)
    PROVE  (v.conversions - v.reported) * RoundingAt(v.current) \in Nat
<1>1. v.conversions - v.reported \in Nat /\ RoundingAt(v.current) \in Nat
  BY VaultFields, HeldTypes DEF VaultOK
<1> QED BY <1>1, ProductOfNaturals

(* Books with another pool and another amount on Stanley. *)
WithPool(b, pool, onVault) == [b EXCEPT !.liquidityPool = pool, !.vault = onVault]

LEMMA BooksOfStanley ==
    ASSUME NEW b \in Balances, NEW pool \in Int, NEW onVault \in Int, NEW b2,
           b2 = WithPool(b, pool, onVault), BalancesFit(b2)
    PROVE  /\ b2 \in Balances
           /\ b2.vault = onVault /\ b2.liquidityPool = pool
           /\ b2.totalCollateral = b.totalCollateral
           /\ BookedClaims(b2) = (BookedClaims(b) + pool) - b.liquidityPool
<1>1. /\ b.totalCollateral \in [Leg -> Nat]
      /\ b.totalCollateral[PayFixed] \in Nat /\ b.totalCollateral[ReceiveFixed] \in Nat
      /\ b.liquidityPool \in Nat /\ b.vault \in Nat
      /\ b.iporPublicationFee \in Nat /\ b.treasury \in Nat
  BY BalancesFields
<1>2. b.totalCollateral \in [Leg -> Int]
  BY <1>1
<1>3. b2 = [totalCollateral |-> b.totalCollateral, liquidityPool |-> pool, vault |-> onVault,
            iporPublicationFee |-> b.iporPublicationFee, treasury |-> b.treasury]
  BY DEF Balances, WithPool
<1>4. b2 \in Balances
  <2>1. BalancesFit(b2)
    OBVIOUS
  <2> QED BY <1>1, <1>2, <1>3, <2>1, BalancesFitType
<1>5. BookedClaims(b2) = (BookedClaims(b) + pool) - b.liquidityPool
  BY <1>1, <1>3 DEF BookedClaims
<1> QED BY <1>3, <1>4, <1>5

(* Stanley's vault, the books of it and Milton's cash change. *)
WithVault(tx, b, w, cash2, nobodys) ==
    [tx EXCEPT !.ok = TRUE, !.balances = b, !.vault = w, !.cash = cash2, !.unowned = nobodys]

LEMMA TxOfStanley ==
    ASSUME NEW tx, Sound(tx), NEW b \in Balances, NEW w,
           VaultOK(w), NEW cash2 \in Nat, NEW nobodys \in Nat, NEW tx2,
           tx2 = WithVault(tx, b, w, cash2, nobodys)
    PROVE  /\ Sound(tx2)
           /\ tx2.ok /\ tx2.balances = b /\ tx2.vault = w /\ tx2.cash = cash2
           /\ tx2.swaps = tx.swaps /\ tx2.ids = tx.ids /\ tx2.soap = tx.soap
           /\ tx2.payout = tx.payout /\ tx2.unowned = nobodys
           /\ DepositsIn(tx2) = DepositsIn(tx) /\ OpenSwaps(tx2) = OpenSwaps(tx)
<1>1. tx \in Tx /\ w \in Vault
  BY DEF Sound, VaultOK
<1>2. /\ tx2 \in Tx
      /\ tx2.ok /\ tx2.balances = b /\ tx2.vault = w /\ tx2.cash = cash2
      /\ tx2.swaps = tx.swaps /\ tx2.ids = tx.ids /\ tx2.soap = tx.soap
      /\ tx2.payout = tx.payout /\ tx2.unowned = nobodys
  BY <1>1 DEF Tx, WithVault
<1>3. Sound(tx2)
  BY <1>2 DEF Sound
<1>4. DepositsIn(tx2) = DepositsIn(tx) /\ OpenSwaps(tx2) = OpenSwaps(tx)
  BY <1>2 DEF DepositsIn, OpenSwaps
<1> QED BY <1>2, <1>3, <1>4

(* A transfer between Milton and Stanley, with what it books: no swap and no
   deposit changes, what is booked on Stanley is there, and the surplus does
   not change, nor the pool but for roundings. *)
Moved(tx, tx2) ==
    /\ Sound(tx2)
    /\ tx2.swaps = tx.swaps /\ tx2.ids = tx.ids /\ tx2.payout = tx.payout
    /\ SameContracts(tx.vault, tx2.vault)
    /\ Apart(tx.vault) => Covered(tx2)
    /\ Surplus(tx2) = Surplus(tx)
    /\ SamePool(tx, tx2)

LEMMA WithdrawTxMoves ==
    ASSUME NEW tx, Sound(tx), NEW result, result.ok => PaidOut(tx.vault, result),
           WithdrawFromStanleyTx(tx, result).ok
    PROVE  Moved(tx, WithdrawFromStanleyTx(tx, result))
<1> DEFINE onVault == result.vaultBalance
           pool == tx.balances.liquidityPool + (onVault + result.withdrawn - tx.balances.vault)
           b2   == BalancesWhenWithdraw(tx.balances, result.withdrawn, onVault)
           cash2 == tx.cash + ToAsset(result.withdrawn)
           tx2  == WithdrawFromStanleyTx(tx, result)
<1>1. tx \in Tx
  BY DEF Sound
<1>2. /\ result.ok
      /\ CanBookWithdraw(tx.balances, result.withdrawn, onVault)
      /\ tx2 = [tx EXCEPT !.ok = BalancesFit(b2), !.balances = b2, !.vault = result.vault,
                          !.cash = @ + ToAsset(result.withdrawn)]
  <2>1. ~Failed(tx).ok
    BY <1>1 DEF Failed, Tx
  <2>2. tx2 # Failed(tx)
    BY <2>1
  <2> QED BY <2>2, Zenon DEF WithdrawFromStanleyTx
<1>3. PaidOut(tx.vault, result)
  BY <1>2
<1>4. /\ tx.balances \in Balances /\ tx.cash \in Nat /\ tx.vault \in Vault
      /\ tx.balances.liquidityPool \in Nat /\ tx.balances.vault \in Nat
      /\ BookedClaims(tx.balances) \in Nat
      /\ tx.payout \in Nat /\ DepositsIn(tx) \in Nat /\ ToWad(tx.cash) \in Int
      /\ tx.unowned \in Nat
  BY <1>1, TxFields, BalancesFields
<1>5. /\ result.withdrawn \in Nat /\ Whole(result.withdrawn)
      /\ VaultOK(result.vault) /\ SameContracts(tx.vault, result.vault)
      /\ result.vault \in Vault /\ AllHeld(result.vault) \in Nat /\ AllHeld(tx.vault) \in Nat
      /\ HeldTotal(result.vault) \in Nat
      /\ onVault \in Nat /\ onVault <= HeldTotal(result.vault)
  BY <1>3, <1>4, HeldTypes DEF PaidOut, VaultOK
<1>6. cash2 \in Nat /\ ToWad(cash2) = ToWad(tx.cash) + result.withdrawn
  <2>1. ToAsset(result.withdrawn) \in Nat
    BY <1>5, RoundingWithin
  <2>2. ToWad(ToAsset(result.withdrawn)) = result.withdrawn
    BY <1>5, WholeRounded
  <2> DEFINE x == ToAsset(result.withdrawn)
  <2>3. (tx.cash + x) * Unit = tx.cash * Unit + x * Unit
    <3> HIDE DEF x
    <3> QED BY <2>1, <1>4, Regrouped, VaultAssumption DEF x
  <2> QED BY <2>1, <2>2, <2>3, <1>4 DEF ToWad, ConvertToWad
<1>7. pool \in Int /\ b2 = WithPool(tx.balances, pool, onVault)
  BY <1>4, <1>5 DEF BalancesWhenWithdraw, WithPool
<1>8. BalancesFit(b2)
  <2>1. tx2.ok = BalancesFit(b2)
    <3> HIDE DEF tx2, b2
    <3> QED BY <1>2, <1>1 DEF Tx
  <2> QED BY <2>1
<1> HIDE DEF b2, pool, onVault, cash2
<1>9. /\ b2 \in Balances
      /\ b2.vault = onVault /\ b2.liquidityPool = pool
      /\ b2.totalCollateral = tx.balances.totalCollateral
      /\ BookedClaims(b2) = (BookedClaims(tx.balances) + pool) - tx.balances.liquidityPool
  <2>1. tx.balances \in Balances /\ onVault \in Int /\ pool \in Int
    BY <1>4, <1>5, <1>7
  <2> QED BY <2>1, <1>7, <1>8, BooksOfStanley
<1>10. tx2 = WithVault(tx, b2, result.vault, cash2, tx.unowned)
  <2>1. BalancesFit(b2) = TRUE
    BY <1>8 DEF BalancesFit
  <2> HIDE DEF tx2
  <2>2. \A x \in Tx : x = [x EXCEPT !.unowned = x.unowned]
    BY DEF Tx
  <2> QED BY <2>1, <1>1, <1>2 DEF cash2, WithVault, Tx
<1>11. /\ Sound(tx2)
       /\ tx2.balances = b2 /\ tx2.vault = result.vault /\ tx2.cash = cash2
       /\ tx2.swaps = tx.swaps /\ tx2.ids = tx.ids
       /\ tx2.payout = tx.payout /\ tx2.unowned = tx.unowned
       /\ DepositsIn(tx2) = DepositsIn(tx)
  <2> HIDE DEF tx2
  <2>1. VaultOK(result.vault) /\ cash2 \in Nat /\ b2 \in Balances /\ tx.unowned \in Nat
    BY <1>4, <1>5, <1>6, <1>9
  <2> HIDE DEF b2
  <2> QED BY <2>1, <1>10, TxOfStanley
<1> HIDE DEF tx2
<1>12. Apart(tx.vault) => Covered(tx2)
  <2> SUFFICES ASSUME Apart(tx.vault) PROVE Covered(tx2)
    OBVIOUS
  <2>1. Apart(result.vault)
    BY <1>5 DEF SameContracts, Apart
  <2>2. HeldTotal(result.vault) <= AllStored(result.vault) /\ AllStored(result.vault) \in Nat
    BY <2>1, <1>5, HeldTotalBelow, HeldTypes
  <2>3. (result.vault.conversions - result.vault.reported) * RoundingAt(result.vault.current) \in Nat
    BY <1>5, SinceReported
  <2> QED BY <2>2, <2>3, <1>5, <1>9, <1>11 DEF Covered
<1>13. pool = tx.balances.liquidityPool + (onVault + result.withdrawn - tx.balances.vault)
  BY DEF pool
<1>14. Surplus(tx2) = Surplus(tx)
  BY <1>4, <1>5, <1>6, <1>9, <1>11, <1>13 DEF Surplus
<1>15. SamePool(tx, tx2)
  <2>1. PoolOf(tx2) = (PoolOf(tx) - AllHeld(tx.vault)) + (AllHeld(result.vault) + result.withdrawn)
    BY <1>4, <1>5, <1>9, <1>11, <1>13 DEF PoolOf
  <2>2. /\ result.vault.current = tx.vault.current
        /\ tx.vault.conversions <= result.vault.conversions
        /\ (AllHeld(tx.vault) + (-result.withdrawn)) - RoundingsFrom(tx.vault, result.vault)
             <= AllHeld(result.vault)
        /\ AllHeld(result.vault)
             <= (AllHeld(tx.vault) + (-result.withdrawn)) + RoundingsFrom(tx.vault, result.vault)
    BY <1>3 DEF PaidOut, Changes
  <2>3. RoundingsFrom(tx.vault, result.vault) \in Nat /\ PoolOf(tx) \in Int
    BY <2>2, <1>1, <1>4, <1>5, RoundingsType, MarginType
  <2>4. /\ PoolOf(tx) - RoundingsFrom(tx.vault, result.vault) <= PoolOf(tx2)
        /\ PoolOf(tx2) <= PoolOf(tx) + RoundingsFrom(tx.vault, result.vault)
    BY <2>1, <2>2, <2>3, <1>5
  <2> QED BY <2>2, <2>4, <1>9, <1>11 DEF SamePool
<1>16. Moved(tx, tx2)
  BY <1>5, <1>11, <1>12, <1>14, <1>15 DEF Moved
<1> QED BY <1>16 DEF tx2

LEMMA DepositTxMoves ==
    ASSUME NEW tx, Sound(tx), NEW amount \in Int, DepositToStanleyTx(tx, amount).ok
    PROVE  Moved(tx, DepositToStanleyTx(tx, amount))
<1> DEFINE result  == Deposit(tx.vault, amount)
           onVault == result.vaultBalance
           put     == result.deposited
           pool == IF tx.balances.vault > 0
                   THEN tx.balances.liquidityPool + (onVault - tx.balances.vault - put)
                   ELSE tx.balances.liquidityPool
           b2   == BalancesWhenDeposit(tx.balances, put, onVault)
           cash2 == tx.cash - result.assets
           nobodys == tx.unowned + BookedForNobody(tx.balances, tx.vault)
           tx2  == DepositToStanleyTx(tx, amount)
<1>1. tx \in Tx /\ VaultOK(tx.vault)
  BY DEF Sound
<1>2. /\ result.ok
      /\ ~(result.assets > tx.cash)
      /\ CanBookDeposit(tx.balances, put, onVault)
      /\ tx2 = [tx EXCEPT !.ok = BalancesFit(b2), !.balances = b2, !.vault = result.vault,
                          !.cash = @ - result.assets,
                          !.unowned = @ + BookedForNobody(tx.balances, tx.vault)]
  <2>1. ~Failed(tx).ok
    BY <1>1 DEF Failed, Tx
  <2>2. tx2 # Failed(tx)
    BY <2>1
  <2> QED BY <2>2, Zenon DEF DepositToStanleyTx
<1>3. TakenIn(tx.vault, result)
  <2>1. Deposit(tx.vault, amount).ok
    BY <1>2
  <2>2. TakenIn(tx.vault, Deposit(tx.vault, amount))
    BY <2>1, <1>1, DepositTakes
  <2> QED BY <2>2
<1> HIDE DEF result
<1>4. /\ tx.balances \in Balances /\ tx.cash \in Nat /\ tx.vault \in Vault
      /\ tx.balances.liquidityPool \in Nat /\ tx.balances.vault \in Nat
      /\ BookedClaims(tx.balances) \in Nat
      /\ tx.payout \in Nat /\ DepositsIn(tx) \in Nat /\ ToWad(tx.cash) \in Int
      /\ tx.unowned \in Nat
  BY <1>1, TxFields, BalancesFields
<1>5. /\ result.assets \in Nat /\ put = ToWad(result.assets) /\ put \in Nat \ {0}
      /\ VaultOK(result.vault) /\ SameContracts(tx.vault, result.vault)
      /\ result.vault \in Vault /\ AllHeld(result.vault) \in Nat /\ AllHeld(tx.vault) \in Nat
      /\ AllStored(result.vault) \in Nat /\ AllStored(tx.vault) \in Nat
      /\ HeldTotal(tx.vault) \in Nat
      /\ onVault = HeldTotal(tx.vault) + put
      /\ onVault \in Nat
  <2>1. VaultOK(result.vault) /\ result.vault \in Vault
    BY <1>3 DEF TakenIn, VaultOK
  <2>2. /\ AllHeld(result.vault) \in Nat /\ AllHeld(tx.vault) \in Nat
        /\ AllStored(result.vault) \in Nat /\ AllStored(tx.vault) \in Nat
        /\ HeldTotal(tx.vault) \in Nat
    BY <2>1, <1>4, HeldTypes
  <2>3. put \in Nat \ {0} /\ onVault = HeldTotal(tx.vault) + put
    BY <1>3 DEF TakenIn
  <2>4. onVault \in Nat
    BY <2>2, <2>3
  <2> QED BY <1>3, <2>1, <2>2, <2>3, <2>4 DEF TakenIn
<1>6. cash2 \in Nat /\ ToWad(cash2) = ToWad(tx.cash) - put
  <2>1. cash2 \in Nat
    BY <1>2, <1>4, <1>5
  <2>2. (tx.cash - result.assets) * Unit = tx.cash * Unit - result.assets * Unit
    BY <1>4, <1>5, Regrouped, VaultAssumption
  <2> QED BY <2>1, <2>2, <1>5 DEF ToWad, ConvertToWad
<1>7. pool \in Int /\ b2 = WithPool(tx.balances, pool, onVault)
  <2>1. pool \in Int
    BY <1>4, <1>5
  <2> QED BY <2>1 DEF BalancesWhenDeposit, WithPool
<1>8. BalancesFit(b2)
  <2>1. tx2.ok = BalancesFit(b2)
    <3> HIDE DEF tx2, b2
    <3> QED BY <1>2, <1>1 DEF Tx
  <2> QED BY <2>1
<1>9. /\ nobodys \in Nat
      /\ (pool - tx.balances.liquidityPool) + (nobodys - tx.unowned)
           = HeldTotal(tx.vault) - tx.balances.vault
  BY <1>4, <1>5 DEF BookedForNobody
<1> HIDE DEF b2, pool, onVault, put, cash2, nobodys
<1>10. /\ b2 \in Balances
      /\ b2.vault = onVault /\ b2.liquidityPool = pool
      /\ b2.totalCollateral = tx.balances.totalCollateral
      /\ BookedClaims(b2) = (BookedClaims(tx.balances) + pool) - tx.balances.liquidityPool
  <2>1. tx.balances \in Balances /\ onVault \in Int /\ pool \in Int
    BY <1>4, <1>5, <1>7
  <2> QED BY <2>1, <1>7, <1>8, BooksOfStanley
<1>11. tx2 = WithVault(tx, b2, result.vault, cash2, nobodys)
  <2>1. BalancesFit(b2) = TRUE
    BY <1>8 DEF BalancesFit
  <2> HIDE DEF tx2
  <2> QED BY <2>1, <1>2 DEF cash2, nobodys, WithVault
<1> HIDE DEF tx2
<1>12. /\ Sound(tx2)
       /\ tx2.balances = b2 /\ tx2.vault = result.vault /\ tx2.cash = cash2
       /\ tx2.swaps = tx.swaps /\ tx2.ids = tx.ids
       /\ tx2.payout = tx.payout /\ tx2.unowned = nobodys
       /\ DepositsIn(tx2) = DepositsIn(tx)
  <2>1. VaultOK(result.vault) /\ cash2 \in Nat /\ b2 \in Balances /\ nobodys \in Nat
    BY <1>5, <1>6, <1>9, <1>10
  <2> QED BY <2>1, <1>11, TxOfStanley
<1>13. /\ result.vault.current = tx.vault.current
       /\ result.vault.reported = tx.vault.conversions
       /\ tx.vault.conversions <= result.vault.conversions
       /\ (AllHeld(tx.vault) + put) - RoundingsFrom(tx.vault, result.vault) <= AllHeld(result.vault)
       /\ AllHeld(result.vault) <= (AllHeld(tx.vault) + put) + RoundingsFrom(tx.vault, result.vault)
       /\ (AllStored(tx.vault) + put) - RoundingsFrom(tx.vault, result.vault) <= AllStored(result.vault)
  BY <1>3 DEF TakenIn, Changes, put
<1>14. RoundingsFrom(tx.vault, result.vault) \in Nat
  BY <1>4, <1>5, <1>13, RoundingsType
<1>15. Apart(tx.vault) => Covered(tx2)
  <2> SUFFICES ASSUME Apart(tx.vault) PROVE Covered(tx2)
    OBVIOUS
  <2>1. HeldTotal(tx.vault) <= AllStored(tx.vault)
    BY <1>4, HeldTotalBelow
  <2>2. (result.vault.conversions - result.vault.reported) * RoundingAt(result.vault.current)
          = RoundingsFrom(tx.vault, result.vault)
    BY <1>13 DEF RoundingsFrom
  <2>3. onVault <= AllStored(result.vault) + RoundingsFrom(tx.vault, result.vault)
    BY <2>1, <1>5, <1>13, <1>14
  <2> QED BY <2>2, <2>3, <1>10, <1>12 DEF Covered
<1>16. Surplus(tx2) = Surplus(tx)
  <2>1. Surplus(tx2) = (((ToWad(tx.cash) - put) + onVault)
                       - (((BookedClaims(tx.balances) + pool) - tx.balances.liquidityPool)
                          + DepositsIn(tx))) - (tx.payout + nobodys)
    BY <1>6, <1>10, <1>12 DEF Surplus
  <2>2. Surplus(tx) = ((ToWad(tx.cash) + tx.balances.vault)
                       - (BookedClaims(tx.balances) + DepositsIn(tx))) - (tx.payout + tx.unowned)
    BY DEF Surplus
  <2>3. /\ pool \in Int /\ put \in Int /\ onVault \in Int /\ nobodys \in Int
        /\ ToWad(tx.cash) \in Int /\ BookedClaims(tx.balances) \in Int
        /\ tx.balances.liquidityPool \in Int /\ tx.balances.vault \in Int
        /\ DepositsIn(tx) \in Int /\ tx.payout \in Int /\ tx.unowned \in Int
    BY <1>4, <1>5, <1>7, <1>9
  <2>4. (pool - tx.balances.liquidityPool) + (nobodys - tx.unowned)
          = (onVault - put) - tx.balances.vault
    BY <1>5, <1>9
  <2> QED BY <2>1, <2>2, <2>3, <2>4
<1>17. SamePool(tx, tx2)
  <2>1. pool \in Int /\ PoolOf(tx) \in Int
    BY <1>1, <1>7, MarginType
  <2>2. PoolOf(tx2) = (PoolOf(tx) - AllHeld(tx.vault)) + (AllHeld(result.vault) - put)
    BY <2>1, <1>4, <1>5, <1>9, <1>10, <1>12 DEF PoolOf
  <2>3. /\ PoolOf(tx) - RoundingsFrom(tx.vault, result.vault) <= PoolOf(tx2)
        /\ PoolOf(tx2) <= PoolOf(tx) + RoundingsFrom(tx.vault, result.vault)
    BY <2>1, <2>2, <1>5, <1>13, <1>14
  <2> QED BY <2>3, <1>10, <1>12, <1>13 DEF SamePool
<1>18. Moved(tx, tx2)
  BY <1>5, <1>12, <1>15, <1>16, <1>17 DEF Moved
<1> QED BY <1>18 DEF tx2

LEMMA PayTakes ==
    ASSUME NEW tx, Sound(tx), NEW assets \in Nat, Pay(tx, assets).ok
    PROVE  LET r == Pay(tx, assets)
           IN  /\ Sound(r)
               /\ tx.ok
               /\ r.swaps = tx.swaps /\ r.ids = tx.ids /\ r.payout = tx.payout
               /\ r.balances = tx.balances /\ r.vault = tx.vault /\ r.unowned = tx.unowned
               /\ Surplus(r) = Surplus(tx) - ToWad(assets)
<1> DEFINE r == Pay(tx, assets)
           left == tx.cash - assets
<1>1. tx \in Tx
  BY DEF Sound
<1>2. /\ tx.cash \in Nat /\ ToWad(tx.cash) \in Int
      /\ tx.balances.vault \in Nat /\ BookedClaims(tx.balances) \in Nat
      /\ tx.payout \in Nat /\ tx.unowned \in Nat /\ DepositsIn(tx) \in Nat
  BY <1>1, TxFields, BalancesFields
<1>3. ~(assets > tx.cash) /\ r = [tx EXCEPT !.cash = @ - assets]
  <2>1. ~Failed(tx).ok
    BY <1>1 DEF Failed, Tx
  <2>2. r # Failed(tx)
    BY <2>1
  <2> QED BY <2>2, Zenon DEF Pay
<1>4. left \in Nat
  BY <1>2, <1>3
<1>5. r.ok
  OBVIOUS
<1> HIDE DEF r
<1>6. r = [tx EXCEPT !.cash = left]
  BY <1>3
<1> HIDE DEF left
<1>7. /\ r \in Tx
      /\ r.cash = left /\ r.ok = tx.ok
      /\ r.swaps = tx.swaps /\ r.ids = tx.ids /\ r.payout = tx.payout
      /\ r.balances = tx.balances /\ r.vault = tx.vault /\ r.unowned = tx.unowned
  BY <1>1, <1>4, <1>6 DEF Tx
<1>8. Sound(r)
  BY <1>7 DEF Sound
<1>9. ToWad(left) = ToWad(tx.cash) - ToWad(assets) /\ ToWad(assets) \in Int
  <2>1. (tx.cash - assets) * Unit = tx.cash * Unit - assets * Unit
    BY <1>2, Regrouped, VaultAssumption
  <2>2. ToWad(assets) \in Int
    BY WholeToWad
  <2> QED BY <2>1, <2>2 DEF left, ToWad, ConvertToWad
<1>10. DepositsIn(r) = DepositsIn(tx)
  BY <1>7 DEF DepositsIn
<1>11. Surplus(r) = Surplus(tx) - ToWad(assets)
  BY <1>2, <1>7, <1>9, <1>10 DEF Surplus
<1> QED BY <1>5, <1>7, <1>8, <1>11 DEF r

LEMMA PromiseOwes ==
    ASSUME NEW tx, Sound(tx), NEW p \in Nat, Whole(p)
    PROVE  LET r == [tx EXCEPT !.payout = p]
           IN  /\ Sound(r)
               /\ r.ok = tx.ok /\ r.payout = p
               /\ r.swaps = tx.swaps /\ r.ids = tx.ids /\ r.cash = tx.cash
               /\ r.balances = tx.balances /\ r.vault = tx.vault /\ r.unowned = tx.unowned
               /\ Surplus(r) = (Surplus(tx) + tx.payout) - p
<1> DEFINE r == [tx EXCEPT !.payout = p]
<1>1. tx \in Tx
  BY DEF Sound
<1>2. /\ r \in Tx
      /\ r.ok = tx.ok /\ r.payout = p
      /\ r.swaps = tx.swaps /\ r.ids = tx.ids /\ r.cash = tx.cash
      /\ r.balances = tx.balances /\ r.vault = tx.vault /\ r.unowned = tx.unowned
  BY <1>1 DEF Tx
<1> HIDE DEF r
<1>3. Sound(r)
  BY <1>2 DEF Sound
<1>4. /\ ToWad(tx.cash) \in Int
      /\ tx.balances.vault \in Nat /\ BookedClaims(tx.balances) \in Nat
      /\ tx.payout \in Nat /\ tx.unowned \in Nat /\ DepositsIn(tx) \in Nat
  BY <1>1, TxFields, BalancesFields
<1>5. DepositsIn(r) = DepositsIn(tx)
  BY <1>2 DEF DepositsIn
<1>6. Surplus(r) = (Surplus(tx) + tx.payout) - p
  BY <1>2, <1>4, <1>5 DEF Surplus
<1> QED BY <1>2, <1>3, <1>6 DEF r

LEMMA NumbersOfRebalance ==
    ASSUME NEW v \in Vault, NEW wadCash \in Int, NEW operation \in Int, NEW r \in Int
    PROVE  /\ TotalBalance(v) \in Nat
           /\ RebalanceAmountBeforeRedeem(wadCash, TotalBalance(v), operation, r) \in Int
           /\ RebalanceAmountAfterProvideLiquidity(wadCash, TotalBalance(v), r) \in Int
<1>1. v.iv \in Nat /\ HeldTotal(v) \in Nat
  BY VaultFields, HeldTypes
<1>2. VaultExchangeRate(v) \in Nat
  <2>1. CASE HeldTotal(v) = 0 \/ v.iv = 0
    BY <2>1, D18Assumption DEF VaultExchangeRate, VaultRate
  <2>2. CASE ~(HeldTotal(v) = 0 \/ v.iv = 0)
    <3>1. HeldTotal(v) * D18 \in Nat /\ v.iv \in Nat \ {0}
      BY <2>2, <1>1, D18Assumption, ProductOfNaturals
    <3>2. Division(HeldTotal(v) * D18, v.iv) \in Nat
      BY <3>1, DivisionNatural
    <3> QED BY <2>2, <3>2 DEF VaultExchangeRate, VaultRate
  <2> QED BY <2>1, <2>2
<1>3. TotalBalance(v) \in Nat
  <2>1. v.iv * VaultExchangeRate(v) \in Nat
    BY <1>1, <1>2, ProductOfNaturals
  <2> QED BY <2>1, D18Assumption, DivisionNatural DEF TotalBalance
<1>4. \A x, y \in Int : x * y \in Int
  BY SMT
<1>5. D18 - r \in Int
  BY D18Assumption
<1> DEFINE b == TotalBalance(v)
<1>6. (wadCash + b - operation) * (D18 - r) \in Int /\ (wadCash + b) * (D18 - r) \in Int
  <2>1. wadCash + b - operation \in Int /\ wadCash + b \in Int
    BY <1>3
  <2> QED BY <2>1, <1>4, <1>5
<1> HIDE DEF b
<1>7. /\ DivisionInt((wadCash + b - operation) * (D18 - r), D18) \in Int
      /\ DivisionInt((wadCash + b) * (D18 - r), D18) \in Int
  BY <1>6, D18Assumption, DivisionType
<1>8. b \in Nat
  BY <1>3 DEF b
<1> QED BY <1>7, <1>8 DEF b, RebalanceAmountBeforeRedeem, RebalanceAmountAfterProvideLiquidity

(* owed is paid or promised, but for the rounding to the token's decimals. *)
Settled(tx, r, owed) ==
    /\ Sound(r)
    /\ r.swaps = tx.swaps /\ r.ids = tx.ids
    /\ SameContracts(tx.vault, r.vault)
    /\ Apart(tx.vault) /\ Covered(tx) => Covered(r)
    /\ Within(Surplus(r) - (Surplus(tx) - owed), Unit)
    /\ SamePool(tx, r)

LEMMA TransferSettles ==
    ASSUME NEW tx, Sound(tx), NEW sender, NEW buyer, NEW deposit \in Nat, Whole(deposit),
           NEW amount \in Nat, NEW r \in Int,
           TransferDerivativeAmount(tx, sender, buyer, deposit, amount, r).ok
    PROVE  Settled(tx, TransferDerivativeAmount(tx, sender, buyer, deposit, amount, r),
                   amount + deposit)
<1> DEFINE transfer == IF sender = buyer THEN amount + deposit ELSE amount
           p == IF sender = buyer THEN tx.payout ELSE tx.payout + deposit
           promised  == [tx EXCEPT !.payout = p]
           assets    == ToAsset(transfer)
           rebalance == RebalanceAmountBeforeRedeem(ToWad(tx.cash), TotalBalance(tx.vault),
                                                    transfer + deposit, r)
           funded == IF rebalance < 0
                     THEN WithdrawFromStanleyTx(promised, Withdraw(tx.vault, -rebalance))
                     ELSE promised
           res == TransferDerivativeAmount(tx, sender, buyer, deposit, amount, r)
<1>1. /\ tx \in Tx /\ VaultOK(tx.vault) /\ tx.vault \in Vault /\ tx.cash \in Nat
      /\ tx.payout \in Nat /\ Whole(tx.payout)
      /\ ToWad(tx.cash) \in Int /\ Surplus(tx) \in Int
  <2>1. tx \in Tx /\ VaultOK(tx.vault) /\ Whole(tx.payout)
    BY DEF Sound
  <2> QED BY <2>1, TxFields
<1>2. transfer \in Nat
  OBVIOUS
<1>3. p \in Nat /\ Whole(p) /\ p - tx.payout = (amount + deposit) - transfer
  <2>1. Whole(tx.payout + deposit)
    BY <1>1, WholeSum
  <2>2. p \in Nat /\ Whole(p)
    BY <1>1, <2>1
  <2> QED BY <2>2, <1>1
<1>4. assets \in Nat /\ ToWad(assets) \in Int /\ Within(ToWad(assets) - transfer, Unit)
  <2> HIDE DEF transfer
  <2>1. ToAsset(transfer) \in Nat
    BY <1>2, RoundingWithin
  <2>2. ToWad(ToAsset(transfer)) \in Int /\ Within(ToWad(ToAsset(transfer)) - transfer, Unit)
    BY <1>2, RoundingWithin
  <2> QED BY <2>1, <2>2
<1>5. rebalance \in Int
  <2>1. transfer + deposit \in Int
    BY <1>2
  <2> HIDE DEF transfer
  <2> QED BY <2>1, <1>1, NumbersOfRebalance
<1>6. \/ transfer = 0 /\ res = promised
      \/ transfer > 0 /\ res = Pay(promised, assets)
      \/ transfer > 0 /\ funded.ok /\ res = Pay(funded, assets)
  <2>1. promised = [tx EXCEPT !.payout = IF sender = buyer THEN @ ELSE @ + deposit]
    OBVIOUS
  <2>2. ~Failed(tx).ok
    BY <1>1 DEF Failed, Tx
  <2>3. res # Failed(tx)
    BY <2>2
  <2>4. \/ transfer = 0
        \/ transfer > 0 /\ tx.cash > assets
        \/ transfer > 0 /\ tx.cash <= assets
    <3> HIDE DEF transfer, assets
    <3> QED BY <1>1, <1>2, <1>4
  <2> QED BY <2>1, <2>3, <2>4, <1>2 DEF TransferDerivativeAmount
<1> HIDE DEF p, assets
<1>7. /\ Sound(promised)
      /\ promised.ok = tx.ok
      /\ promised.swaps = tx.swaps /\ promised.ids = tx.ids
      /\ promised.balances = tx.balances /\ promised.vault = tx.vault
      /\ promised.unowned = tx.unowned
      /\ Surplus(promised) = (Surplus(tx) + tx.payout) - p
  <2> HIDE DEF promised
  <2>1. promised = [tx EXCEPT !.payout = p]
    BY DEF promised
  <2> QED BY <2>1, <1>3, PromiseOwes
<1> HIDE DEF promised, rebalance, res
<1>8. /\ Covered(promised) <=> Covered(tx)
      /\ SameContracts(tx.vault, tx.vault)
      /\ SamePool(tx, promised)
  <2>1. SamePool(tx, promised)
    BY <1>1, <1>7, SamePoolItself
  <2> QED BY <2>1, <1>7 DEF Covered, SameContracts
<1>9. ASSUME funded.ok
      PROVE  /\ Sound(funded)
             /\ funded.swaps = tx.swaps /\ funded.ids = tx.ids
             /\ SameContracts(tx.vault, funded.vault)
             /\ Apart(tx.vault) /\ Covered(tx) => Covered(funded)
             /\ Surplus(funded) = Surplus(promised)
             /\ SamePool(tx, funded)
  <2>1. CASE ~(rebalance < 0)
    BY <2>1, <1>7, <1>8
  <2>2. CASE rebalance < 0
    <3> DEFINE result == Withdraw(tx.vault, -rebalance)
    <3>1. result.ok => PaidOut(promised.vault, result)
      <4>1. -rebalance \in Int
        BY <1>5
      <4> QED BY <4>1, <1>1, <1>7, WithdrawPays
    <3>2. funded = WithdrawFromStanleyTx(promised, result)
      BY <2>2
    <3> HIDE DEF result
    <3>3. Moved(promised, funded)
      BY <1>7, <1>9, <3>1, <3>2, WithdrawTxMoves
    <3>4. SamePool(tx, funded)
      <4>1. promised \in Tx /\ funded \in Tx /\ SamePool(promised, funded)
        BY <3>3, <1>7 DEF Moved, Sound
      <4> QED BY <4>1, <1>1, <1>8, SamePoolTransitive
    <3> QED BY <3>3, <3>4, <1>7, <1>8 DEF Moved
  <2> QED BY <2>1, <2>2
<1> HIDE DEF funded
<1>10. ASSUME NEW q, Sound(q),
              q.swaps = tx.swaps, q.ids = tx.ids,
              SameContracts(tx.vault, q.vault),
              Apart(tx.vault) /\ Covered(tx) => Covered(q),
              Surplus(q) = Surplus(promised),
              SamePool(tx, q),
              res = Pay(q, assets)
       PROVE  Settled(tx, res, amount + deposit)
  <2>1. /\ Sound(res)
        /\ res.swaps = q.swaps /\ res.ids = q.ids
        /\ res.balances = q.balances /\ res.vault = q.vault /\ res.unowned = q.unowned
        /\ Surplus(res) = Surplus(q) - ToWad(assets)
    <3>1. Pay(q, assets).ok
      BY <1>10 DEF res
    <3> QED BY <3>1, <1>10, <1>4, PayTakes
  <2>2. Covered(q) => Covered(res)
    BY <2>1 DEF Covered
  <2>3. Within(Surplus(res) - (Surplus(tx) - (amount + deposit)), Unit)
    <3>1. Surplus(res) = ((Surplus(tx) + tx.payout) - p) - ToWad(assets)
      BY <2>1, <1>7, <1>10
    <3>2. Surplus(res) - (Surplus(tx) - (amount + deposit)) = transfer - ToWad(assets)
      <4> HIDE DEF transfer
      <4> QED BY <3>1, <1>1, <1>2, <1>3, <1>4
    <3>3. Within(transfer - ToWad(assets), Unit)
      <4> HIDE DEF transfer
      <4> QED BY <1>2, <1>4, VaultAssumption DEF Within
    <3> QED BY <3>2, <3>3
  <2>4. SamePool(tx, res)
    <3>1. q \in Tx /\ res \in Tx
      BY <2>1, <1>10 DEF Sound
    <3>2. SamePool(q, res)
      BY <2>1, <3>1, SamePoolItself
    <3> QED BY <3>1, <3>2, <1>1, <1>10, SamePoolTransitive
  <2> QED BY <2>1, <2>2, <2>3, <2>4, <1>10 DEF Settled
<1>11. CASE transfer = 0 /\ res = promised
  <2>1. Surplus(res) - (Surplus(tx) - (amount + deposit)) = 0
    BY <1>11, <1>1, <1>3, <1>7
  <2>2. Within(0, Unit)
    BY VaultAssumption DEF Within
  <2>3. Settled(tx, res, amount + deposit)
    BY <1>11, <2>1, <2>2, <1>7, <1>8 DEF Settled
  <2> QED BY <2>3 DEF res
<1>12. CASE res = Pay(promised, assets)
  <2>1. Settled(tx, res, amount + deposit)
    BY <1>12, <1>7, <1>8, <1>10
  <2> QED BY <2>1 DEF res
<1>13. CASE funded.ok /\ res = Pay(funded, assets)
  <2>1. Settled(tx, res, amount + deposit)
    BY <1>13, <1>9, <1>10
  <2> QED BY <2>1 DEF res
<1> QED BY <1>6, <1>11, <1>12, <1>13

-----------------------------------------------------------------------------
(* Closing a swap *)

(* A fee of at most all of an amount is at most the amount. *)
LEMMA PercentBelow ==
    ASSUME NEW x \in Nat, NEW rate \in 0..D18
    PROVE  PercentOf(x, rate) \in 0..x
<1> DEFINE q == PercentOf(x, rate)
           y == x * rate
           m == x * D18
<1>1. y \in Nat /\ m \in Nat /\ y <= m
  <2>1. rate \in Nat /\ rate <= D18 /\ D18 \in Nat
    BY D18Assumption
  <2> QED BY <2>1, ProductMonotonic, ProductOfNaturals
<1>2. q \in Nat /\ Within(D18 * q - y, D18)
  <2>1. q = Division(y, D18)
    BY DEF PercentOf
  <2> HIDE DEF q, y
  <2>2. y \in Int
    BY <1>1
  <2> QED BY <2>1, <2>2, <1>1, D18Assumption, DivisionNatural, DivisionWithin
<1> HIDE DEF q, y
<1>3. CASE q <= x
  BY <1>3, <1>2 DEF q
<1>4. CASE q > x
  <2>1. D18 * (x + 1) <= D18 * q
    <3>1. x + 1 <= q /\ x + 1 \in Int /\ q \in Int
      BY <1>2, <1>4
    <3> QED BY <3>1, D18Assumption, ProductMonotonic
  <2>2. D18 * (x + 1) = m + D18
    BY D18Assumption
  <2>3. D18 * q \in Int
    BY <1>2, D18Assumption
  <2> DEFINE z == D18 * q
  <2>4. z \in Int /\ m + D18 <= z /\ Within(z - y, D18)
    BY <2>1, <2>2, <2>3, <1>2
  <2> HIDE DEF z, m
  <2> QED BY <2>4, <1>1, D18Assumption DEF Within
<1> QED BY <1>2, <1>3, <1>4

(* The swap that is closed leaves its leg, with its deposit. *)
LEMMA ClosedLeg ==
    ASSUME NEW sw, NEW lists, LegTypeOK(sw, lists), LegConsistent(sw, lists),
           NEW id \in SwapId, IsActive(sw, id)
    PROVE  LET sw2 == SwapsWhenClose(sw, lists, sw[id])
           IN  /\ ActiveOf(sw2) = ActiveOf(sw) \ {id}
               /\ DepositOf(sw2) = DepositOf(sw) - WadDeposit(sw[id])
               /\ Cardinality(ActiveOf(sw2)) = Cardinality(ActiveOf(sw)) - 1
<1> DEFINE sw2 == SwapsWhenClose(sw, lists, sw[id])
           f == [j \in SwapId |-> WadDeposit(sw[j])]
           g == [j \in SwapId |-> WadDeposit(sw2[j])]
           S == ActiveOf(sw)
<1>1. \A j \in SwapId : SwapTermsOf(sw2[j]) = SwapTermsOf(sw[j])
  BY CloseKeepsTerms
<1>2. ~IsActive(sw2, id) /\ \A j \in SwapId \ {id} : IsActive(sw2, j) <=> IsActive(sw, j)
  BY CloseEndsOneSwap
<1>3. sw \in [SwapId -> Swap] /\ sw2 \in [SwapId -> Swap]
  <2>1. LegTypeOK(sw2, IdsWhenClose(lists, sw[id]))
    BY CloseKeepsLegConsistent
  <2> QED BY <2>1 DEF LegTypeOK
<1> HIDE DEF sw2
<1>4. \A s \in Swap : SwapTermsOf(s).liquidationDepositAmount = s.liquidationDepositAmount
  BY DEF Swap, SwapTermsOf
<1>5. \A j \in SwapId : g[j] = f[j]
  <2> SUFFICES ASSUME NEW j \in SwapId PROVE g[j] = f[j]
    OBVIOUS
  <2>1. sw2[j].liquidationDepositAmount = sw[j].liquidationDepositAmount
    BY <1>1, <1>3, <1>4
  <2> QED BY <2>1 DEF WadDeposit
<1>6. ActiveOf(sw2) = S \ {id} /\ id \in S
  BY <1>2 DEF ActiveOf
<1>7. IsFiniteSet(S) /\ \A j \in S : f[j] \in Int
  <2>1. IsFiniteSet(S) /\ \A j \in SwapId : WadDeposit(sw[j]) \in Nat
    BY <1>3, DepositOfType
  <2>2. S \subseteq SwapId
    BY DEF ActiveOf
  <2> HIDE DEF S
  <2> QED BY <2>1, <2>2
<1>8. \A j \in S \ {id} : g[j] = f[j]
  BY <1>5 DEF ActiveOf
<1>9. f[id] = WadDeposit(sw[id])
  OBVIOUS
<1>10. DepositOf(sw) = SumFunctionOnSet(f, S) /\ DepositOf(sw2) = SumFunctionOnSet(g, S \ {id})
  BY <1>6 DEF DepositOf
<1> HIDE DEF f, g, S
<1>11. SumFunctionOnSet(g, S \ {id}) = SumFunctionOnSet(f, S) - f[id]
  <2>1. \A j \in S : f[j] \in Int
    BY <1>7
  <2>2. IsFiniteSet(S) /\ id \in S
    BY <1>6, <1>7
  <2> QED BY <2>1, <2>2, <1>8, SumWithOneLess
<1>12. Cardinality(S \ {id}) = Cardinality(S) - 1
  BY <1>6, <1>7, FS_RemoveElement
<1> QED BY <1>6, <1>9, <1>10, <1>11, <1>12 DEF sw2, S

(* Books of which one leg, its SOAP and the balances have changed. *)
WithLeg(tx, leg, sw2, lists2, b, s2) ==
    [tx EXCEPT !.swaps[leg] = sw2, !.ids[leg] = lists2, !.balances = b, !.soap[leg] = s2]

LEMMA LegIsBooked ==
    ASSUME NEW tx, Sound(tx), NEW leg \in Leg,
           NEW sw2 \in [SwapId -> Swap], NEW lists2 \in [Account -> Seq(SwapId)],
           LegConsistent(sw2, lists2), NEW b \in Balances, NEW s2 \in SoapOfLegType,
           NEW owed \in Int, NEW deposit \in Int, NEW n \in Int,
           b.vault = tx.balances.vault,
           BookedClaims(b) = BookedClaims(tx.balances) - owed,
           DepositOf(sw2) = DepositOf(tx.swaps[leg]) - deposit,
           Cardinality(ActiveOf(sw2)) = Cardinality(ActiveOf(tx.swaps[leg])) - n
    PROVE  LET r == WithLeg(tx, leg, sw2, lists2, b, s2)
           IN  /\ Sound(r)
               /\ r.ok = tx.ok /\ r.vault = tx.vault /\ r.cash = tx.cash
               /\ r.balances = b /\ r.unowned = tx.unowned
               /\ r.swaps[leg] = sw2 /\ \A l \in Leg \ {leg} : r.swaps[l] = tx.swaps[l]
               /\ r.ids[leg] = lists2 /\ \A l \in Leg \ {leg} : r.ids[l] = tx.ids[l]
               /\ Surplus(r) = Surplus(tx) + (owed + deposit)
               /\ OpenSwaps(r) = OpenSwaps(tx) - n
<1> DEFINE r == WithLeg(tx, leg, sw2, lists2, b, s2)
           swaps2 == [tx.swaps EXCEPT ![leg] = sw2]
           ids2 == [tx.ids EXCEPT ![leg] = lists2]
           soap2 == [tx.soap EXCEPT ![leg] = s2]
<1>1. tx \in Tx
  BY DEF Sound
<1>2. /\ tx.swaps \in [Leg -> [SwapId -> Swap]]
      /\ tx.ids \in [Leg -> [Account -> Seq(SwapId)]]
      /\ tx.soap \in [Leg -> SoapOfLegType]
  BY <1>1, TxFields
<1>3. /\ swaps2 \in [Leg -> [SwapId -> Swap]]
      /\ ids2 \in [Leg -> [Account -> Seq(SwapId)]]
      /\ soap2 \in [Leg -> SoapOfLegType]
      /\ swaps2[leg] = sw2 /\ \A l \in Leg \ {leg} : swaps2[l] = tx.swaps[l]
      /\ ids2[leg] = lists2 /\ \A l \in Leg \ {leg} : ids2[l] = tx.ids[l]
  BY <1>2
<1>4. r = [tx EXCEPT !.swaps = swaps2, !.ids = ids2, !.balances = b, !.soap = soap2]
  BY DEF WithLeg
<1> HIDE DEF r, swaps2, ids2, soap2
<1>5. /\ r \in Tx
      /\ r.ok = tx.ok /\ r.vault = tx.vault /\ r.cash = tx.cash /\ r.payout = tx.payout
      /\ r.unowned = tx.unowned
      /\ r.balances = b /\ r.swaps = swaps2 /\ r.ids = ids2
  BY <1>1, <1>3, <1>4 DEF Tx
<1>6. Sound(r)
  BY <1>3, <1>5 DEF Sound
<1>7. /\ DepositOf(tx.swaps[PayFixed]) \in Int /\ DepositOf(tx.swaps[ReceiveFixed]) \in Int
      /\ Cardinality(ActiveOf(tx.swaps[PayFixed])) \in Int
      /\ Cardinality(ActiveOf(tx.swaps[ReceiveFixed])) \in Int
  BY <1>1, TxFields, DepositOfType
<1>8. DepositsIn(r) = DepositsIn(tx) - deposit /\ OpenSwaps(r) = OpenSwaps(tx) - n
  <2>1. CASE leg = PayFixed
    <3>1. r.swaps[PayFixed] = sw2 /\ r.swaps[ReceiveFixed] = tx.swaps[ReceiveFixed]
      BY <2>1, <1>3, <1>5 DEF Leg, PayFixed, ReceiveFixed
    <3> QED BY <3>1, <2>1, <1>7 DEF DepositsIn, OpenSwaps
  <2>2. CASE leg = ReceiveFixed
    <3>1. r.swaps[ReceiveFixed] = sw2 /\ r.swaps[PayFixed] = tx.swaps[PayFixed]
      BY <2>2, <1>3, <1>5 DEF Leg, PayFixed, ReceiveFixed
    <3>2. /\ DepositOf(sw2) = DepositOf(tx.swaps[ReceiveFixed]) - deposit
          /\ Cardinality(ActiveOf(sw2)) = Cardinality(ActiveOf(tx.swaps[ReceiveFixed])) - n
      BY <2>2
    <3>3. DepositsIn(r) = DepositsIn(tx) - deposit
      BY <3>1, <3>2, <1>7 DEF DepositsIn
    <3>4. OpenSwaps(r) = OpenSwaps(tx) - n
      BY <3>1, <3>2, <1>7 DEF OpenSwaps
    <3> QED BY <3>3, <3>4
  <2> QED BY <2>1, <2>2 DEF Leg
<1>9. Surplus(r) = Surplus(tx) + (owed + deposit)
  <2>1. /\ ToWad(tx.cash) \in Int /\ tx.payout \in Int /\ DepositsIn(tx) \in Int
        /\ tx.unowned \in Int
        /\ tx.balances.vault \in Int /\ BookedClaims(tx.balances) \in Int
    BY <1>1, TxFields, BalancesFields
  <2> QED BY <2>1, <1>5, <1>8 DEF Surplus
<1> QED BY <1>3, <1>5, <1>6, <1>8, <1>9 DEF r

(* Closing ends swaps and starts none, makes no list longer, and for each swap
   that it ends the surplus moves by the rounding of one payment at most.  The
   pool loses no more than the collateral it no longer has to cover, but for
   Compound's roundings. *)
Follows(tx, r) ==
    /\ Sound(r)
    /\ SameContracts(tx.vault, r.vault)
    /\ \A leg \in Leg : ActiveOf(r.swaps[leg]) \subseteq ActiveOf(tx.swaps[leg])
    /\ \A leg \in Leg, a \in Account : Len(r.ids[leg][a]) <= Len(tx.ids[leg][a])
    /\ r = tx \/ OpenSwaps(r) < OpenSwaps(tx)
    /\ Margin(tx) <= Margin(r)
    /\ Apart(tx.vault) /\ Covered(tx) => Covered(r)
    /\ Within(Surplus(r) - Surplus(tx), Unit * (OpenSwaps(tx) - OpenSwaps(r)))

(* What the buyer gets of the collateral, and what that leaves in the books. *)
LEMMA CloseBooksAmount ==
    ASSUME NEW b \in Balances, NEW leg \in Leg, NEW swap \in Swap,
           NEW payoff \in -swap.collateral..swap.collateral
    PROVE  LET fee    == PercentOf(AbsoluteValue(payoff), INCOME_FEE_RATE)
               amount == IF payoff > 0 THEN swap.collateral + payoff - fee
                         ELSE swap.collateral + payoff
               b2     == BalancesWhenClose(b, leg, swap, payoff, fee)
           IN  /\ fee \in Nat
               /\ amount \in Nat
               /\ b2.vault = b.vault
               /\ BookedClaims(b2) = BookedClaims(b) - amount
               /\ b.liquidityPool - CollateralOf(b) <= b2.liquidityPool - CollateralOf(b2)
<1> DEFINE fee    == PercentOf(AbsoluteValue(payoff), INCOME_FEE_RATE)
           amount == IF payoff > 0 THEN swap.collateral + payoff - fee
                     ELSE swap.collateral + payoff
           b2     == BalancesWhenClose(b, leg, swap, payoff, fee)
           pool   == IF payoff > 0 THEN b.liquidityPool - payoff
                     ELSE b.liquidityPool + (-payoff - fee)
           coll   == [b.totalCollateral EXCEPT ![leg] = @ - swap.collateral]
<1>1. /\ swap.collateral \in Nat /\ payoff \in Int
      /\ -swap.collateral <= payoff /\ payoff <= swap.collateral
  BY StorageAssumption DEF Swap, UInt128
<1>2. /\ AbsoluteValue(payoff) \in Nat
      /\ AbsoluteValue(payoff) = IF payoff > 0 THEN payoff ELSE -payoff
  BY <1>1 DEF AbsoluteValue
<1>3. fee \in 0..AbsoluteValue(payoff)
  <2>1. INCOME_FEE_RATE \in 0..D18
    BY MiltonAssumption
  <2> QED BY <2>1, <1>2, PercentBelow
<1>4. /\ b.totalCollateral \in [Leg -> Nat]
      /\ b.totalCollateral[PayFixed] \in Nat /\ b.totalCollateral[ReceiveFixed] \in Nat
      /\ b.liquidityPool \in Nat /\ b.vault \in Nat
      /\ b.iporPublicationFee \in Nat /\ b.treasury \in Nat
  BY BalancesFields
<1> HIDE DEF fee
<1>5. fee \in Nat /\ amount \in Nat
  BY <1>1, <1>2, <1>3
<1>6. b2 = [b EXCEPT !.treasury = @ + fee, !.liquidityPool = pool, !.totalCollateral = coll]
  BY DEF BalancesWhenClose
<1>7. coll[PayFixed] + coll[ReceiveFixed]
          = (b.totalCollateral[PayFixed] + b.totalCollateral[ReceiveFixed]) - swap.collateral
      /\ coll[PayFixed] \in Int /\ coll[ReceiveFixed] \in Int
  <2>1. CASE leg = PayFixed
    <3>1. /\ coll[PayFixed] = b.totalCollateral[PayFixed] - swap.collateral
          /\ coll[ReceiveFixed] = b.totalCollateral[ReceiveFixed]
      BY <2>1, <1>4 DEF Leg, PayFixed, ReceiveFixed
    <3> HIDE DEF coll
    <3> QED BY <3>1, <1>1, <1>4
  <2>2. CASE leg = ReceiveFixed
    <3>1. /\ coll[ReceiveFixed] = b.totalCollateral[ReceiveFixed] - swap.collateral
          /\ coll[PayFixed] = b.totalCollateral[PayFixed]
      BY <2>2, <1>4 DEF Leg, PayFixed, ReceiveFixed
    <3> HIDE DEF coll
    <3> QED BY <3>1, <1>1, <1>4
  <2> QED BY <2>1, <2>2 DEF Leg
<1>8. pool \in Int /\ pool + fee = b.liquidityPool + swap.collateral - amount
  BY <1>1, <1>4, <1>5
<1> HIDE DEF b2, pool, coll, amount
<1>9. /\ b2.vault = b.vault /\ b2.iporPublicationFee = b.iporPublicationFee
      /\ b2.treasury = b.treasury + fee /\ b2.liquidityPool = pool
      /\ b2.totalCollateral = coll
  BY <1>6 DEF Balances
<1>10. BookedClaims(b2) = BookedClaims(b) - amount
  <2>1. BookedClaims(b2) = pool + coll[PayFixed] + coll[ReceiveFixed]
                           + b.iporPublicationFee + (b.treasury + fee)
    BY <1>9 DEF BookedClaims
  <2>2. BookedClaims(b) = b.liquidityPool + b.totalCollateral[PayFixed]
                          + b.totalCollateral[ReceiveFixed] + b.iporPublicationFee + b.treasury
    BY DEF BookedClaims
  <2>3. \A cp, cr, bp, br, sc, p, f, lp, a, fees, tr, x, y \in Int :
            /\ cp + cr = (bp + br) - sc
            /\ p + f = lp + sc - a
            /\ x = p + cp + cr + fees + (tr + f)
            /\ y = lp + bp + br + fees + tr
            => x = y - a
    BY SMT
  <2>4. /\ BookedClaims(b2) \in Int /\ BookedClaims(b) \in Int
        /\ amount \in Int /\ fee \in Int /\ pool \in Int /\ swap.collateral \in Int
        /\ coll[PayFixed] \in Int /\ coll[ReceiveFixed] \in Int
        /\ b.totalCollateral[PayFixed] \in Int /\ b.totalCollateral[ReceiveFixed] \in Int
        /\ b.liquidityPool \in Int /\ b.iporPublicationFee \in Int /\ b.treasury \in Int
    BY <2>1, <2>2, <1>1, <1>4, <1>5, <1>7, <1>8
  <2> QED BY <2>1, <2>2, <2>3, <2>4, <1>7, <1>8
<1>11. b.liquidityPool - CollateralOf(b) <= b2.liquidityPool - CollateralOf(b2)
  <2>1. CollateralOf(b2) = CollateralOf(b) - swap.collateral
    BY <1>7, <1>9 DEF CollateralOf
  <2>2. b.liquidityPool - swap.collateral <= pool
    BY <1>1, <1>3, <1>4, <1>5, <1>2 DEF pool
  <2>3. CollateralOf(b) \in Int /\ b.liquidityPool \in Int
    BY <1>4 DEF CollateralOf
  <2> QED BY <2>1, <2>2, <2>3, <1>1, <1>8, <1>9
<1> QED BY <1>5, <1>9, <1>10, <1>11 DEF b2, amount, fee

LEMMA CloseSwapFollows ==
    ASSUME NEW tx, Sound(tx), NEW leg \in Leg, NEW id \in SwapId,
           IsActive(tx.swaps[leg], id), NEW sender, NEW price \in Nat, NEW t \in UInt32,
           NEW r \in Int, CloseSwapTx(tx, leg, id, sender, price, t, r).ok
    PROVE  /\ Follows(tx, CloseSwapTx(tx, leg, id, sender, price, t, r))
           /\ CloseSwapTx(tx, leg, id, sender, price, t, r) # tx
<1> DEFINE sw    == tx.swaps[leg]
           lists == tx.ids[leg]
           swap  == sw[id]
           payoff == CalculatePayoff(leg, swap, t, price)
           fee    == PercentOf(AbsoluteValue(payoff), INCOME_FEE_RATE)
           b      == BalancesWhenClose(tx.balances, leg, swap, payoff, fee)
           sw2    == SwapsWhenClose(sw, lists, swap)
           lists2 == IdsWhenClose(lists, swap)
           s2     == RebalanceWhenCloseSwap(tx.soap[leg], swap, t)
           booked == WithLeg(tx, leg, sw2, lists2, b, s2)
           amount == IF payoff > 0 THEN swap.collateral + payoff - fee
                     ELSE swap.collateral + payoff
           res == CloseSwapTx(tx, leg, id, sender, price, t, r)
<1>1. /\ tx \in Tx /\ VaultOK(tx.vault) /\ LegConsistent(sw, lists)
      /\ sw \in [SwapId -> Swap] /\ lists \in [Account -> Seq(SwapId)]
      /\ tx.soap[leg] \in SoapOfLegType
      /\ tx.balances \in Balances
  <2>1. tx \in Tx /\ VaultOK(tx.vault) /\ LegConsistent(sw, lists)
    BY DEF Sound
  <2> QED BY <2>1, TxFields
<1>2. LegTypeOK(sw, lists) /\ swap \in Swap
  BY <1>1 DEF LegTypeOK
<1>3. /\ BalancesFit(b)
      /\ CanUpdateSoapWhenClose(tx.soap[leg], swap, t)
      /\ res = TransferDerivativeAmount(booked, sender, swap.buyer, WadDeposit(swap), amount, r)
  <2>1. ~Failed(tx).ok
    BY <1>1 DEF Failed, Tx
  <2>2. res # Failed(tx)
    BY <2>1
  <2>3. booked = [tx EXCEPT
                    !.swaps[leg] = SwapsWhenClose(@, tx.ids[leg], swap),
                    !.ids[leg] = IdsWhenClose(@, swap),
                    !.balances = b,
                    !.soap[leg] = RebalanceWhenCloseSwap(@, swap, t)]
    BY <1>1 DEF WithLeg, Tx
  <2> QED BY <2>2, <2>3, Zenon DEF CloseSwapTx
<1>4. payoff \in -swap.collateral..swap.collateral
  <2>1. t \in Nat
    BY StorageAssumption DEF UInt32
  <2> HIDE DEF swap
  <2> QED BY <2>1, <1>2, PayoffType
<1>5. /\ fee \in Nat
      /\ amount \in Nat
      /\ b.vault = tx.balances.vault
      /\ BookedClaims(b) = BookedClaims(tx.balances) - amount
      /\ tx.balances.liquidityPool - CollateralOf(tx.balances) <= b.liquidityPool - CollateralOf(b)
  <2> HIDE DEF swap, payoff
  <2> QED BY <1>1, <1>2, <1>4, CloseBooksAmount
<1>6. b \in Balances
  <2>1. payoff \in Int
    BY <1>2, <1>4, StorageAssumption DEF Swap, UInt128
  <2> HIDE DEF swap, payoff, fee
  <2> QED BY <2>1, <1>1, <1>2, <1>3, <1>5, BalancesCloseType
<1>7. s2 \in SoapOfLegType
  BY <1>1, <1>2, <1>3, SoapCloseType
<1>8. LegConsistent(sw2, lists2) /\ LegTypeOK(sw2, lists2)
  BY <1>1, <1>2, CloseKeepsLegConsistent
<1>9. /\ ActiveOf(sw2) = ActiveOf(sw) \ {id}
      /\ DepositOf(sw2) = DepositOf(sw) - WadDeposit(swap)
      /\ Cardinality(ActiveOf(sw2)) = Cardinality(ActiveOf(sw)) - 1
  BY <1>1, <1>2, ClosedLeg
<1>10. \A a \in Account : Len(lists2[a]) <= Len(lists[a])
  <2> SUFFICES ASSUME NEW a \in Account PROVE Len(lists2[a]) <= Len(lists[a])
    OBVIOUS
  <2>1. lists2[a] = lists[a] \/ Len(lists2[a]) = Len(lists[a]) - 1
    BY <1>1, <1>2, CloseShortensList
  <2>2. Len(lists[a]) \in Nat
    BY <1>1
  <2> HIDE DEF lists2, lists
  <2> QED BY <2>1, <2>2
<1>11. WadDeposit(swap) \in Nat /\ Whole(WadDeposit(swap))
  <2>1. swap.liquidationDepositAmount \in Nat
    BY <1>2, StorageAssumption DEF Swap, UInt32
  <2>2. Whole(swap.liquidationDepositAmount * D18)
    BY <2>1, WholeTimesD18
  <2> QED BY <2>1, <2>2, D18Assumption, ProductOfNaturals DEF WadDeposit
<1>12. sw2 \in [SwapId -> Swap] /\ lists2 \in [Account -> Seq(SwapId)]
  BY <1>8 DEF LegTypeOK
<1> DEFINE deposit == WadDeposit(swap)
<1> HIDE DEF payoff, fee, b, sw2, lists2, s2, amount, swap, deposit
<1>13. /\ Sound(booked)
       /\ booked.vault = tx.vault /\ booked.unowned = tx.unowned
       /\ booked.balances = b
       /\ booked.swaps[leg] = sw2 /\ \A l \in Leg \ {leg} : booked.swaps[l] = tx.swaps[l]
       /\ booked.ids[leg] = lists2 /\ \A l \in Leg \ {leg} : booked.ids[l] = tx.ids[l]
       /\ Surplus(booked) = Surplus(tx) + (amount + deposit)
       /\ OpenSwaps(booked) = OpenSwaps(tx) - 1
  <2>1. amount \in Int /\ deposit \in Int
    BY <1>5, <1>11 DEF deposit
  <2>2. DepositOf(sw2) = DepositOf(tx.swaps[leg]) - deposit
    BY <1>9 DEF deposit
  <2>3. /\ sw2 \in [SwapId -> Swap] /\ lists2 \in [Account -> Seq(SwapId)]
        /\ LegConsistent(sw2, lists2)
        /\ b \in Balances /\ s2 \in SoapOfLegType
        /\ b.vault = tx.balances.vault
        /\ BookedClaims(b) = BookedClaims(tx.balances) - amount
        /\ Cardinality(ActiveOf(sw2)) = Cardinality(ActiveOf(tx.swaps[leg])) - 1
    BY <1>5, <1>6, <1>7, <1>8, <1>9, <1>12
  <2> QED BY <2>1, <2>2, <2>3, LegIsBooked
<1> HIDE DEF booked, sw, lists, res
<1>14. Settled(booked, res, amount + deposit)
  <2>1. TransferDerivativeAmount(booked, sender, swap.buyer, deposit, amount, r).ok
    BY <1>3 DEF res, deposit
  <2>2. deposit \in Nat /\ Whole(deposit)
    BY <1>11 DEF deposit
  <2>3. Settled(booked, TransferDerivativeAmount(booked, sender, swap.buyer, deposit, amount, r),
                amount + deposit)
    BY <2>1, <2>2, <1>5, <1>13, TransferSettles
  <2> QED BY <2>3, <1>3 DEF deposit
<1>15. OpenSwaps(res) = OpenSwaps(tx) - 1 /\ OpenSwaps(tx) \in Nat
  <2>1. OpenSwaps(res) = OpenSwaps(booked)
    BY <1>14 DEF Settled, OpenSwaps
  <2> QED BY <2>1, <1>1, <1>13, TxFields
<1>16. Covered(booked) <=> Covered(tx)
  BY <1>5, <1>13 DEF Covered
<1>17. \A l \in Leg : ActiveOf(res.swaps[l]) \subseteq ActiveOf(tx.swaps[l])
  BY <1>9, <1>13, <1>14 DEF Settled, sw
<1>18. \A l \in Leg, a \in Account : Len(res.ids[l][a]) <= Len(tx.ids[l][a])
  <2> SUFFICES ASSUME NEW l \in Leg, NEW a \in Account
               PROVE  Len(res.ids[l][a]) <= Len(tx.ids[l][a])
    OBVIOUS
  <2>1. CASE l = leg
    BY <2>1, <1>10, <1>13, <1>14 DEF Settled, lists
  <2>2. CASE l # leg
    <3>1. res.ids[l] = tx.ids[l]
      BY <2>2, <1>13, <1>14 DEF Settled
    <3>2. Len(tx.ids[l][a]) \in Nat
      BY <1>1, TxFields
    <3> QED BY <3>1, <3>2
  <2> QED BY <2>1, <2>2
<1>19. Within(Surplus(res) - Surplus(tx), Unit * (OpenSwaps(tx) - OpenSwaps(res)))
  <2>1. Unit * (OpenSwaps(tx) - OpenSwaps(res)) = Unit
    BY <1>15, VaultAssumption
  <2>2. Surplus(booked) - (amount + deposit) = Surplus(tx)
    <3>1. Surplus(tx) \in Int /\ amount \in Int /\ deposit \in Int
      BY <1>1, <1>5, <1>11, TxFields DEF deposit
    <3> QED BY <3>1, <1>13
  <2> QED BY <2>1, <2>2, <1>14 DEF Settled
<1>20. Margin(tx) <= Margin(res)
  <2>1. booked \in Tx /\ res \in Tx
    BY <1>13, <1>14 DEF Settled, Sound
  <2>2. Margin(booked) <= Margin(res) /\ Margin(booked) \in Int /\ Margin(res) \in Int
    BY <2>1, <1>14, SamePoolKeepsMargin, MarginType DEF Settled
  <2>3. /\ AllHeld(tx.vault) \in Int /\ tx.balances.vault \in Int
        /\ RoundingsOf(tx.vault) \in Int /\ tx.unowned \in Int
        /\ tx.balances.liquidityPool \in Int /\ CollateralOf(tx.balances) \in Int
        /\ b.liquidityPool \in Int /\ CollateralOf(b) \in Int
    <3>1. tx.vault \in Vault /\ tx.unowned \in Nat
      BY <1>1, TxFields
    <3>2. \A y \in Balances : /\ y.vault \in Int /\ y.liquidityPool \in Int
                             /\ CollateralOf(y) \in Int
      BY BalancesFields DEF CollateralOf
    <3> QED BY <1>1, <1>6, <3>1, <3>2, HeldTypes, MarginType
  <2>4. /\ Margin(tx) = (((tx.balances.liquidityPool + AllHeld(tx.vault) + tx.unowned)
                           - tx.balances.vault) + RoundingsOf(tx.vault))
                         - CollateralOf(tx.balances)
        /\ Margin(booked) = (((b.liquidityPool + AllHeld(tx.vault) + tx.unowned)
                               - tx.balances.vault) + RoundingsOf(tx.vault))
                             - CollateralOf(b)
    BY <1>5, <1>13, Zenon DEF Margin, PoolOf
  <2>5. tx.balances.liquidityPool - CollateralOf(tx.balances) <= b.liquidityPool - CollateralOf(b)
    BY <1>5
  <2> HIDE DEF booked, res
  <2>6. Margin(tx) <= Margin(booked) /\ Margin(tx) \in Int
    BY <2>3, <2>4, <2>5
  <2> QED BY <2>2, <2>6
<1>22. Follows(tx, res)
  <2>1. OpenSwaps(res) < OpenSwaps(tx)
    BY <1>15
  <2> QED BY <2>1, <1>13, <1>14, <1>16, <1>17, <1>18, <1>19, <1>20 DEF Follows, Settled, Apart
<1>21. res # tx
  BY <1>15
<1> QED BY <1>21, <1>22 DEF res

LEMMA FollowsItself ==
    ASSUME NEW tx, Sound(tx)
    PROVE  Follows(tx, tx)
<1>1. tx \in Tx
  BY DEF Sound
<1>2. /\ Surplus(tx) \in Int /\ OpenSwaps(tx) \in Nat
      /\ tx.ids \in [Leg -> [Account -> Seq(SwapId)]]
  BY <1>1, TxFields
<1>3. \A leg \in Leg, a \in Account : Len(tx.ids[leg][a]) <= Len(tx.ids[leg][a])
  <2>1. \A leg \in Leg, a \in Account : Len(tx.ids[leg][a]) \in Nat
    BY <1>2
  <2> QED BY <2>1
<1>4. Within(Surplus(tx) - Surplus(tx), Unit * (OpenSwaps(tx) - OpenSwaps(tx)))
  <2>1. OpenSwaps(tx) - OpenSwaps(tx) = 0 /\ Surplus(tx) - Surplus(tx) = 0
    BY <1>2
  <2>2. Unit * 0 = 0
    BY VaultAssumption
  <2> QED BY <2>1, <2>2 DEF Within
<1>5. SameContracts(tx.vault, tx.vault)
  BY DEF SameContracts
<1>6. Margin(tx) <= Margin(tx)
  BY <1>1, MarginType
<1> QED BY <1>3, <1>4, <1>5, <1>6, Zenon DEF Follows

LEMMA FollowsTransitive ==
    ASSUME NEW tx, NEW q, NEW r, Sound(tx), Follows(tx, q), Follows(q, r)
    PROVE  Follows(tx, r)
<1>1. tx \in Tx /\ q \in Tx /\ r \in Tx /\ Sound(r)
  BY DEF Sound, Follows
<1>2. /\ Surplus(tx) \in Int /\ OpenSwaps(tx) \in Nat
      /\ Surplus(q) \in Int /\ OpenSwaps(q) \in Nat
      /\ Surplus(r) \in Int /\ OpenSwaps(r) \in Nat
      /\ tx.ids \in [Leg -> [Account -> Seq(SwapId)]]
      /\ q.ids \in [Leg -> [Account -> Seq(SwapId)]]
      /\ r.ids \in [Leg -> [Account -> Seq(SwapId)]]
  BY <1>1, TxFields
<1>3. SameContracts(tx.vault, r.vault)
  BY SameContractsTransitive DEF Follows
<1>4. \A leg \in Leg : ActiveOf(r.swaps[leg]) \subseteq ActiveOf(tx.swaps[leg])
  BY DEF Follows
<1>5. \A leg \in Leg, a \in Account : Len(r.ids[leg][a]) <= Len(tx.ids[leg][a])
  <2> SUFFICES ASSUME NEW leg \in Leg, NEW a \in Account
               PROVE  Len(r.ids[leg][a]) <= Len(tx.ids[leg][a])
    OBVIOUS
  <2>1. /\ Len(r.ids[leg][a]) \in Nat /\ Len(q.ids[leg][a]) \in Nat
        /\ Len(tx.ids[leg][a]) \in Nat
    BY <1>2
  <2>2. Len(r.ids[leg][a]) <= Len(q.ids[leg][a]) /\ Len(q.ids[leg][a]) <= Len(tx.ids[leg][a])
    BY Zenon DEF Follows
  <2>3. \A i, j, k \in Nat : i <= j /\ j <= k => i <= k
    OBVIOUS
  <2> QED BY <2>1, <2>2, <2>3, Zenon
<1>6. r = tx \/ OpenSwaps(r) < OpenSwaps(tx)
  <2>1. q = tx \/ OpenSwaps(q) < OpenSwaps(tx)
    BY DEF Follows
  <2>2. r = q \/ OpenSwaps(r) < OpenSwaps(q)
    BY DEF Follows
  <2> QED BY <2>1, <2>2, <1>2
<1>7. Apart(tx.vault) /\ Covered(tx) => Covered(r)
  <2>1. Apart(tx.vault) => Apart(q.vault)
    BY DEF Follows, SameContracts, Apart
  <2> QED BY <2>1 DEF Follows
<1>8. Within(Surplus(r) - Surplus(tx), Unit * (OpenSwaps(tx) - OpenSwaps(r)))
  <2> DEFINE m == OpenSwaps(tx) - OpenSwaps(q)
             n == OpenSwaps(q) - OpenSwaps(r)
             x == Surplus(q) - Surplus(tx)
             y == Surplus(r) - Surplus(q)
  <2>1. Within(x, Unit * m) /\ Within(y, Unit * n)
    BY DEF Follows
  <2>2. m \in Int /\ n \in Int /\ x \in Int /\ y \in Int
        /\ OpenSwaps(tx) - OpenSwaps(r) = m + n
        /\ Surplus(r) - Surplus(tx) = x + y
    BY <1>2
  <2> HIDE DEF m, n, x, y
  <2>3. Unit * m + Unit * n = Unit * (m + n) /\ Unit * m \in Int /\ Unit * n \in Int
    BY <2>2, VaultAssumption
  <2>4. Within(x + y, Unit * m + Unit * n)
    BY <2>1, <2>2, <2>3, WithinSum
  <2> QED BY <2>1, <2>2, <2>3, <2>4
<1>9. Margin(tx) <= Margin(r)
  <2>1. Margin(tx) <= Margin(q) /\ Margin(q) <= Margin(r)
    BY DEF Follows
  <2>2. Margin(tx) \in Int /\ Margin(q) \in Int /\ Margin(r) \in Int
    BY <1>1, MarginType
  <2> QED BY <2>1, <2>2
<1> QED BY <1>1, <1>3, <1>4, <1>5, <1>6, <1>7, <1>8, <1>9 DEF Follows

-----------------------------------------------------------------------------
(* Closing a list of swaps of a leg.  The fold of CloseLegTx is a function on
   the sets of places of the list, of which the last is always taken last. *)
CloseNext(acc, leg, id, sender, price, t, r) ==
    IF acc.ok /\ IsActive(acc.swaps[leg], id)
    THEN CloseSwapTx(acc, leg, id, sender, price, t, r) ELSE acc

ClosedAfter(tx, leg, list, sender, price, t, r, g, s) ==
    IF s = {} THEN tx
    ELSE CloseNext(g[s \ {Max(s)}], leg, list[Max(s)], sender, price, t, r)

IsClosing(tx, leg, list, sender, price, t, r, g) ==
    g = [s \in SUBSET DOMAIN list |-> ClosedAfter(tx, leg, list, sender, price, t, r, g, s)]

LEMMA ClosingChosen ==
    ASSUME NEW tx, NEW leg, NEW list, NEW sender, NEW price, NEW t, NEW r
    PROVE  CloseLegTx(tx, leg, list, sender, price, t, r) =
              (CHOOSE g : IsClosing(tx, leg, list, sender, price, t, r, g))[DOMAIN list]
  BY Zenon DEF CloseLegTx, FoldLeft, MapThenFoldSet, IsClosing, ClosedAfter, CloseNext

LEMMA LastPlace ==
    ASSUME NEW n \in Nat, NEW s \in SUBSET (1..n), s # {}
    PROVE  Max(s) \in s
<1> DEFINE D == {n - x : x \in s}
<1>1. D \in SUBSET Nat /\ D # {}
  <2>1. \A x \in s : n - x \in Nat
    OBVIOUS
  <2>2. PICK x \in s : TRUE
    OBVIOUS
  <2>3. n - x \in D
    OBVIOUS
  <2> QED BY <2>1, <2>3
<1> HIDE DEF D
<1>2. PICK d \in D : \A m \in D : d <= m
  BY <1>1, LeastNatural
<1>3. PICK x \in s : d = n - x
  BY <1>2 DEF D
<1>4. \A y \in s : x >= y
  <2> TAKE y \in s
  <2>1. n - y \in D
    BY DEF D
  <2>2. n - x <= n - y
    BY <2>1, <1>2, <1>3
  <2>3. x \in Int /\ y \in Int
    BY <1>3
  <2> QED BY <2>2, <2>3
<1> QED BY <1>4 DEF Max

(* Such a function exists: it is built up by the size of the subsets. *)
LEMMA ClosingExists ==
    ASSUME NEW tx, NEW leg, NEW list \in Seq(SwapId), NEW sender, NEW price, NEW t, NEW r
    PROVE  \E g : IsClosing(tx, leg, list, sender, price, t, r, g)
<1> DEFINE S == DOMAIN list
           Step(g, s)   == ClosedAfter(tx, leg, list, sender, price, t, r, g, s)
           Small(n)     == {s \in SUBSET S : Cardinality(s) <= n}
           IsPart(g, n) == g = [s \in Small(n) |-> Step(g, s)]
           N == Cardinality(S)
           Good == {n \in 0..N : \E g : IsPart(g, n)}
<1>1. S = 1..Len(list) /\ Len(list) \in Nat
  OBVIOUS
<1>2. IsFiniteSet(S) /\ N \in Nat
  BY <1>1, FS_Interval, FS_CardinalityType
<1>3. \A s \in SUBSET S : IsFiniteSet(s) /\ Cardinality(s) \in Nat /\ Cardinality(s) <= N
  BY <1>2, FS_Subset, FS_CardinalityType
<1> HIDE DEF N
<1>4. ASSUME NEW s \in SUBSET S, s # {}
      PROVE  /\ s \ {Max(s)} \in SUBSET S
             /\ Cardinality(s \ {Max(s)}) = Cardinality(s) - 1
  <2>1. Max(s) \in s
    BY <1>1, <1>4, LastPlace
  <2> QED BY <2>1, <1>3, FS_RemoveElement
<1>5. \A s \in SUBSET S : Cardinality(s) = 0 => s = {}
  BY <1>3, FS_EmptySet
<1> HIDE DEF S
<1>6. 0 \in Good
  <2> DEFINE g == [s \in Small(0) |-> tx]
  <2>1. \A s \in Small(0) : Step(g, s) = tx
    BY <1>3, <1>5 DEF ClosedAfter
  <2>2. IsPart(g, 0)
    <3> HIDE DEF Step, Small
    <3> QED BY <2>1, Zenon
  <2>3. \E h : IsPart(h, 0)
    <3> HIDE DEF IsPart, g
    <3> QED BY <2>2
  <2> HIDE DEF IsPart
  <2> QED BY <2>3, <1>2
<1>7. ASSUME NEW n \in 0..(N - 1), n \in Good PROVE n + 1 \in Good
  <2>1. PICK g : IsPart(g, n)
    BY <1>7
  <2> DEFINE h == [s \in Small(n + 1) |-> Step(g, s)]
  <2>2. \A s \in Small(n) : s \in Small(n + 1) /\ g[s] = Step(g, s)
    <3>1. \A s \in Small(n) : s \in Small(n + 1)
      BY <1>3
    <3> HIDE DEF Small, Step
    <3> QED BY <2>1, <3>1, Zenon
  <2>3. \A s \in Small(n) : h[s] = g[s]
    <3> HIDE DEF Small, Step
    <3> QED BY <2>2
  <2>4. ASSUME NEW s \in Small(n + 1), s # {}
        PROVE  s \ {Max(s)} \in Small(n)
    BY <1>3, <1>4, <2>4
  <2>5. \A s \in Small(n + 1) : Step(h, s) = Step(g, s)
    <3> HIDE DEF h, Small
    <3> QED BY <2>3, <2>4, Zenon DEF ClosedAfter
  <2>6. IsPart(h, n + 1)
    <3> HIDE DEF Small, Step
    <3> QED BY <2>5, Zenon
  <2>7. \E k : IsPart(k, n + 1)
    <3> HIDE DEF IsPart, h
    <3> QED BY <2>6
  <2> HIDE DEF IsPart
  <2> QED BY <2>7, <1>2
<1>8. N \in Good
  <2> HIDE DEF Good
  <2>1. \A i \in 0..N : i \in Good
    BY <1>2, <1>6, <1>7, UpTo
  <2> QED BY <2>1, <1>2
<1>9. Small(N) = SUBSET S
  BY <1>3
<1> QED BY <1>8, <1>9, Zenon DEF IsClosing, S

LEMMA ClosingFunction ==
    ASSUME NEW tx, NEW leg, NEW list \in Seq(SwapId), NEW sender, NEW price, NEW t, NEW r
    PROVE  \E g : /\ IsClosing(tx, leg, list, sender, price, t, r, g)
                  /\ CloseLegTx(tx, leg, list, sender, price, t, r) = g[DOMAIN list]
<1>1. \E g : IsClosing(tx, leg, list, sender, price, t, r, g)
  BY ClosingExists
<1> DEFINE G == CHOOSE g : IsClosing(tx, leg, list, sender, price, t, r, g)
<1>2. IsClosing(tx, leg, list, sender, price, t, r, G)
  BY <1>1, Zenon
<1>3. CloseLegTx(tx, leg, list, sender, price, t, r) = G[DOMAIN list]
  BY ClosingChosen
<1> HIDE DEF G
<1> QED BY <1>2, <1>3

(* What holds before the call and is kept by each swap that is closed holds
   for all of them: the books end up as after closing the swaps one by one. *)
LEMMA CloseLegFollows ==
    ASSUME NEW tx, Sound(tx), NEW leg \in Leg, NEW list \in Seq(SwapId),
           NEW sender, NEW price \in Nat, NEW t \in UInt32, NEW r \in Int,
           CloseLegTx(tx, leg, list, sender, price, t, r).ok
    PROVE  Follows(tx, CloseLegTx(tx, leg, list, sender, price, t, r))
<1> DEFINE S == DOMAIN list
<1>1. S = 1..Len(list) /\ Len(list) \in Nat
  OBVIOUS
<1>2. IsFiniteSet(S)
  BY <1>1, FS_Interval
<1>3. PICK g : /\ IsClosing(tx, leg, list, sender, price, t, r, g)
               /\ CloseLegTx(tx, leg, list, sender, price, t, r) = g[S]
  BY ClosingFunction
<1> DEFINE Good == {s \in SUBSET S : g[s].ok => Follows(tx, g[s])}
<1>4. ASSUME NEW s \in SUBSET S, \A u \in SUBSET s : u # s => u \in Good
      PROVE  s \in Good
  <2>1. g[s] = ClosedAfter(tx, leg, list, sender, price, t, r, g, s)
    BY <1>3, Zenon DEF IsClosing
  <2>2. CASE s = {}
    <3>1. g[s] = tx
      BY <2>1, <2>2 DEF ClosedAfter
    <3>2. Follows(tx, g[s])
      BY <3>1, FollowsItself
    <3> QED BY <3>2
  <2>3. CASE s # {}
    <3> DEFINE m == Max(s)
               q == g[s \ {m}]
    <3>1. m \in s
      BY <1>1, <2>3, LastPlace
    <3>2. list[m] \in SwapId
      BY <3>1, <1>1
    <3>3. g[s] = CloseNext(q, leg, list[m], sender, price, t, r)
      BY <2>1, <2>3 DEF ClosedAfter
    <3>4. q.ok => Follows(tx, q)
      <4>1. s \ {m} \in SUBSET s /\ s \ {m} # s
        BY <3>1
      <4>2. s \ {m} \in Good
        BY <4>1, <1>4
      <4> QED BY <4>2
    <3> DEFINE id == list[m]
    <3>5. id \in SwapId /\ g[s] = CloseNext(q, leg, id, sender, price, t, r)
      BY <3>2, <3>3
    <3> HIDE DEF m, q, id
    <3> SUFFICES ASSUME g[s].ok PROVE Follows(tx, g[s])
      OBVIOUS
    <3>6. CASE q.ok /\ IsActive(q.swaps[leg], id)
      <4>1. g[s] = CloseSwapTx(q, leg, id, sender, price, t, r)
        BY <3>5, <3>6 DEF CloseNext
      <4>2. Sound(q) /\ Follows(tx, q)
        BY <3>4, <3>6 DEF Follows
      <4>3. CloseSwapTx(q, leg, id, sender, price, t, r).ok
        BY <4>1
      <4>4. Follows(q, CloseSwapTx(q, leg, id, sender, price, t, r))
        BY <3>5, <3>6, <4>2, <4>3, CloseSwapFollows
      <4> QED BY <4>1, <4>2, <4>4, FollowsTransitive
    <3>7. CASE ~(q.ok /\ IsActive(q.swaps[leg], id))
      <4>1. g[s] = q
        BY <3>5, <3>7 DEF CloseNext
      <4> QED BY <4>1, <3>4
    <3> QED BY <3>6, <3>7
  <2> QED BY <2>2, <2>3
<1> HIDE DEF Good, S
<1>5. \A s \in SUBSET S : s \in Good
  BY <1>2, <1>4, SubsetInduction
<1>6. g[S].ok => Follows(tx, g[S])
  BY <1>5 DEF Good
<1> QED BY <1>3, <1>6

(* After a part of the call has reverted nothing is closed. *)
LEMMA RevertedStays ==
    ASSUME NEW tx, NEW leg, NEW list \in Seq(SwapId),
           NEW sender, NEW price, NEW t, NEW r, ~tx.ok
    PROVE  CloseLegTx(tx, leg, list, sender, price, t, r) = tx
<1> DEFINE S == DOMAIN list
<1>1. S = 1..Len(list) /\ Len(list) \in Nat
  OBVIOUS
<1>2. IsFiniteSet(S)
  BY <1>1, FS_Interval
<1>3. PICK g : /\ IsClosing(tx, leg, list, sender, price, t, r, g)
               /\ CloseLegTx(tx, leg, list, sender, price, t, r) = g[S]
  BY ClosingFunction
<1> DEFINE Good == {s \in SUBSET S : g[s] = tx}
<1>4. ASSUME NEW s \in SUBSET S, \A u \in SUBSET s : u # s => u \in Good
      PROVE  s \in Good
  <2>1. g[s] = ClosedAfter(tx, leg, list, sender, price, t, r, g, s)
    BY <1>3, Zenon DEF IsClosing
  <2>2. CASE s = {}
    BY <2>1, <2>2 DEF ClosedAfter
  <2>3. CASE s # {}
    <3> DEFINE m == Max(s)
    <3>1. m \in s
      BY <1>1, <2>3, LastPlace
    <3>2. g[s] = CloseNext(g[s \ {m}], leg, list[m], sender, price, t, r)
      BY <2>1, <2>3 DEF ClosedAfter
    <3> HIDE DEF m
    <3>3. s \ {m} \in SUBSET s /\ s \ {m} # s
      BY <3>1
    <3>4. s \ {m} \in Good
      BY <3>3, <1>4
    <3>5. g[s \ {m}] = tx
      BY <3>4
    <3> QED BY <3>2, <3>5 DEF CloseNext
  <2> QED BY <2>2, <2>3
<1> HIDE DEF Good, S
<1>5. \A s \in SUBSET S : s \in Good
  BY <1>2, <1>4, SubsetInduction
<1>6. g[S] = tx
  BY <1>5 DEF Good
<1> QED BY <1>3, <1>6

(* The deposits are paid exactly. *)
LEMMA DepositsArePaid ==
    ASSUME NEW tx, Sound(tx), TransferLiquidationDeposit(tx).ok
    PROVE  LET r == TransferLiquidationDeposit(tx)
           IN  /\ Sound(r)
               /\ tx.ok
               /\ r.payout = 0
               /\ r.swaps = tx.swaps /\ r.ids = tx.ids
               /\ r.balances = tx.balances /\ r.vault = tx.vault /\ r.unowned = tx.unowned
               /\ Surplus(r) = Surplus(tx)
<1> DEFINE assets == ToAsset(tx.payout)
           p == Pay(tx, assets)
           r == TransferLiquidationDeposit(tx)
<1>1. tx \in Tx /\ tx.payout \in Nat /\ Whole(tx.payout) /\ Surplus(tx) \in Int
  <2>1. tx \in Tx /\ Whole(tx.payout)
    BY DEF Sound
  <2> QED BY <2>1, TxFields
<1>2. tx.ok /\ r = [p EXCEPT !.payout = 0]
  BY DEF TransferLiquidationDeposit
<1>3. assets \in Nat /\ ToWad(assets) = tx.payout
  BY <1>1, RoundingWithin, WholeRounded
<1> HIDE DEF r, assets
<1>4. p.ok
  <2>1. r.ok
    BY DEF r
  <2>2. CASE assets > tx.cash
    <3>1. p = Failed(tx)
      BY <2>2 DEF Pay
    <3>2. ~r.ok
      <4>1. r = [[tx EXCEPT !.ok = FALSE] EXCEPT !.payout = 0]
        BY <3>1, <1>2 DEF Failed
      <4> QED BY <4>1, <1>1 DEF Tx
    <3> QED BY <2>1, <3>2
  <2>3. CASE ~(assets > tx.cash)
    <3>1. p = [tx EXCEPT !.cash = @ - assets]
      BY <2>3 DEF Pay
    <3> QED BY <3>1, <1>1, <1>2 DEF Tx
  <2> QED BY <2>2, <2>3
<1>5. /\ Sound(p)
      /\ p.swaps = tx.swaps /\ p.ids = tx.ids /\ p.payout = tx.payout
      /\ p.balances = tx.balances /\ p.vault = tx.vault /\ p.unowned = tx.unowned
      /\ Surplus(p) = Surplus(tx) - tx.payout
  BY <1>3, <1>4, PayTakes
<1> HIDE DEF p
<1>6. /\ Sound(r)
      /\ r.payout = 0
      /\ r.swaps = p.swaps /\ r.ids = p.ids
      /\ r.balances = p.balances /\ r.vault = p.vault /\ r.unowned = p.unowned
      /\ Surplus(r) = (Surplus(p) + p.payout) - 0
  BY <1>2, <1>5, WholeZero, PromiseOwes
<1>7. Surplus(r) = Surplus(tx)
  BY <1>1, <1>5, <1>6
<1> QED BY <1>2, <1>5, <1>6, <1>7 DEF r

-----------------------------------------------------------------------------
(* Steps of the whole *)

(* What is not part of the books of a transaction. *)
RestTypeOK ==
    /\ lastSwapId \in UInt32
    /\ contribution \in [Account -> UInt128]
    /\ milton \in Contract \cup {NoAddress}
    /\ joseph \in Contract \cup {NoAddress}
    /\ paused \in BOOLEAN
    /\ ipTokens \in [Account -> Nat]
    /\ ratio \in Ratios
    /\ pausedContracts \subseteq {"Milton", "Joseph"}
    /\ ibtPrice \in IbtPrices
    /\ now \in 0..MaxTime
    /\ hidden \in Nat

LEMMA FieldsOfNewTx ==
    /\ NewTx.ok = TRUE /\ NewTx.payout = 0
    /\ NewTx.swaps = swaps /\ NewTx.ids = ids /\ NewTx.balances = balances
    /\ NewTx.soap = soap /\ NewTx.cash = cash /\ NewTx.vault = vault
    /\ NewTx.unowned = unowned
  BY DEF NewTx

LEMMA TypesOfState == RestTypeOK /\ Sound(NewTx) => TypeOK
<1> SUFFICES ASSUME RestTypeOK, Sound(NewTx) PROVE TypeOK
  OBVIOUS
<1>1. NewTx \in Tx
  BY DEF Sound
<1>2. /\ swaps \in [Leg -> [SwapId -> Swap]]
      /\ ids \in [Leg -> [Account -> Seq(SwapId)]]
      /\ balances \in Balances
      /\ soap \in [Leg -> SoapOfLegType]
      /\ cash \in Nat
      /\ vault \in Vault /\ unowned \in Nat
  BY <1>1, TxFields, FieldsOfNewTx
<1> QED BY <1>2 DEF RestTypeOK, TypeOK, StorageTypeOK, SoapOfLegType

(* Ids above the counter name no open swap, and no list of ids is longer than
   the counter: opening overwrites nothing and the place fits in its type. *)
GivenOut ==
    /\ \A leg \in Leg : \A id \in ActiveOf(swaps[leg]) : id <= lastSwapId
    /\ \A leg \in Leg, a \in Account : Len(ids[leg][a]) <= lastSwapId

BookInv == RestTypeOK /\ Sound(NewTx) /\ GivenOut /\ ReplacedAreLeft(vault)

(* As Follows, for steps that may change the books without closing a swap. *)
Kept(tx, r) ==
    /\ Sound(r)
    /\ SameContracts(tx.vault, r.vault)
    /\ \A leg \in Leg : ActiveOf(r.swaps[leg]) \subseteq ActiveOf(tx.swaps[leg])
    /\ \A leg \in Leg, a \in Account : Len(r.ids[leg][a]) <= Len(tx.ids[leg][a])
    /\ Apart(tx.vault) /\ Covered(tx) => Covered(r)
    /\ Within(Surplus(r) - Surplus(tx), Unit * (OpenSwaps(tx) - OpenSwaps(r)))

(* The pool stays, but for roundings, unless swaps, ipTokens or the time change. *)
PoolKept == UNCHANGED <<swaps, ipTokens, now>> => SamePool(NewTx, NewTx')

(* What checks of the pool's size overlooked makes up for what is missing. *)
MarginOK == 0 <= Margin(NewTx) + hidden

CoverKept == Apart(vault) /\ Covered(NewTx) /\ MarginOK => MarginOK'

KeptStep ==
    Kept(NewTx, NewTx') /\ RestTypeOK' /\ UNCHANGED lastSwapId /\ PoolKept /\ CoverKept

LEMMA StateOfTx ==
    ASSUME NEW r, r \in Tx, r.payout = 0, r.ok,
           swaps' = r.swaps, ids' = r.ids, balances' = r.balances, soap' = r.soap,
           cash' = r.cash, vault' = r.vault, unowned' = r.unowned
    PROVE  NewTx' = r
<1>1. r = [ok |-> r.ok, swaps |-> r.swaps, ids |-> r.ids, balances |-> r.balances,
           soap |-> r.soap, cash |-> r.cash, vault |-> r.vault, payout |-> r.payout,
           unowned |-> r.unowned]
  BY DEF Tx
<1>2. r.ok = TRUE
  BY DEF Tx
<1>3. NewTx' = [ok |-> TRUE, swaps |-> swaps', ids |-> ids', balances |-> balances',
                soap |-> soap', cash |-> cash', vault |-> vault', payout |-> 0,
                unowned |-> unowned']
  BY DEF NewTx
<1> QED BY <1>1, <1>2, <1>3

LEMMA CommittedTx ==
    ASSUME NEW r, r \in Tx, r.payout = 0, Commit(r)
    PROVE  NewTx' = r
  BY StateOfTx DEF Commit

(* Steps that leave the swaps alone. *)
LEMMA SameSwapsIsKept ==
    ASSUME NEW tx, NEW r, Sound(tx), Sound(r), r.swaps = tx.swaps, r.ids = tx.ids,
           SameContracts(tx.vault, r.vault),
           Apart(tx.vault) /\ Covered(tx) => Covered(r), Surplus(r) = Surplus(tx)
    PROVE  Kept(tx, r)
<1>1. tx \in Tx /\ r \in Tx
  BY DEF Sound
<1>2. Surplus(tx) \in Int /\ OpenSwaps(tx) \in Nat /\ tx.ids \in [Leg -> [Account -> Seq(SwapId)]]
  BY <1>1, TxFields
<1>3. OpenSwaps(r) = OpenSwaps(tx)
  BY DEF OpenSwaps
<1>4. Within(0, Unit * (OpenSwaps(tx) - OpenSwaps(r)))
  <2>1. OpenSwaps(tx) - OpenSwaps(r) = 0 /\ Unit * 0 = 0
    BY <1>2, <1>3, VaultAssumption
  <2> QED BY <2>1 DEF Within
<1>5. \A leg \in Leg, a \in Account : Len(r.ids[leg][a]) <= Len(tx.ids[leg][a])
  <2>1. \A leg \in Leg, a \in Account : Len(tx.ids[leg][a]) \in Nat
    BY <1>2
  <2> QED BY <2>1
<1>6. Within(Surplus(r) - Surplus(tx), Unit * (OpenSwaps(tx) - OpenSwaps(r)))
  <2>1. Surplus(r) - Surplus(tx) = 0
    BY <1>2
  <2> QED BY <2>1, <1>4
<1>7. \A leg \in Leg : ActiveOf(r.swaps[leg]) \subseteq ActiveOf(tx.swaps[leg])
  OBVIOUS
<1> QED BY <1>5, <1>6, <1>7, Zenon DEF Kept

LEMMA MovedIsKept ==
    ASSUME NEW tx, NEW r, Sound(tx), Moved(tx, r)
    PROVE  /\ Kept(tx, r)
           /\ SamePool(tx, r)
           /\ Margin(tx) <= Margin(r)
           /\ r.payout = tx.payout
<1>1. /\ Sound(r) /\ r.swaps = tx.swaps /\ r.ids = tx.ids /\ r.payout = tx.payout
      /\ SameContracts(tx.vault, r.vault)
      /\ Apart(tx.vault) => Covered(r)
      /\ Surplus(r) = Surplus(tx)
      /\ SamePool(tx, r)
  BY DEF Moved
<1>2. Kept(tx, r)
  BY <1>1, SameSwapsIsKept
<1>3. Margin(tx) <= Margin(r)
  BY <1>1, SamePoolKeepsMargin DEF Sound
<1> QED BY <1>1, <1>2, <1>3

LEMMA ClosedIsKept ==
    ASSUME NEW tx, NEW q, Sound(tx), Follows(tx, q), TransferLiquidationDeposit(q).ok
    PROVE  LET r == TransferLiquidationDeposit(q)
           IN  /\ Kept(tx, r)
               /\ r.payout = 0
               /\ r.swaps = tx.swaps => SamePool(tx, r)
               /\ Margin(tx) <= Margin(r)
<1> DEFINE r == TransferLiquidationDeposit(q)
<1>1. Sound(q) /\ tx \in Tx
  BY DEF Follows, Sound
<1>2. /\ Sound(r) /\ r.payout = 0
      /\ r.swaps = q.swaps /\ r.ids = q.ids
      /\ r.balances = q.balances /\ r.vault = q.vault /\ r.unowned = q.unowned
      /\ Surplus(r) = Surplus(q)
  BY <1>1, DepositsArePaid
<1> HIDE DEF r
<1>3. OpenSwaps(r) = OpenSwaps(q) /\ PoolOf(r) = PoolOf(q) /\ (Covered(r) <=> Covered(q))
  BY <1>2 DEF OpenSwaps, PoolOf, Covered
<1>4. Within(Surplus(r) - Surplus(tx), Unit * (OpenSwaps(tx) - OpenSwaps(r)))
  BY <1>2, <1>3, Zenon DEF Follows
<1>5. Apart(tx.vault) /\ Covered(tx) => Covered(r)
  BY <1>3 DEF Follows
<1>6. Kept(tx, r)
  BY <1>2, <1>4, <1>5, Zenon DEF Follows, Kept
<1>7. ASSUME r.swaps = tx.swaps PROVE SamePool(tx, r)
  <2>1. OpenSwaps(q) = OpenSwaps(tx)
    BY <1>2, <1>7 DEF OpenSwaps
  <2>2. OpenSwaps(tx) \in Nat
    BY <1>1, TxFields
  <2>3. q = tx
    BY <2>1, <2>2 DEF Follows
  <2> QED BY <2>3, <1>1, <1>2, SamePoolItself
<1>8. Margin(tx) <= Margin(r)
  <2>1. Margin(r) = Margin(q)
    BY <1>2, <1>3 DEF Margin
  <2>2. Margin(tx) <= Margin(q)
    BY DEF Follows
  <2> QED BY <2>1, <2>2
<1> QED BY <1>2, <1>6, <1>7, <1>8 DEF r

LEMMA RevertsTogether == \A q : TransferLiquidationDeposit(q).ok => q.ok
  BY DEF TransferLiquidationDeposit

(* What the parts of the state give the lemmas on transactions. *)
LEMMA StateNumbers ==
    ASSUME BookInv
    PROVE  /\ Sound(NewTx) /\ NewTx \in Tx /\ VaultOK(vault) /\ vault \in Vault
           /\ ibtPrice \in Nat /\ now \in UInt32 /\ ratio \in Int
           /\ cash \in Nat /\ ToWad(cash) \in Int /\ balances \in Balances
           /\ unowned \in Nat /\ hidden \in Nat
           /\ RestTypeOK
<1>1. /\ Sound(NewTx) /\ RestTypeOK /\ NewTx \in Tx /\ VaultOK(vault)
  BY FieldsOfNewTx DEF BookInv, Sound
<1>2. ibtPrice \in Nat
  BY <1>1, AmmAssumption DEF RestTypeOK
<1>3. now \in UInt32
  <2>1. now \in 0..MaxTime /\ MaxTime \in 0..MAX_UINT32 /\ MAX_UINT32 \in Nat
    BY <1>1, AmmAssumption, StorageAssumption DEF RestTypeOK, UInt32
  <2> QED BY <2>1 DEF UInt32
<1>4. ratio \in Int
  BY <1>1, AmmAssumption, D18Assumption DEF RestTypeOK
<1>5. /\ vault \in Vault /\ cash \in Nat /\ ToWad(cash) \in Int /\ balances \in Balances
      /\ unowned \in Nat /\ hidden \in Nat
  BY <1>1, TxFields, FieldsOfNewTx DEF RestTypeOK
<1> QED BY <1>1, <1>2, <1>3, <1>4, <1>5

(* The rest is left as it is. *)
RestUnchanged ==
    UNCHANGED <<lastSwapId, contribution, accessVars, ipTokens, ratio, marketVars, hidden>>

LEMMA RestStays ==
    ASSUME BookInv, RestUnchanged
    PROVE  RestTypeOK' /\ UNCHANGED lastSwapId
  BY DEF BookInv, RestUnchanged, RestTypeOK, accessVars, marketVars

(* Nothing was overlooked in the step. *)
LEMMA MarginCovers ==
    ASSUME BookInv, NEW g, g = NewTx', Sound(g), Margin(NewTx) <= Margin(g), UNCHANGED hidden
    PROVE  CoverKept
<1>1. Margin(NewTx) \in Int /\ Margin(g) \in Int /\ hidden \in Nat
  BY StateNumbers, MarginType DEF Sound
<1>2. Margin(g) = Margin(NewTx)'
  OBVIOUS
<1> QED BY <1>1, <1>2 DEF CoverKept, MarginOK

LEMMA CommitKeeps ==
    ASSUME BookInv, NEW r, Commit(r), Kept(NewTx, r), r.payout = 0, RestUnchanged,
           r.swaps = swaps => SamePool(NewTx, r),
           Margin(NewTx) <= Margin(r)
    PROVE  KeptStep
<1>1. r \in Tx /\ Sound(r)
  BY DEF Kept, Sound
<1>2. NewTx' = r
  BY <1>1, CommittedTx
<1>3. swaps' = r.swaps
  BY DEF Commit
<1>4. PoolKept
  BY <1>2, <1>3 DEF PoolKept
<1>5. RestTypeOK' /\ UNCHANGED lastSwapId
  BY RestStays
<1>6. CoverKept
  BY <1>1, <1>2, MarginCovers DEF RestUnchanged
<1> QED BY <1>2, <1>4, <1>5, <1>6 DEF KeptStep

LEMMA CloseCommits ==
    ASSUME BookInv, NEW q, q.ok => Follows(NewTx, q), Commit(TransferLiquidationDeposit(q)),
           RestUnchanged
    PROVE  KeptStep
<1> DEFINE r == TransferLiquidationDeposit(q)
<1>1. r.ok
  BY DEF Commit
<1>2. Follows(NewTx, q)
  BY <1>1, RevertsTogether
<1>3. /\ Kept(NewTx, r)
      /\ r.payout = 0
      /\ r.swaps = NewTx.swaps => SamePool(NewTx, r)
      /\ Margin(NewTx) <= Margin(r)
  BY <1>1, <1>2, StateNumbers, ClosedIsKept
<1>4. Commit(r)
  OBVIOUS
<1> HIDE DEF r
<1>5. r.swaps = swaps => SamePool(NewTx, r)
  BY <1>3, FieldsOfNewTx
<1> QED BY <1>3, <1>4, <1>5, CommitKeeps

LEMMA CloseOneKeeps ==
    ASSUME BookInv, NEW leg \in Leg, NEW id \in SwapId, NEW sender, CloseOne(leg, id, sender)
    PROVE  KeptStep
<1> DEFINE q == CloseSwapTx(NewTx, leg, id, sender, ibtPrice, now, ratio)
<1>1. /\ IsActive(swaps[leg], id)
      /\ Commit(TransferLiquidationDeposit(q))
      /\ RestUnchanged
  BY DEF CloseOne, RestUnchanged
<1>2. q.ok => Follows(NewTx, q)
  <2>1. IsActive(NewTx.swaps[leg], id)
    BY <1>1, FieldsOfNewTx
  <2> QED BY <2>1, StateNumbers, CloseSwapFollows
<1> HIDE DEF q
<1> QED BY <1>1, <1>2, CloseCommits

LEMMA CloseManyKeeps ==
    ASSUME BookInv, CloseSwaps \/ EmergencyCloseSwaps
    PROVE  KeptStep
<1>1. LegSequences \subseteq Seq(SwapId) /\ PayFixed \in Leg /\ ReceiveFixed \in Leg
  BY AmmAssumption DEF Leg
<1>2. CASE CloseSwaps
  <2>1. RestUnchanged
    BY <1>2 DEF CloseSwaps, RestUnchanged
  <2>2. PICK p \in LegSequences, c \in LegSequences, sender \in Account \cup {Owner} :
           Commit(TransferLiquidationDeposit(
              CloseLegTx(CloseLegTx(NewTx, PayFixed, p, sender, ibtPrice, now, ratio),
                         ReceiveFixed, c, sender, ibtPrice, now, ratio)))
    BY <1>2 DEF CloseSwaps
  <2> DEFINE first  == CloseLegTx(NewTx, PayFixed, p, sender, ibtPrice, now, ratio)
             second == CloseLegTx(first, ReceiveFixed, c, sender, ibtPrice, now, ratio)
  <2>3. first.ok => Follows(NewTx, first)
    BY <1>1, StateNumbers, CloseLegFollows
  <2>4. second.ok => first.ok
    <3> HIDE DEF first
    <3>1. ~first.ok => second = first
      BY <1>1, RevertedStays
    <3> QED BY <3>1
  <2>5. second.ok => Follows(first, second)
    <3> SUFFICES ASSUME second.ok PROVE Follows(first, second)
      OBVIOUS
    <3>1. Sound(first)
      BY <2>3, <2>4 DEF Follows
    <3> HIDE DEF first
    <3> QED BY <3>1, <1>1, StateNumbers, CloseLegFollows
  <2>6. Commit(TransferLiquidationDeposit(second))
    BY <2>2
  <2> HIDE DEF first, second
  <2>7. second.ok => Follows(NewTx, second)
    BY <2>3, <2>4, <2>5, StateNumbers, FollowsTransitive
  <2> QED BY <2>1, <2>6, <2>7, CloseCommits
<1>3. CASE EmergencyCloseSwaps
  <2>1. RestUnchanged
    BY <1>3 DEF EmergencyCloseSwaps, RestUnchanged
  <2>2. PICK leg \in Leg, list \in LegSequences :
           Commit(TransferLiquidationDeposit(
              CloseLegTx(NewTx, leg, list, Owner, ibtPrice, now, ratio)))
    BY <1>3 DEF EmergencyCloseSwaps
  <2> DEFINE q == CloseLegTx(NewTx, leg, list, Owner, ibtPrice, now, ratio)
  <2>3. q.ok => Follows(NewTx, q)
    BY <1>1, StateNumbers, CloseLegFollows
  <2>4. Commit(TransferLiquidationDeposit(q))
    BY <2>2
  <2> HIDE DEF q
  <2> QED BY <2>1, <2>3, <2>4, CloseCommits
<1> QED BY <1>2, <1>3

LEMMA MoveToKeeps ==
    ASSUME BookInv, NEW amount \in Int, MoveToStanley(amount)
    PROVE  KeptStep
<1> DEFINE r == DepositToStanleyTx(NewTx, amount)
<1>1. Commit(r) /\ RestUnchanged
  BY DEF MoveToStanley, RestUnchanged
<1>2. Moved(NewTx, r)
  <2>1. r.ok
    BY <1>1 DEF Commit
  <2> QED BY <2>1, StateNumbers, DepositTxMoves
<1> HIDE DEF r
<1>3. /\ Kept(NewTx, r)
      /\ SamePool(NewTx, r)
      /\ Margin(NewTx) <= Margin(r)
      /\ r.payout = NewTx.payout
  BY <1>2, StateNumbers, MovedIsKept
<1> QED BY <1>1, <1>3, FieldsOfNewTx, CommitKeeps

LEMMA MoveFromKeeps ==
    ASSUME BookInv, NEW result, result.ok => PaidOut(vault, result), MoveFromStanley(result)
    PROVE  KeptStep
<1> DEFINE r == WithdrawFromStanleyTx(NewTx, result)
<1>1. Commit(r) /\ RestUnchanged
  BY DEF MoveFromStanley, RestUnchanged
<1>2. Moved(NewTx, r)
  <2>1. r.ok
    BY <1>1 DEF Commit
  <2>2. result.ok => PaidOut(NewTx.vault, result)
    BY FieldsOfNewTx
  <2> QED BY <2>1, <2>2, StateNumbers, WithdrawTxMoves
<1> HIDE DEF r
<1>3. /\ Kept(NewTx, r)
      /\ SamePool(NewTx, r)
      /\ Margin(NewTx) <= Margin(r)
      /\ r.payout = NewTx.payout
  BY <1>2, StateNumbers, MovedIsKept
<1> QED BY <1>1, <1>3, FieldsOfNewTx, CommitKeeps

(* Joseph's moves, by hand and by the ratio. *)
LEMMA MovesKeep ==
    ASSUME BookInv, DepositToStanley \/ WithdrawFromStanley \/ WithdrawAllFromStanley \/ Rebalance
    PROVE  KeptStep
<1>1. MoveAmounts \subseteq Nat
  BY AmmAssumption
<1>2. VaultOK(vault) /\ vault \in Vault /\ ratio \in Int /\ ToWad(cash) \in Int
  BY StateNumbers
<1>3. ASSUME NEW amount \in Int
      PROVE  Withdraw(vault, amount).ok => PaidOut(vault, Withdraw(vault, amount))
  BY <1>2, WithdrawPays
<1>4. CASE DepositToStanley
  BY <1>1, <1>4, MoveToKeeps DEF DepositToStanley
<1>5. CASE WithdrawFromStanley
  <2>1. PICK amount \in MoveAmounts : MoveFromStanley(Withdraw(vault, amount))
    BY <1>5 DEF WithdrawFromStanley
  <2>2. Withdraw(vault, amount).ok => PaidOut(vault, Withdraw(vault, amount))
    BY <1>1, <1>3
  <2> QED BY <2>1, <2>2, MoveFromKeeps
<1>6. CASE WithdrawAllFromStanley
  <2>1. WithdrawAll(vault).ok => PaidOut(vault, WithdrawAll(vault))
    BY <1>2, WithdrawAllPays
  <2> QED BY <2>1, <1>6, MoveFromKeeps DEF WithdrawAllFromStanley
<1>7. CASE Rebalance
  <2> DEFINE wadCash == ToWad(cash)
             total   == wadCash + TotalBalance(vault)
             target  == MiltonTarget(total, ratio)
  <2>1. target \in Int
    <3>1. TotalBalance(vault) \in Nat
      BY <1>2, NumbersOfRebalance
    <3>2. total \in Int
      BY <3>1, <1>2
    <3> HIDE DEF total
    <3>3. ratio * total \in Int
      BY <3>2, <1>2
    <3> QED BY <3>3, D18Assumption, DivisionType DEF MiltonTarget
  <2>2. wadCash - target \in Int /\ target - wadCash \in Int
    BY <2>1, <1>2
  <2>3. \/ MoveToStanley(wadCash - target)
        \/ MoveFromStanley(Withdraw(vault, target - wadCash))
    BY <1>7, Zenon DEF Rebalance
  <2> HIDE DEF wadCash, target
  <2>4. Withdraw(vault, target - wadCash).ok => PaidOut(vault, Withdraw(vault, target - wadCash))
    BY <2>2, <1>3
  <2> QED BY <2>2, <2>3, <2>4, MoveToKeeps, MoveFromKeeps
<1> QED BY <1>4, <1>5, <1>6, <1>7

(* The books of a step that leaves Stanley alone: another pool, and other
   amounts for the treasuries. *)
WithBooks(tx, b, cash2) == [tx EXCEPT !.balances = b, !.cash = cash2]

LEMMA BooksOfCash ==
    ASSUME NEW tx, Sound(tx), NEW b \in Balances, b.vault = tx.balances.vault,
           NEW cash2 \in Nat, NEW r, r = WithBooks(tx, b, cash2)
    PROVE  /\ Sound(r)
           /\ r.ok = tx.ok /\ r.payout = tx.payout /\ r.cash = cash2
           /\ r.swaps = tx.swaps /\ r.ids = tx.ids /\ r.soap = tx.soap /\ r.vault = tx.vault
           /\ r.balances = b /\ r.unowned = tx.unowned
           /\ Covered(r) <=> Covered(tx)
           /\ Surplus(r) = (Surplus(tx) + (ToWad(cash2) - ToWad(tx.cash)))
                           - (BookedClaims(b) - BookedClaims(tx.balances))
<1>1. tx \in Tx
  BY DEF Sound
<1>2. /\ r \in Tx
      /\ r.ok = tx.ok /\ r.payout = tx.payout /\ r.cash = cash2
      /\ r.swaps = tx.swaps /\ r.ids = tx.ids /\ r.soap = tx.soap /\ r.vault = tx.vault
      /\ r.balances = b /\ r.unowned = tx.unowned
  BY <1>1 DEF Tx, WithBooks
<1>3. Sound(r)
  BY <1>2 DEF Sound
<1>4. Covered(r) <=> Covered(tx)
  BY <1>2 DEF Covered
<1>5. /\ ToWad(tx.cash) \in Int /\ ToWad(cash2) \in Int
      /\ tx.balances.vault \in Nat /\ BookedClaims(tx.balances) \in Nat
      /\ BookedClaims(b) \in Nat
      /\ tx.payout \in Nat /\ tx.unowned \in Nat /\ DepositsIn(tx) \in Nat
  <2>1. tx.balances \in Balances /\ tx.cash \in Int /\ cash2 \in Int
    BY <1>1, TxFields
  <2>2. ToWad(tx.cash) \in Int /\ ToWad(cash2) \in Int
    BY <2>1, WholeToWad
  <2>3. tx.payout \in Nat /\ tx.unowned \in Nat /\ DepositsIn(tx) \in Nat
    BY <1>1, TxFields
  <2> QED BY <2>1, <2>2, <2>3, BalancesFields
<1>6. DepositsIn(r) = DepositsIn(tx)
  BY <1>2 DEF DepositsIn
<1>7. Surplus(r) = (Surplus(tx) + (ToWad(cash2) - ToWad(tx.cash)))
                   - (BookedClaims(b) - BookedClaims(tx.balances))
  BY <1>2, <1>5, <1>6 DEF Surplus
<1> QED BY <1>2, <1>3, <1>4, <1>7

LEMMA ToWadSum ==
    ASSUME NEW x \in Int, NEW y \in Int
    PROVE  ToWad(x + y) = ToWad(x) + ToWad(y) /\ ToWad(x - y) = ToWad(x) - ToWad(y)
  BY Regrouped, VaultAssumption DEF ToWad, ConvertToWad

LEMMA PositiveProduct == \A x, y \in Nat \ {0} : x * y \in Nat \ {0}
  BY SMT

(* The pool is worth what it is: the rate of the ipToken is a number. *)
LEMMA NumbersOfPool ==
    ASSUME BookInv
    PROVE  /\ TotalBalance(vault) \in Nat
           /\ AccruedPool \in Int /\ SoapNow \in Int /\ Supply \in Nat
           /\ AccruedPool - SoapNow >= 0 => PoolRate \in Nat
<1>1. /\ vault \in Vault /\ balances \in Balances /\ ibtPrice \in Nat /\ now \in Nat
      /\ RestTypeOK /\ NewTx \in Tx
  BY StateNumbers, StorageAssumption DEF UInt32
<1>2. TotalBalance(vault) \in Nat
  BY <1>1, NumbersOfRebalance
<1>3. AccruedPool \in Int
  BY <1>1, <1>2, BalancesFields DEF AccruedPool, AccruedLiquidityPool
<1>4. SoapNow \in Int
  <2>1. soap \in [Leg -> SoapOfLegType]
    BY <1>1, TxFields, FieldsOfNewTx
  <2>2. ASSUME NEW leg \in Leg
        PROVE  QuasiSoap(leg, soap[leg], now, ibtPrice) \in Int
    <3> DEFINE si == soap[leg]
    <3>1. /\ si.qhic \in Int /\ si.totalNotional \in Int /\ si.totalIbtQuantity \in Int
          /\ si.averageInterestRate \in Int /\ si.rebalanceTimestamp \in Int
      BY <2>1, StorageAssumption DEF SoapOfLegType, UInt128, UInt64, UInt32
    <3> HIDE DEF si
    <3>2. \A x, y \in Int : x * y \in Int /\ x - y \in Int /\ x + y \in Int
      BY SMT
    <3>3. /\ WAD_YEAR_IN_SECONDS \in Int /\ WAD_P2_YEAR_IN_SECONDS \in Int
          /\ D18 \in Int /\ now \in Int /\ ibtPrice \in Int
      BY <1>1, <3>2, WadYearPositive, D18Assumption, YearAssumption DEF WAD_P2_YEAR_IN_SECONDS
    <3>4. si.totalIbtQuantity * ibtPrice * WAD_YEAR_IN_SECONDS \in Int
      BY <3>1, <3>2, <3>3
    <3>5. si.totalNotional * si.averageInterestRate * (now - si.rebalanceTimestamp) * D18 \in Int
      BY <3>1, <3>2, <3>3
    <3>6. si.totalNotional * WAD_P2_YEAR_IN_SECONDS \in Int
      BY <3>1, <3>2, <3>3
    <3> HIDE DEF WAD_P2_YEAR_IN_SECONDS, WAD_YEAR_IN_SECONDS
    <3>7. QuasiSoap(leg, si, now, ibtPrice) \in Int
      BY <3>1, <3>2, <3>4, <3>5, <3>6
         DEF QuasiSoap, QuasiHypotheticalInterestTotal, QuasiHypotheticalInterestDelta
    <3> QED BY <3>7 DEF si
  <2>3. WAD_P2_YEAR_IN_SECONDS \in Nat \ {0}
    BY D18Assumption, YearAssumption, PositiveProduct DEF WAD_P2_YEAR_IN_SECONDS
  <2> DEFINE quasi == CalculateQuasiSoapOf(soap, ibtPrice, now)
  <2>4. quasi[PayFixed] \in Int /\ quasi[ReceiveFixed] \in Int
    BY <2>2 DEF CalculateQuasiSoapOf, Leg
  <2> HIDE DEF quasi
  <2>5. quasi[PayFixed] + quasi[ReceiveFixed] \in Int
    BY <2>4
  <2>6. DivisionInt(quasi[PayFixed] + quasi[ReceiveFixed], WAD_P2_YEAR_IN_SECONDS) \in Int
    BY <2>3, <2>5, DivisionType
  <2> QED BY <2>6 DEF SoapNow, CalculateSoap, quasi
<1>5. Supply \in Nat
  <2>1. \A a \in Account : ipTokens[a] \in Nat
    BY <1>1 DEF RestTypeOK
  <2> QED BY <2>1, AmmAssumption, SumOfNaturals DEF Supply
<1>6. ASSUME AccruedPool - SoapNow >= 0 PROVE PoolRate \in Nat
  <2> DEFINE x == AccruedPool - SoapNow
  <2>1. x \in Nat
    BY <1>3, <1>4, <1>6
  <2>2. PoolRate = IF Supply > 0 THEN Division(x * D18, Supply) ELSE D18
    BY DEF PoolRate, ExchangeRate
  <2> HIDE DEF x
  <2>3. x * D18 \in Nat
    BY <2>1, D18Assumption, ProductOfNaturals
  <2>4. Supply > 0 => Division(x * D18, Supply) \in Nat
    BY <2>3, <1>5, DivisionNatural
  <2> QED BY <2>2, <2>4, D18Assumption
<1> QED BY <1>2, <1>3, <1>4, <1>5, <1>6

(* The pool gets or gives x, and so does Milton's cash. *)
AddedToPool(tx, x, cash2) == [tx EXCEPT !.balances.liquidityPool = @ + x, !.cash = cash2]

LEMMA PoolBooked ==
    ASSUME NEW tx, Sound(tx), NEW x \in Int,
           Fits(tx.balances.liquidityPool + x, MAX_UINT128),
           NEW cash2 \in Nat, NEW r,
           r = AddedToPool(tx, x, cash2)
    PROVE  /\ Sound(r)
           /\ r.ok = tx.ok /\ r.payout = tx.payout /\ r.cash = cash2
           /\ r.swaps = tx.swaps /\ r.ids = tx.ids /\ r.vault = tx.vault
           /\ r.unowned = tx.unowned
           /\ Covered(r) <=> Covered(tx)
           /\ Surplus(r) = (Surplus(tx) + (ToWad(cash2) - ToWad(tx.cash))) - x
           /\ r.balances.totalCollateral = tx.balances.totalCollateral
           /\ PoolOf(r) = PoolOf(tx) + x
<1> DEFINE pool == tx.balances.liquidityPool + x
           b == WithPool(tx.balances, pool, tx.balances.vault)
<1>1. tx \in Tx /\ tx.balances \in Balances /\ tx.cash \in Nat
  <2>1. tx \in Tx
    BY DEF Sound
  <2> QED BY <2>1, TxFields
<1>2. /\ tx.balances.liquidityPool \in Nat /\ tx.balances.vault \in Nat
      /\ BookedClaims(tx.balances) \in Nat
  BY <1>1, BalancesFields
<1>3. pool \in UInt128
  <2>1. pool \in Int /\ Fits(pool, MAX_UINT128) /\ MAX_UINT128 \in Nat
    BY <1>2, StorageAssumption
  <2> HIDE DEF pool
  <2> QED BY <2>1, FitsType DEF UInt128
<1> HIDE DEF pool
<1>4. pool \in Int /\ pool - tx.balances.liquidityPool = x
  BY <1>2 DEF pool
<1>5. BalancesFit(b)
  <2>1. b \in Balances
    BY <1>1, <1>3 DEF WithPool, Balances
  <2> HIDE DEF b
  <2>2. /\ \A leg \in Leg : b.totalCollateral[leg] \in UInt128
        /\ b.liquidityPool \in UInt128 /\ b.vault \in UInt128
        /\ b.iporPublicationFee \in UInt128 /\ b.treasury \in UInt128
    BY <2>1 DEF Balances
  <2>3. \A y \in UInt128 : Fits(y, MAX_UINT128)
    BY StorageAssumption DEF UInt128, Fits
  <2> QED BY <2>2, <2>3 DEF BalancesFit
<1>6. r = WithBooks(tx, b, cash2)
  BY <1>1 DEF WithBooks, WithPool, AddedToPool, Tx, pool
<1> HIDE DEF b
<1>7. /\ b \in Balances
      /\ b.vault = tx.balances.vault /\ b.liquidityPool = pool
      /\ b.totalCollateral = tx.balances.totalCollateral
      /\ BookedClaims(b) = (BookedClaims(tx.balances) + pool) - tx.balances.liquidityPool
  <2>1. b = WithPool(tx.balances, pool, tx.balances.vault)
    BY DEF b
  <2>2. tx.balances.vault \in Int
    BY <1>2
  <2>3. b.liquidityPool = pool
    BY <2>1, <1>1 DEF WithPool, Balances
  <2> QED BY <2>1, <2>2, <2>3, <1>1, <1>4, <1>5, BooksOfStanley
<1>8. /\ Sound(r)
      /\ r.ok = tx.ok /\ r.payout = tx.payout /\ r.cash = cash2
      /\ r.swaps = tx.swaps /\ r.ids = tx.ids /\ r.soap = tx.soap /\ r.vault = tx.vault
      /\ r.balances = b /\ r.unowned = tx.unowned
      /\ Covered(r) <=> Covered(tx)
      /\ Surplus(r) = (Surplus(tx) + (ToWad(cash2) - ToWad(tx.cash)))
                      - (BookedClaims(b) - BookedClaims(tx.balances))
  BY <1>6, <1>7, BooksOfCash
<1>9. BookedClaims(b) - BookedClaims(tx.balances) = x
  BY <1>2, <1>4, <1>7
<1>10. PoolOf(r) = PoolOf(tx) + x
  <2>1. AllHeld(tx.vault) \in Nat /\ tx.unowned \in Nat
    <3>1. tx.vault \in Vault /\ tx.unowned \in Nat
      BY <1>1, TxFields
    <3> QED BY <3>1, HeldTypes
  <2>2. r.balances.liquidityPool = tx.balances.liquidityPool + x
        /\ r.balances.vault = tx.balances.vault /\ r.vault = tx.vault /\ r.unowned = tx.unowned
    BY <1>7, <1>8 DEF pool
  <2> QED BY <2>1, <2>2, <1>2 DEF PoolOf
<1> QED BY <1>7, <1>8, <1>9, <1>10

(* One holder's ipTokens change, and so does the supply. *)
LEMMA SupplyChanges ==
    ASSUME RestTypeOK, NEW account \in Account, NEW n \in Int,
           ipTokens' = [ipTokens EXCEPT ![account] = ipTokens[account] + n]
    PROVE  Supply' = Supply + n
<1>1. /\ IsFiniteSet(Account)
      /\ \A a \in Account : ipTokens[a] \in Int
      /\ \A a \in Account : ipTokens'[a] \in Int
      /\ ipTokens'[account] = ipTokens[account] + n
      /\ \A a \in Account \ {account} : ipTokens'[a] = ipTokens[a]
  BY AmmAssumption DEF RestTypeOK
<1>2. PICK g : g = ipTokens'
  OBVIOUS
<1>3. /\ \A a \in Account : g[a] \in Int
      /\ g[account] = ipTokens[account] + n
      /\ \A a \in Account \ {account} : g[a] = ipTokens[a]
  BY <1>1, <1>2
<1>4. SumFunctionOnSet(g, Account) = SumFunctionOnSet(ipTokens, Account) + n
  BY <1>1, <1>3, SumChanges
<1> QED BY <1>2, <1>4 DEF Supply

LEMMA SoapStaysOnMove ==
    ASSUME NEW tx \in Tx
    PROVE  /\ \A amount : DepositToStanleyTx(tx, amount).soap = tx.soap
           /\ \A result : WithdrawFromStanleyTx(tx, result).soap = tx.soap
           /\ \A assets : Pay(tx, assets).soap = tx.soap
           /\ \A x, c : AddedToPool(tx, x, c).soap = tx.soap
<1>1. \A amount : DepositToStanleyTx(tx, amount).soap = tx.soap
  BY DEF Tx, DepositToStanleyTx, Failed
<1>2. \A result : WithdrawFromStanleyTx(tx, result).soap = tx.soap
  BY DEF Tx, WithdrawFromStanleyTx, Failed
<1>3. \A assets : Pay(tx, assets).soap = tx.soap
  BY DEF Tx, Pay, Failed
<1>4. ASSUME NEW x, NEW c PROVE AddedToPool(tx, x, c).soap = tx.soap
  <2> DEFINE b == [tx.balances EXCEPT !.liquidityPool = tx.balances.liquidityPool + x]
  <2>1. AddedToPool(tx, x, c) = [tx EXCEPT !.balances = b, !.cash = c]
    BY DEF AddedToPool, Tx
  <2> HIDE DEF b
  <2> QED BY <2>1 DEF Tx
<1> QED BY <1>1, <1>2, <1>3, <1>4

(* The pool changes by x and by the roundings of conversions. *)
PoolShifts(tx, r, x) ==
    /\ r.vault.current = tx.vault.current
    /\ tx.vault.conversions <= r.vault.conversions
    /\ (PoolOf(tx) + x) - RoundingsFrom(tx.vault, r.vault) <= PoolOf(r)
    /\ PoolOf(r) <= (PoolOf(tx) + x) + RoundingsFrom(tx.vault, r.vault)

LEMMA ShiftedThenSame ==
    ASSUME NEW tx \in Tx, NEW q, NEW r, NEW x \in Int, PoolOf(q) = PoolOf(tx) + x,
           q.vault = tx.vault, SamePool(q, r)
    PROVE  PoolShifts(tx, r, x)
  BY DEF SamePool, PoolShifts

LEMMA SameThenShifted ==
    ASSUME NEW tx \in Tx, NEW q \in Tx, NEW r, NEW x \in Int, PoolOf(r) = PoolOf(q) + x,
           r.vault = q.vault, SamePool(tx, q)
    PROVE  PoolShifts(tx, r, x)
<1>1. PoolOf(tx) \in Int /\ PoolOf(q) \in Int
  BY MarginType
<1>2. RoundingsFrom(tx.vault, q.vault) \in Nat
  <2>1. tx.vault \in Vault /\ q.vault \in Vault
    BY TxFields
  <2> QED BY <2>1, RoundingsType DEF SamePool
<1>3. /\ PoolOf(tx) - RoundingsFrom(tx.vault, q.vault) <= PoolOf(q)
      /\ PoolOf(q) <= PoolOf(tx) + RoundingsFrom(tx.vault, q.vault)
  BY DEF SamePool
<1>4. /\ (PoolOf(tx) + x) - RoundingsFrom(tx.vault, q.vault) <= PoolOf(r)
      /\ PoolOf(r) <= (PoolOf(tx) + x) + RoundingsFrom(tx.vault, q.vault)
  BY <1>1, <1>2, <1>3
<1> QED BY <1>4 DEF SamePool, PoolShifts

(* A utilization of at most 1.0 after its rounding. *)
LEMMA Overlooked ==
    ASSUME NEW collateral \in Nat, NEW pool \in Nat \ {0}, Division(collateral * D18, pool) <= D18
    PROVE  collateral - pool <= pool \div (2 * D18)
<1> DEFINE x == collateral * D18
           q == Division(x, pool)
           y == pool * q
           z == pool * D18
           k == 2 * D18
           d == collateral - pool
<1>1. q <= D18 /\ D18 \in Nat \ {0} /\ k \in Nat \ {0} /\ d \in Int
  BY D18Assumption
<1>2. x \in Nat
  BY <1>1, ProductOfNaturals
<1> HIDE DEF x
<1>3. q \in Nat /\ Within(y - x, pool)
  BY <1>1, <1>2, DivisionNatural, DivisionWithin
<1> HIDE DEF q
<1>4. y <= z /\ y \in Int /\ z \in Int
  BY <1>1, <1>3, ProductMonotonic
<1>5. k * d = 2 * x - 2 * z
  BY <1>1 DEF x
<1> HIDE DEF y, z, k, d
<1>6. k * d <= pool
  BY <1>1, <1>2, <1>3, <1>4, <1>5 DEF Within
<1> DEFINE e == pool \div k
<1>7. e \in Int /\ pool < k * (e + 1)
  BY <1>1
<1> HIDE DEF e
<1>8. ASSUME e + 1 <= d PROVE FALSE
  <2>1. k * (e + 1) <= k * d
    BY <1>1, <1>7, <1>8, ProductMonotonic
  <2> DEFINE a == k * (e + 1)
             b == k * d
  <2>2. a \in Int /\ b \in Int /\ pool < a /\ a <= b /\ b <= pool
    BY <2>1, <1>1, <1>6, <1>7
  <2> HIDE DEF a, b
  <2> QED BY <2>2
<1>9. d <= e
  BY <1>1, <1>7, <1>8
<1> QED BY <1>9 DEF d, e, k

LEMMA MeasuredHides ==
    ASSUME hidden \in Nat, NEW pool \in Nat, NEW o \in Nat, Measured(pool, o)
    PROVE  /\ hidden' \in Nat
           /\ pool \div (2 * D18) + 1 + o <= hidden'
           /\ hidden <= hidden'
<1> DEFINE e == pool \div (2 * D18)
<1>1. e \in Nat
  <2>1. 2 * D18 \in Nat \ {0}
    BY D18Assumption
  <2> QED BY <2>1
<1>2. hidden' = IF e + 1 + o > hidden THEN e + 1 + o ELSE hidden
  BY DEF Measured
<1> HIDE DEF e
<1>3. hidden' \in Nat /\ e + 1 + o <= hidden' /\ hidden <= hidden'
  BY <1>1, <1>2
<1> QED BY <1>3 DEF e

(* What is deposited and minted, and what is burnt and paid for it. *)
ProvidedStep ==
    \E wad \in Nat, minted \in Nat \ {0} :
        /\ AccruedPool - SoapNow >= 0 /\ PoolRate > 0
        /\ minted = MintedFor(wad, PoolRate)
        /\ Supply' = Supply + minted
        /\ UNCHANGED <<soap, marketVars>>
        /\ PoolShifts(NewTx, NewTx', wad)

RedeemedStep ==
    \E burnt \in Nat \ {0}, wad \in Nat :
        /\ AccruedPool - SoapNow >= 0
        /\ wad = ToWad(RedeemAmount(burnt, PoolRate, Unit))
        /\ Supply' = Supply - burnt
        /\ UNCHANGED <<soap, marketVars>>
        /\ PoolShifts(NewTx, NewTx', -wad)

LEMMA ProvideKeeps ==
    ASSUME BookInv, ProvideLiquidity
    PROVE  KeptStep /\ ProvidedStep
<1>1. PICK account \in Account, assets \in ProvideAmounts :
        LET wad    == ToWad(assets)
            minted == MintedFor(wad, PoolRate)
            paid   == [NewTx EXCEPT !.balances.liquidityPool = @ + wad, !.cash = @ + assets]
            move   == RebalanceAmountAfterProvideLiquidity(ToWad(paid.cash), TotalBalance(vault), ratio)
            moving == AUTO_REBALANCE_THRESHOLD > 0 /\ wad >= AUTO_REBALANCE_THRESHOLD /\ move > 0
        IN  /\ AccruedPool - SoapNow >= 0
            /\ PoolRate > 0
            /\ CanAddLiquidity(balances, contribution[account], wad, MAX_POOL, MAX_CONTRIBUTION)
            /\ minted > 0
            /\ Commit(IF moving THEN DepositToStanleyTx(paid, move) ELSE paid)
            /\ contribution' = [contribution EXCEPT ![account] = @ + wad]
            /\ ipTokens' = [ipTokens EXCEPT ![account] = @ + minted]
            /\ UNCHANGED <<lastSwapId, accessVars, ratio, marketVars, hidden>>
  BY DEF ProvideLiquidity
<1> DEFINE wad    == ToWad(assets)
           minted == MintedFor(wad, PoolRate)
           cash2  == cash + assets
           paid   == [NewTx EXCEPT !.balances.liquidityPool = @ + wad, !.cash = @ + assets]
           move   == RebalanceAmountAfterProvideLiquidity(ToWad(paid.cash), TotalBalance(vault), ratio)
           moving == AUTO_REBALANCE_THRESHOLD > 0 /\ wad >= AUTO_REBALANCE_THRESHOLD /\ move > 0
           r      == IF moving THEN DepositToStanleyTx(paid, move) ELSE paid
<1>2. /\ AccruedPool - SoapNow >= 0 /\ PoolRate > 0
      /\ CanAddLiquidity(balances, contribution[account], wad, MAX_POOL, MAX_CONTRIBUTION)
      /\ minted > 0
      /\ Commit(r)
      /\ contribution' = [contribution EXCEPT ![account] = @ + wad]
      /\ ipTokens' = [ipTokens EXCEPT ![account] = @ + minted]
      /\ UNCHANGED <<lastSwapId, accessVars, ratio, marketVars, hidden>>
  BY <1>1
<1>3. /\ Sound(NewTx) /\ NewTx \in Tx /\ RestTypeOK /\ cash \in Nat /\ vault \in Vault
      /\ ratio \in Int /\ ToWad(cash) \in Int
  BY StateNumbers
<1>4. assets \in Nat /\ wad \in Nat /\ cash2 \in Nat /\ ToWad(cash2) = ToWad(cash) + wad
  <2>1. assets \in Nat
    BY AmmAssumption
  <2>2. wad \in Nat
    BY <2>1, WholeToWad
  <2> QED BY <2>1, <2>2, <1>3, ToWadSum
<1>5. minted \in Nat \ {0}
  <2>1. PoolRate \in Nat \ {0}
    BY <1>2, NumbersOfPool
  <2>2. wad * D18 \in Nat
    BY <1>4, D18Assumption, ProductOfNaturals
  <2> HIDE DEF wad
  <2>3. minted \in Nat
    BY <2>1, <2>2, DivisionNatural DEF MintedFor
  <2> QED BY <2>3, <1>2
<1>20. minted = MintedFor(wad, PoolRate)
  OBVIOUS
<1> HIDE DEF minted, wad
<1>6. RestTypeOK'
  <2>1. contribution' \in [Account -> UInt128]
    <3>1. contribution \in [Account -> UInt128] /\ contribution[account] \in Int
      BY <1>3, StorageAssumption DEF RestTypeOK, UInt128
    <3>2. Fits(contribution[account] + wad, MAX_UINT128)
      BY <1>2 DEF CanAddLiquidity
    <3>3. contribution[account] + wad \in UInt128
      BY <3>1, <3>2, <1>4, FitsType, StorageAssumption DEF UInt128
    <3> QED BY <3>1, <3>3, <1>2
  <2>2. ipTokens' \in [Account -> Nat]
    BY <1>2, <1>3, <1>5 DEF RestTypeOK
  <2> HIDE DEF r
  <2> QED BY <2>1, <2>2, <1>2, <1>3 DEF RestTypeOK, accessVars, marketVars
<1>7. ipTokens' # ipTokens
  <2>1. ipTokens[account] \in Nat /\ ipTokens'[account] = ipTokens[account] + minted
    BY <1>2, <1>3 DEF RestTypeOK
  <2> QED BY <2>1, <1>5
<1> HIDE DEF cash2, move, moving
<1>8. /\ Sound(paid)
      /\ paid.ok = NewTx.ok /\ paid.payout = NewTx.payout /\ paid.cash = cash2
      /\ paid.swaps = NewTx.swaps /\ paid.ids = NewTx.ids /\ paid.vault = NewTx.vault
      /\ Covered(paid) <=> Covered(NewTx)
      /\ Surplus(paid) = (Surplus(NewTx) + (ToWad(cash2) - ToWad(NewTx.cash))) - wad
      /\ paid.balances.totalCollateral = NewTx.balances.totalCollateral
      /\ PoolOf(paid) = PoolOf(NewTx) + wad
  <2>1. Fits(NewTx.balances.liquidityPool + wad, MAX_UINT128)
    BY <1>2, FieldsOfNewTx DEF CanAddLiquidity
  <2>2. paid = AddedToPool(NewTx, wad, cash2)
    BY FieldsOfNewTx DEF cash2, AddedToPool
  <2> HIDE DEF paid
  <2>3. wad \in Int
    BY <1>4
  <2> QED BY <2>1, <2>2, <2>3, <1>3, <1>4, PoolBooked
<1>9. Surplus(paid) = Surplus(NewTx)
  <2>1. Surplus(NewTx) \in Int
    BY <1>3, TxFields
  <2>2. (ToWad(cash2) - ToWad(NewTx.cash)) = wad
    BY <1>3, <1>4, FieldsOfNewTx
  <2> HIDE DEF paid
  <2> QED BY <2>1, <2>2, <1>4, <1>8
<1>10. /\ Sound(r) /\ r.payout = NewTx.payout
       /\ r.swaps = NewTx.swaps /\ r.ids = NewTx.ids
       /\ SameContracts(NewTx.vault, r.vault)
       /\ Apart(NewTx.vault) /\ Covered(NewTx) => Covered(r)
       /\ Surplus(r) = Surplus(NewTx)
       /\ SamePool(paid, r)
  <2>1. CASE ~moving
    <3>1. r = paid
      BY <2>1
    <3> HIDE DEF r, paid
    <3>2. SameContracts(NewTx.vault, r.vault) /\ SamePool(paid, r)
      BY <3>1, <1>8, SameContractsItself, SamePoolItself DEF Sound
    <3> QED BY <3>1, <3>2, <1>8, <1>9
  <2>2. CASE moving
    <3>1. r = DepositToStanleyTx(paid, move)
      BY <2>2
    <3>2. r.ok
      BY <1>2 DEF Commit
    <3> HIDE DEF r
    <3>3. move \in Int
      <4>1. ToWad(paid.cash) \in Int
        BY <1>4, <1>8, WholeToWad
      <4> HIDE DEF paid
      <4> QED BY <4>1, <1>3, NumbersOfRebalance DEF move
    <3> HIDE DEF paid
    <3>4. Moved(paid, r)
      BY <3>1, <3>2, <3>3, <1>8, DepositTxMoves
    <3> QED BY <3>4, <1>8, <1>9 DEF Moved
  <2> QED BY <2>1, <2>2
<1>19. r.soap = NewTx.soap
  <2>1. paid.soap = NewTx.soap
    <3>1. paid = AddedToPool(NewTx, wad, cash2)
      BY FieldsOfNewTx DEF cash2, AddedToPool
    <3> HIDE DEF paid
    <3> QED BY <3>1, <1>3, SoapStaysOnMove
  <2>2. paid \in Tx
    BY <1>8 DEF Sound
  <2> HIDE DEF paid
  <2>3. DepositToStanleyTx(paid, move).soap = paid.soap
    BY <2>2, SoapStaysOnMove
  <2> QED BY <2>1, <2>3
<1> HIDE DEF r, paid
<1>15. Margin(NewTx) <= Margin(r)
  <2>1. NewTx \in Tx /\ paid \in Tx /\ r \in Tx
    BY <1>3, <1>8, <1>10 DEF Sound
  <2>2. Margin(paid) <= Margin(r)
    BY <2>1, <1>10, SamePoolKeepsMargin
  <2>3. /\ PoolOf(NewTx) \in Int /\ CollateralOf(NewTx.balances) \in Nat
        /\ RoundingsOf(NewTx.vault) \in Nat /\ Margin(r) \in Int
    BY <2>1, MarginType
  <2>4. /\ PoolOf(paid) = PoolOf(NewTx) + wad /\ paid.vault = NewTx.vault
        /\ CollateralOf(paid.balances) = CollateralOf(NewTx.balances)
    BY <1>8 DEF CollateralOf
  <2> QED BY <2>2, <2>3, <2>4, <1>4 DEF Margin
<1>11. Kept(NewTx, r)
  BY <1>3, <1>10, SameSwapsIsKept
<1>12. NewTx' = r
  <2>1. r \in Tx /\ r.payout = 0 /\ Commit(r)
    BY <1>2, <1>10, FieldsOfNewTx DEF Sound
  <2> QED BY <2>1, CommittedTx
<1>13. PoolKept
  BY <1>7 DEF PoolKept
<1>14. UNCHANGED lastSwapId
  BY <1>2
<1>16. CoverKept
  BY <1>2, <1>10, <1>12, <1>15, MarginCovers
<1>17. KeptStep
  BY <1>6, <1>11, <1>12, <1>13, <1>14, <1>16 DEF KeptStep
<1>18. ProvidedStep
  <2>1. Supply' = Supply + minted
    <3>1. ipTokens' = [ipTokens EXCEPT ![account] = ipTokens[account] + minted] /\ minted \in Int
      BY <1>2, <1>5
    <3> QED BY <3>1, <1>3, SupplyChanges
  <2>2. soap' = soap
    <3>1. r.soap = NewTx.soap
      BY <1>19
    <3>2. NewTx'.soap = soap'
      BY DEF NewTx
    <3> QED BY <3>1, <3>2, <1>12, FieldsOfNewTx
  <2>3. PoolShifts(NewTx, NewTx', wad)
    <3>1. wad \in Int
      BY <1>4
    <3> QED BY <3>1, <1>3, <1>8, <1>10, <1>12, ShiftedThenSame
  <2>4. minted = MintedFor(wad, PoolRate) /\ UNCHANGED marketVars
    BY <1>2, <1>20
  <2> QED BY <2>1, <2>2, <2>3, <2>4, <1>2, <1>4, <1>5 DEF ProvidedStep
<1> QED BY <1>17, <1>18

LEMMA RedeemKeeps ==
    ASSUME BookInv, Redeem
    PROVE  KeptStep /\ RedeemedStep
<1>1. PICK account \in Account, ipAmount \in RedeemAmounts :
        LET assets  == RedeemAmount(ipAmount, PoolRate, Unit)
            wad     == ToWad(assets)
            wadCash == ToWad(cash)
            move    == RebalanceAmountBeforeRedeem(wadCash, TotalBalance(vault), wad, ratio)
            moving  == /\ \/ wad > wadCash
                          \/ AUTO_REBALANCE_THRESHOLD > 0 /\ wad >= AUTO_REBALANCE_THRESHOLD
                       /\ move < 0
            funded  == IF moving THEN WithdrawFromStanleyTx(NewTx, Withdraw(vault, -move))
                       ELSE NewTx
            booked  == [funded EXCEPT !.balances.liquidityPool = @ - wad]
        IN  /\ ipAmount > 0
            /\ ipAmount <= ipTokens[account]
            /\ AccruedPool - SoapNow >= 0
            /\ RedeemedUtilizationOK(AccruedPool,
                   balances.totalCollateral[PayFixed] + balances.totalCollateral[ReceiveFixed], wad)
            /\ funded.ok
            /\ Fits(booked.balances.liquidityPool, MAX_UINT128)
            /\ Commit(Pay(booked, assets))
            /\ ipTokens' = [ipTokens EXCEPT ![account] = @ - ipAmount]
            /\ Measured(AccruedPool - wad, Overstated)
            /\ UNCHANGED <<lastSwapId, contribution, accessVars, ratio, marketVars>>
  BY Zenon DEF Redeem
<1> DEFINE assets  == RedeemAmount(ipAmount, PoolRate, Unit)
           wad     == ToWad(assets)
           wadCash == ToWad(cash)
           move    == RebalanceAmountBeforeRedeem(wadCash, TotalBalance(vault), wad, ratio)
           moving  == /\ \/ wad > wadCash
                         \/ AUTO_REBALANCE_THRESHOLD > 0 /\ wad >= AUTO_REBALANCE_THRESHOLD
                      /\ move < 0
           funded  == IF moving THEN WithdrawFromStanleyTx(NewTx, Withdraw(vault, -move))
                      ELSE NewTx
           booked  == [funded EXCEPT !.balances.liquidityPool = @ - wad]
           r       == Pay(booked, assets)
<1>2. /\ ipAmount > 0 /\ ipAmount <= ipTokens[account]
      /\ AccruedPool - SoapNow >= 0
      /\ RedeemedUtilizationOK(AccruedPool, CollateralOf(balances), wad)
      /\ funded.ok
      /\ Fits(booked.balances.liquidityPool, MAX_UINT128)
      /\ Commit(r)
      /\ ipTokens' = [ipTokens EXCEPT ![account] = @ - ipAmount]
      /\ Measured(AccruedPool - wad, Overstated)
      /\ UNCHANGED <<lastSwapId, contribution, accessVars, ratio, marketVars>>
  BY <1>1, Zenon DEF CollateralOf
<1>3. /\ Sound(NewTx) /\ NewTx \in Tx /\ RestTypeOK /\ vault \in Vault /\ VaultOK(vault)
      /\ ratio \in Int /\ ToWad(cash) \in Int
  BY StateNumbers
<1>4. assets \in Nat /\ wad \in Nat
  <2> DEFINE gross == Division(ipAmount * PoolRate, D18)
             fee   == PercentOf(gross, REDEEM_FEE_RATE)
  <2>1. ipAmount \in Nat
    BY AmmAssumption
  <2>2. PoolRate \in Nat
    BY <1>2, NumbersOfPool
  <2>3. gross \in Nat
    <3>1. ipAmount * PoolRate \in Nat
      BY <2>1, <2>2, ProductOfNaturals
    <3> QED BY <3>1, D18Assumption, DivisionNatural
  <2> HIDE DEF gross
  <2>4. fee \in 0..gross
    BY <2>3, JosephAssumption, PercentBelow
  <2>5. assets = ToAsset(gross - fee)
    BY DEF RedeemAmount, ToAsset, PercentOf, gross
  <2> HIDE DEF fee, assets
  <2>6. gross - fee \in Nat
    BY <2>3, <2>4
  <2>7. assets \in Nat
    BY <2>5, <2>6, RoundingWithin
  <2> QED BY <2>7, WholeToWad
<1>17. wad = ToWad(RedeemAmount(ipAmount, PoolRate, Unit))
  OBVIOUS
<1> HIDE DEF assets
<1>5. move \in Int
  <2> HIDE DEF wad
  <2> QED BY <1>3, <1>4, NumbersOfRebalance
<1> HIDE DEF move, wadCash, moving, wad
<1> DEFINE pool == AccruedPool - wad
<1>22. /\ pool \in Nat \ {0}
       /\ Division(CollateralOf(balances) * D18, pool) <= D18
       /\ hidden' \in Nat /\ hidden <= hidden'
       /\ pool \div (2 * D18) + 1 + Overstated <= hidden'
       /\ Overstated \in Nat
  <2>1. AccruedPool \in Int /\ CollateralOf(balances) \in Nat
        /\ TotalBalance(vault) \in Nat /\ HeldTotal(vault) \in Nat
    BY <1>3, NumbersOfPool, MarginType, HeldTypes, FieldsOfNewTx
  <2>2. /\ pool > 0
        /\ Division(CollateralOf(balances) * D18, pool) <= REDEEM_LP_MAX_UTILIZATION_RATE
        /\ Measured(pool, Overstated)
    BY <1>2 DEF RedeemedUtilizationOK
  <2>3. pool \in Nat \ {0}
    BY <2>1, <2>2, <1>4
  <2>4. Overstated \in Nat
    BY <2>1 DEF Overstated
  <2> HIDE DEF pool
  <2>5. Division(CollateralOf(balances) * D18, pool) <= D18
    <3>1. Division(CollateralOf(balances) * D18, pool) \in Nat
      BY <2>1, <2>3, D18Assumption, ProductOfNaturals, DivisionNatural
    <3>2. REDEEM_LP_MAX_UTILIZATION_RATE \in 0..D18
      BY JosephAssumption
    <3> QED BY <3>1, <3>2, <2>2, D18Assumption
  <2> QED BY <2>2, <2>3, <2>4, <2>5, StateNumbers, MeasuredHides
<1> HIDE DEF pool
<1>6. RestTypeOK' /\ ipTokens' # ipTokens
  <2>1. ipTokens[account] \in Nat /\ ipAmount \in Nat /\ ipTokens \in [Account -> Nat]
    BY <1>3, AmmAssumption DEF RestTypeOK
  <2>2. ipTokens' \in [Account -> Nat] /\ ipTokens'[account] = ipTokens[account] - ipAmount
    BY <1>2, <2>1
  <2> HIDE DEF r, booked, funded
  <2>3. RestTypeOK'
    BY <2>2, <1>2, <1>3, <1>22 DEF RestTypeOK, accessVars, marketVars
  <2> QED BY <2>1, <2>2, <2>3, <1>2
<1>7. /\ Sound(funded)
      /\ funded.swaps = swaps /\ funded.ids = ids /\ funded.payout = 0
      /\ SameContracts(vault, funded.vault)
      /\ Apart(NewTx.vault) /\ Covered(NewTx) => Covered(funded)
      /\ Surplus(funded) = Surplus(NewTx)
      /\ SamePool(NewTx, funded)
  <2>1. CASE ~moving
    <3>1. funded = NewTx
      BY <2>1
    <3>2. SameContracts(vault, vault) /\ SamePool(NewTx, NewTx)
      BY <1>3, SameContractsItself, SamePoolItself
    <3> HIDE DEF funded
    <3> QED BY <3>1, <3>2, <1>3, FieldsOfNewTx
  <2>2. CASE moving
    <3> DEFINE result == Withdraw(vault, -move)
    <3>1. funded = WithdrawFromStanleyTx(NewTx, result)
      BY <2>2
    <3>2. result.ok => PaidOut(NewTx.vault, result)
      <4>1. -move \in Int
        BY <1>5
      <4> QED BY <4>1, <1>3, WithdrawPays, FieldsOfNewTx
    <3>3. funded.ok
      BY <1>2
    <3> HIDE DEF result, funded
    <3>4. Moved(NewTx, funded)
      BY <3>1, <3>2, <3>3, <1>3, WithdrawTxMoves
    <3> QED BY <3>4, FieldsOfNewTx DEF Moved
  <2> QED BY <2>1, <2>2
<1>8. booked = AddedToPool(funded, -wad, funded.cash)
  <2>1. funded \in Tx
    BY <1>7 DEF Sound
  <2>2. funded.balances.liquidityPool \in Int /\ wad \in Int
    BY <2>1, <1>4, TxFields, BalancesFields
  <2> DEFINE left == funded.balances.liquidityPool - wad
  <2>3. left = funded.balances.liquidityPool + (-wad)
    BY <2>2
  <2> HIDE DEF funded
  <2>4. booked = [funded EXCEPT !.balances.liquidityPool = left]
    OBVIOUS
  <2>5. AddedToPool(funded, -wad, funded.cash)
           = [funded EXCEPT !.balances.liquidityPool = left, !.cash = funded.cash]
    BY <2>3 DEF AddedToPool
  <2> HIDE DEF left, booked
  <2>6. [funded EXCEPT !.balances.liquidityPool = left]
           = [funded EXCEPT !.balances.liquidityPool = left, !.cash = funded.cash]
    BY <2>1 DEF Tx
  <2> QED BY <2>4, <2>5, <2>6
<1>18. funded.soap = soap
  <2>1. WithdrawFromStanleyTx(NewTx, Withdraw(vault, -move)).soap = NewTx.soap
    BY <1>3, SoapStaysOnMove
  <2> QED BY <2>1, FieldsOfNewTx
<1> HIDE DEF funded, booked
<1>9. /\ Sound(booked)
      /\ booked.payout = funded.payout
      /\ booked.swaps = funded.swaps /\ booked.ids = funded.ids /\ booked.vault = funded.vault
      /\ booked.unowned = funded.unowned
      /\ Covered(booked) <=> Covered(funded)
      /\ Surplus(booked) = Surplus(funded) + wad
      /\ booked.balances.totalCollateral = funded.balances.totalCollateral
      /\ PoolOf(booked) = PoolOf(funded) + (-wad)
  <2>1. /\ funded.cash \in Nat /\ ToWad(funded.cash) \in Int /\ Surplus(funded) \in Int
        /\ funded.balances.liquidityPool \in Int
    <3>1. funded \in Tx
      BY <1>7 DEF Sound
    <3> QED BY <3>1, TxFields, BalancesFields
  <2>2. Fits(funded.balances.liquidityPool + (-wad), MAX_UINT128)
    <3>1. funded \in Tx
      BY <1>7 DEF Sound
    <3>2. booked.balances.liquidityPool = funded.balances.liquidityPool + (-wad)
      BY <3>1, <1>8 DEF AddedToPool, Tx, Balances
    <3> QED BY <3>2, <1>2
  <2>3. -wad \in Int
    BY <1>4
  <2>4. /\ Sound(booked)
        /\ booked.ok = funded.ok /\ booked.payout = funded.payout /\ booked.cash = funded.cash
        /\ booked.swaps = funded.swaps /\ booked.ids = funded.ids /\ booked.vault = funded.vault
        /\ booked.unowned = funded.unowned
        /\ Covered(booked) <=> Covered(funded)
        /\ Surplus(booked) = (Surplus(funded) + (ToWad(funded.cash) - ToWad(funded.cash))) - (-wad)
        /\ booked.balances.totalCollateral = funded.balances.totalCollateral
        /\ PoolOf(booked) = PoolOf(funded) + (-wad)
    BY <2>1, <2>2, <2>3, <1>7, <1>8, PoolBooked
  <2>5. (Surplus(funded) + (ToWad(funded.cash) - ToWad(funded.cash))) - (-wad)
           = Surplus(funded) + wad
    BY <2>1, <1>4
  <2> QED BY <2>4, <2>5
<1>10. /\ Sound(r) /\ r.payout = 0
       /\ r.swaps = NewTx.swaps /\ r.ids = NewTx.ids
       /\ SameContracts(NewTx.vault, r.vault)
       /\ Apart(NewTx.vault) /\ Covered(NewTx) => Covered(r)
       /\ Surplus(r) = Surplus(NewTx)
       /\ r.balances = booked.balances /\ r.vault = booked.vault /\ r.unowned = booked.unowned
  <2>1. r.ok
    BY <1>2 DEF Commit
  <2>2. /\ Sound(r)
        /\ r.swaps = booked.swaps /\ r.ids = booked.ids /\ r.payout = booked.payout
        /\ r.balances = booked.balances /\ r.vault = booked.vault /\ r.unowned = booked.unowned
        /\ Surplus(r) = Surplus(booked) - wad
    BY <2>1, <1>4, <1>9, PayTakes DEF wad
  <2> HIDE DEF r
  <2>3. Covered(r) <=> Covered(booked)
    BY <2>2 DEF Covered
  <2>4. Surplus(r) = Surplus(funded)
    <3>1. funded \in Tx
      BY <1>7 DEF Sound
    <3>2. Surplus(funded) \in Int
      BY <3>1, TxFields
    <3> QED BY <3>2, <2>2, <1>4, <1>9
  <2>5. /\ Sound(r) /\ r.payout = 0
        /\ r.swaps = NewTx.swaps /\ r.ids = NewTx.ids
        /\ SameContracts(NewTx.vault, r.vault)
    BY <2>2, <1>7, <1>9, FieldsOfNewTx
  <2>6. Apart(NewTx.vault) /\ Covered(NewTx) => Covered(r)
    BY <2>3, <1>7, <1>9
  <2>7. Surplus(r) = Surplus(NewTx)
    BY <2>4, <1>7
  <2> QED BY <2>2, <2>5, <2>6, <2>7
<1>19. r.soap = soap
  <2>1. funded \in Tx /\ booked \in Tx
    BY <1>7, <1>9 DEF Sound
  <2>2. booked.soap = funded.soap
    BY <2>1, <1>8, SoapStaysOnMove
  <2>3. r.soap = booked.soap
    BY <2>1, SoapStaysOnMove
  <2> QED BY <2>2, <2>3, <1>18
<1> HIDE DEF r
<1>11. Kept(NewTx, r)
  BY <1>3, <1>10, SameSwapsIsKept
<1>12. NewTx' = r
  <2>1. r \in Tx /\ r.payout = 0 /\ Commit(r)
    BY <1>2, <1>10 DEF Sound
  <2> QED BY <2>1, CommittedTx
<1>13. PoolKept
  BY <1>6 DEF PoolKept
<1>14. UNCHANGED lastSwapId
  BY <1>2
<1>23. /\ NewTx \in Tx /\ funded \in Tx /\ booked \in Tx /\ r \in Tx
       /\ PoolOf(r) = PoolOf(funded) + (-wad) /\ r.vault = funded.vault
  <2>1. NewTx \in Tx /\ funded \in Tx /\ booked \in Tx /\ r \in Tx
    BY <1>3, <1>7, <1>9, <1>10 DEF Sound
  <2>2. PoolOf(r) = PoolOf(booked) /\ r.vault = booked.vault
    BY <1>10 DEF PoolOf
  <2> QED BY <2>1, <2>2, <1>9
<1>15. ASSUME Apart(vault) PROVE 0 <= Margin(r) + hidden'
  <2>1. /\ balances.liquidityPool \in Nat /\ balances.vault \in Nat /\ unowned \in Nat
        /\ TotalBalance(vault) \in Nat /\ HeldTotal(vault) \in Nat /\ AllHeld(vault) \in Nat
        /\ CollateralOf(balances) \in Nat /\ AllStored(vault) \in Nat
    BY <1>3, StateNumbers, BalancesFields, NumbersOfPool, HeldTypes, MarginType, FieldsOfNewTx
  <2>2. pool = ((balances.liquidityPool + TotalBalance(vault)) - balances.vault) - wad
    BY <2>1 DEF AccruedPool, AccruedLiquidityPool, pool
  <2>3. HeldTotal(vault) <= AllHeld(vault)
    BY <2>1, <1>3, <1>15, StoredBelow, HeldTotalBelow
  <2>4. TotalBalance(vault) - HeldTotal(vault) <= Overstated
    BY <2>1 DEF Overstated
  <2>5. PoolOf(NewTx) = (balances.liquidityPool + AllHeld(vault) + unowned) - balances.vault
    BY FieldsOfNewTx DEF PoolOf
  <2>6. pool - Overstated <= PoolOf(NewTx) - wad
    BY <2>1, <2>2, <2>3, <2>4, <2>5, <1>4, <1>22
  <2>7. CollateralOf(balances) - pool <= pool \div (2 * D18)
    BY <2>1, <1>22, Overlooked
  <2>8. pool \div (2 * D18) \in Int
    BY <1>22, D18Assumption
  <2>9. CollateralOf(r.balances) = CollateralOf(balances)
    <3>1. r.balances.totalCollateral = balances.totalCollateral
      BY <1>7, <1>9, <1>10, FieldsOfNewTx DEF SamePool
    <3> QED BY <3>1 DEF CollateralOf
  <2>10. /\ Margin(NewTx) = (PoolOf(NewTx) + RoundingsOf(vault)) - CollateralOf(balances)
         /\ Margin(r) = (PoolOf(r) + RoundingsOf(r.vault)) - CollateralOf(balances)
         /\ Margin(funded) = (PoolOf(funded) + RoundingsOf(r.vault)) - CollateralOf(balances)
    BY <2>9, <1>7, <1>23, FieldsOfNewTx DEF Margin, SamePool, CollateralOf
  <2>11. /\ PoolOf(NewTx) \in Int /\ PoolOf(r) \in Int /\ PoolOf(funded) \in Int
         /\ RoundingsOf(vault) \in Nat /\ RoundingsOf(r.vault) \in Nat
    BY <1>23, MarginType, FieldsOfNewTx
  <2>12. Margin(NewTx) <= Margin(funded)
    BY <1>7, <1>23, SamePoolKeepsMargin
  <2>13. Margin(NewTx) - wad <= Margin(r)
    BY <2>1, <2>10, <2>11, <2>12, <1>4, <1>23
  <2> DEFINE e == pool \div (2 * D18)
  <2>14. /\ e \in Int /\ CollateralOf(balances) - pool <= e
         /\ e + 1 + Overstated <= hidden' /\ hidden' \in Nat /\ Overstated \in Nat
         /\ pool \in Nat
    BY <2>7, <2>8, <1>22
  <2> HIDE DEF e
  <2>15. Margin(r) \in Int
    BY <1>23, MarginType
  <2>16. pool - Overstated - CollateralOf(balances) <= Margin(NewTx) - wad
    BY <2>1, <2>6, <2>10, <2>11, <2>14, <1>4
  <2>17. Margin(NewTx) \in Int
    BY <1>23, MarginType
  <2> QED BY <2>1, <2>13, <2>14, <2>15, <2>16, <2>17, <1>4
<1>16. CoverKept
  <2>1. Margin(NewTx)' = Margin(r)
    BY <1>12
  <2> QED BY <2>1, <1>15 DEF CoverKept, MarginOK
<1>20. KeptStep
  BY <1>6, <1>11, <1>12, <1>13, <1>14, <1>16 DEF KeptStep
<1>21. RedeemedStep
  <2>1. ipAmount \in Nat \ {0}
    BY <1>2, AmmAssumption
  <2>2. Supply' = Supply - ipAmount
    <3>1. ipTokens[account] \in Int /\ -ipAmount \in Int
      BY <1>3, <2>1 DEF RestTypeOK
    <3>2. ipTokens' = [ipTokens EXCEPT ![account] = ipTokens[account] + (-ipAmount)]
      BY <1>2, <2>1, <3>1
    <3>3. Supply' = Supply + (-ipAmount)
      BY <3>1, <3>2, <1>3, SupplyChanges
    <3> QED BY <3>3, <2>1, NumbersOfPool
  <2>3. soap' = soap /\ UNCHANGED marketVars
    <3>1. NewTx'.soap = soap'
      BY DEF NewTx
    <3> QED BY <3>1, <1>2, <1>12, <1>19
  <2>4. PoolShifts(NewTx, NewTx', -wad)
    <3>1. -wad \in Int
      BY <1>4
    <3> QED BY <3>1, <1>7, <1>12, <1>23, SameThenShifted
  <2> QED BY <2>1, <2>2, <2>3, <2>4, <1>2, <1>4, <1>17 DEF RedeemedStep
<1> QED BY <1>20, <1>21

(* The pool depends on no more. *)
LEMMA SameNumbersSamePool ==
    ASSUME NEW tx \in Tx, NEW r, r.balances.totalCollateral = tx.balances.totalCollateral,
           r.balances.liquidityPool = tx.balances.liquidityPool,
           r.balances.vault = tx.balances.vault, r.vault = tx.vault, r.unowned = tx.unowned
    PROVE  SamePool(tx, r)
<1>1. tx.vault \in Vault /\ PoolOf(tx) \in Int
  BY TxFields, MarginType
<1>2. tx.vault.conversions \in Int /\ RoundingAt(tx.vault.current) \in Int
  BY <1>1, VaultFields, HeldTypes
<1>3. RoundingsFrom(tx.vault, r.vault) = 0 /\ PoolOf(r) = PoolOf(tx)
  BY <1>2 DEF RoundingsFrom, PoolOf
<1> QED BY <1>1, <1>2, <1>3 DEF SamePool

(* The treasuries are paid what is taken off their books. *)
LEMMA TreasuryKeeps ==
    ASSUME BookInv, TransferToTreasury \/ TransferToCharlieTreasury
    PROVE  KeptStep
<1>1. PICK amount \in TreasuryAmounts :
         /\ \/ UpdateStorageWhenTransferToTreasury(joseph, ToWad(ToAsset(amount)))
            \/ UpdateStorageWhenTransferToCharlieTreasury(joseph, ToWad(ToAsset(amount)))
         /\ ToAsset(amount) <= cash
         /\ cash' = cash - ToAsset(amount)
         /\ UNCHANGED <<vault, ipTokens, ratio, pausedContracts, marketVars, historyVars>>
  BY DEF TransferToTreasury, TransferToCharlieTreasury
<1> DEFINE assets == ToAsset(amount)
           paid   == ToWad(assets)
           b      == balances'
           r      == WithBooks(NewTx, b, cash')
<1>2. /\ Sound(NewTx) /\ NewTx \in Tx /\ RestTypeOK /\ cash \in Nat /\ balances \in Balances
      /\ ToWad(cash) \in Int
  BY StateNumbers
<1>3. assets \in Nat /\ paid \in Nat
  <2>1. assets \in Nat
    BY AmmAssumption, RoundingWithin
  <2> HIDE DEF assets
  <2> QED BY <2>1, WholeToWad
<1> HIDE DEF assets
<1>4. /\ \/ paid <= balances.treasury /\ b = [balances EXCEPT !.treasury = @ - paid]
         \/ /\ paid <= balances.iporPublicationFee
            /\ b = [balances EXCEPT !.iporPublicationFee = @ - paid]
      /\ UNCHANGED <<lastSwapId, swaps, ids, soap, contribution, milton, joseph, paused>>
  BY <1>1 DEF UpdateStorageWhenTransferToTreasury,
              UpdateStorageWhenTransferToCharlieTreasury, assets
<1>5. cash' \in Nat /\ ToWad(cash') - ToWad(cash) = -paid
  <2>1. cash' = cash - assets /\ assets <= cash
    BY <1>1 DEF assets
  <2>2. ToWad(cash - assets) = ToWad(cash) - paid
    BY <1>2, <1>3, ToWadSum
  <2> HIDE DEF paid
  <2> QED BY <2>1, <2>2, <1>2, <1>3
<1> HIDE DEF paid
<1>6. /\ b \in Balances /\ b.vault = balances.vault /\ b.liquidityPool = balances.liquidityPool
      /\ b.totalCollateral = balances.totalCollateral
      /\ BookedClaims(b) - BookedClaims(balances) = -paid
  <2>1. /\ balances.totalCollateral[PayFixed] \in Nat
        /\ balances.totalCollateral[ReceiveFixed] \in Nat
        /\ balances.liquidityPool \in Nat
        /\ balances.iporPublicationFee \in Nat /\ balances.treasury \in Nat
        /\ balances.iporPublicationFee \in UInt128 /\ balances.treasury \in UInt128
    <3>1. balances.iporPublicationFee \in UInt128 /\ balances.treasury \in UInt128
      BY <1>2 DEF Balances
    <3> QED BY <3>1, <1>2, BalancesFields
  <2>2. \A x \in UInt128 : paid <= x => x - paid \in UInt128
    BY <1>3, StorageAssumption DEF UInt128
  <2> HIDE DEF b
  <2>3. CASE paid <= balances.treasury /\ b = [balances EXCEPT !.treasury = @ - paid]
    <3>1. balances.treasury - paid \in UInt128
      BY <2>1, <2>2, <2>3
    <3>2. /\ b \in Balances /\ b.vault = balances.vault
          /\ b.liquidityPool = balances.liquidityPool
          /\ b.totalCollateral = balances.totalCollateral
          /\ b.iporPublicationFee = balances.iporPublicationFee
          /\ b.treasury = balances.treasury - paid
      BY <3>1, <2>3, <1>2 DEF Balances
    <3> QED BY <3>2, <2>1, <1>3 DEF BookedClaims
  <2>4. CASE paid <= balances.iporPublicationFee
             /\ b = [balances EXCEPT !.iporPublicationFee = @ - paid]
    <3>1. balances.iporPublicationFee - paid \in UInt128
      BY <2>1, <2>2, <2>4
    <3>2. /\ b \in Balances /\ b.vault = balances.vault
          /\ b.liquidityPool = balances.liquidityPool
          /\ b.totalCollateral = balances.totalCollateral
          /\ b.iporPublicationFee = balances.iporPublicationFee - paid
          /\ b.treasury = balances.treasury
      BY <3>1, <2>4, <1>2 DEF Balances
    <3> QED BY <3>2, <2>1, <1>3 DEF BookedClaims
  <2> QED BY <2>3, <2>4, <1>4
<1>7. RestTypeOK' /\ UNCHANGED lastSwapId
  BY <1>1, <1>2, <1>4 DEF RestTypeOK, marketVars, historyVars
<1> HIDE DEF b
<1>9. /\ Sound(r) /\ r.ok = TRUE /\ r.cash = cash' /\ r.soap = NewTx.soap
      /\ r.payout = 0 /\ r.swaps = NewTx.swaps /\ r.ids = NewTx.ids /\ r.vault = NewTx.vault
      /\ r.balances = b /\ r.unowned = NewTx.unowned
      /\ Covered(r) <=> Covered(NewTx)
      /\ Surplus(r) = Surplus(NewTx)
  <2>1. /\ Sound(r)
        /\ r.ok = NewTx.ok /\ r.payout = NewTx.payout /\ r.cash = cash'
        /\ r.swaps = NewTx.swaps /\ r.ids = NewTx.ids /\ r.soap = NewTx.soap
        /\ r.vault = NewTx.vault
        /\ r.balances = b /\ r.unowned = NewTx.unowned
        /\ Covered(r) <=> Covered(NewTx)
        /\ Surplus(r) = (Surplus(NewTx) + (ToWad(cash') - ToWad(NewTx.cash)))
                        - (BookedClaims(b) - BookedClaims(NewTx.balances))
    BY <1>2, <1>5, <1>6, FieldsOfNewTx, BooksOfCash
  <2>2. Surplus(NewTx) \in Int
    BY <1>2, TxFields
  <2>3. (Surplus(NewTx) + (-paid)) - (-paid) = Surplus(NewTx)
    BY <2>2, <1>3
  <2> QED BY <2>1, <2>3, <1>5, <1>6, FieldsOfNewTx
<1>8. NewTx' = r
  <2>1. r \in Tx /\ r.payout = 0
    BY <1>9 DEF Sound
  <2>2. r.ok = TRUE /\ r.cash = cash' /\ r.soap = NewTx.soap
    BY <1>9
  <2> HIDE DEF r
  <2>3. /\ swaps' = r.swaps /\ ids' = r.ids /\ balances' = r.balances /\ soap' = r.soap
        /\ cash' = r.cash /\ vault' = r.vault /\ unowned' = r.unowned
    <3>1. balances' = r.balances
      BY <1>9 DEF b
    <3>2. /\ swaps' = NewTx.swaps /\ ids' = NewTx.ids /\ soap' = NewTx.soap /\ vault' = NewTx.vault
          /\ unowned' = NewTx.unowned
      BY <1>1, <1>4, FieldsOfNewTx DEF historyVars
    <3> QED BY <3>1, <3>2, <2>2, <1>9
  <2> QED BY <2>1, <2>2, <2>3, StateOfTx
<1> HIDE DEF r
<1>10. Kept(NewTx, r)
  <2>1. SameContracts(NewTx.vault, r.vault)
    BY <1>9 DEF SameContracts
  <2> QED BY <2>1, <1>2, <1>9, SameSwapsIsKept
<1>11. SamePool(NewTx, r) /\ Margin(NewTx) <= Margin(r)
  <2>1. /\ r.balances.totalCollateral = NewTx.balances.totalCollateral
        /\ r.balances.liquidityPool = NewTx.balances.liquidityPool
        /\ r.balances.vault = NewTx.balances.vault
        /\ r.vault = NewTx.vault /\ r.unowned = NewTx.unowned
    BY <1>6, <1>9, FieldsOfNewTx
  <2>2. SamePool(NewTx, r)
    BY <2>1, <1>2, SameNumbersSamePool
  <2> QED BY <2>2, <1>2, <1>9, SamePoolKeepsMargin DEF Sound
<1>12. PoolKept
  BY <1>8, <1>11 DEF PoolKept
<1>13. CoverKept
  BY <1>1, <1>8, <1>9, <1>11, MarginCovers DEF historyVars
<1> QED BY <1>7, <1>8, <1>10, <1>12, <1>13 DEF KeptStep

(* Steps that change Stanley's vault alone. *)
LEMMA VaultAloneBooks ==
    ASSUME BookInv, UNCHANGED <<storageVars, cash, unowned>>, VaultOK(vault')
    PROVE  /\ Sound(NewTx')
           /\ NewTx'.swaps = NewTx.swaps /\ NewTx'.ids = NewTx.ids
           /\ NewTx'.balances = balances /\ NewTx'.vault = vault' /\ NewTx'.unowned = unowned
           /\ Surplus(NewTx') = Surplus(NewTx) /\ OpenSwaps(NewTx') = OpenSwaps(NewTx)
<1> DEFINE r == NewTx'
           w == vault'
<1>1. Sound(NewTx) /\ NewTx \in Tx
  BY StateNumbers
<1>2. /\ swaps' = swaps /\ ids' = ids /\ balances' = balances /\ soap' = soap /\ cash' = cash
  BY DEF storageVars
<1>3. /\ r.ok = TRUE /\ r.payout = 0
      /\ r.swaps = NewTx.swaps /\ r.ids = NewTx.ids /\ r.balances = NewTx.balances
      /\ r.soap = NewTx.soap /\ r.cash = NewTx.cash /\ r.vault = w
      /\ r.unowned = NewTx.unowned
  BY <1>2 DEF NewTx
<1>4. r = [ok |-> TRUE, swaps |-> NewTx.swaps, ids |-> NewTx.ids, balances |-> NewTx.balances,
           soap |-> NewTx.soap, cash |-> NewTx.cash, vault |-> w, payout |-> 0,
           unowned |-> NewTx.unowned]
  BY <1>2 DEF NewTx
<1>5. w \in Vault
  BY DEF VaultOK
<1> HIDE DEF r
<1>6. Sound(r)
  <2>1. r \in Tx
    BY <1>1, <1>4, <1>5 DEF Tx
  <2>2. Whole(r.payout)
    BY <1>3, WholeZero
  <2>3. \A leg \in Leg : LegConsistent(r.swaps[leg], r.ids[leg])
    BY <1>1, <1>3 DEF Sound
  <2>4. VaultOK(r.vault)
    BY <1>3
  <2> QED BY <2>1, <2>2, <2>3, <2>4 DEF Sound
<1>7. Surplus(r) = Surplus(NewTx)
  <2>1. r.payout = NewTx.payout /\ DepositsIn(r) = DepositsIn(NewTx)
    BY <1>3, FieldsOfNewTx DEF DepositsIn
  <2> QED BY <2>1, <1>3 DEF Surplus
<1>8. OpenSwaps(r) = OpenSwaps(NewTx)
  BY <1>3 DEF OpenSwaps
<1> QED BY <1>3, <1>6, <1>7, <1>8, FieldsOfNewTx DEF r

(* Moving tokens from contract to contract: Compound's roundings count. *)
LEMMA VaultMoves ==
    ASSUME NEW tx, NEW r, Sound(tx), Sound(r), r.balances = tx.balances, r.unowned = tx.unowned,
           r.vault.reported = tx.vault.reported, Changes(tx.vault, r.vault, 0)
    PROVE  /\ Covered(tx) => Covered(r)
           /\ SamePool(tx, r)
           /\ Margin(tx) <= Margin(r)
<1> DEFINE v == tx.vault
           w == r.vault
           f == RoundingsFrom(v, w)
<1>1. /\ tx \in Tx /\ r \in Tx /\ v \in Vault /\ w \in Vault
      /\ tx.balances \in Balances /\ tx.unowned \in Nat
  BY TxFields DEF Sound
<1>2. /\ tx.balances.vault \in Nat /\ tx.balances.liquidityPool \in Nat
      /\ AllHeld(v) \in Nat /\ AllHeld(w) \in Nat
      /\ AllStored(v) \in Nat /\ AllStored(w) \in Nat
      /\ RoundingAt(v.current) \in Nat
      /\ v.conversions \in Nat /\ w.conversions \in Nat /\ v.reported \in Nat
  BY <1>1, BalancesFields, HeldTypes, VaultFields
<1>3. /\ w.current = v.current /\ v.conversions <= w.conversions /\ f \in Nat
      /\ AllHeld(v) - f <= AllHeld(w) /\ AllHeld(w) <= AllHeld(v) + f
      /\ AllStored(v) - f <= AllStored(w)
  <2>1. f \in Nat
    BY <1>1, RoundingsType DEF Changes
  <2>2. AllHeld(v) + 0 = AllHeld(v) /\ AllStored(v) + 0 = AllStored(v)
    BY <1>2
  <2> QED BY <2>1, <2>2 DEF Changes
<1>4. (w.conversions - w.reported) * RoundingAt(w.current)
         = (v.conversions - v.reported) * RoundingAt(v.current) + f
  <2>1. \A a, b, c, x \in Int : (c - a) * x = (b - a) * x + (c - b) * x
    BY SMT
  <2> QED BY <2>1, <1>2, <1>3 DEF RoundingsFrom
<1>5. (v.conversions - v.reported) * RoundingAt(v.current) \in Nat
  BY SinceReported DEF Sound
<1>6. /\ PoolOf(tx) = (tx.balances.liquidityPool + AllHeld(v) + tx.unowned) - tx.balances.vault
      /\ PoolOf(r) = (tx.balances.liquidityPool + AllHeld(w) + tx.unowned) - tx.balances.vault
  BY DEF PoolOf
<1> DEFINE s == (v.conversions - v.reported) * RoundingAt(v.current)
           s2 == (w.conversions - w.reported) * RoundingAt(w.current)
<1>7. /\ s \in Nat /\ s2 = s + f
      /\ Covered(tx) <=> tx.balances.vault <= AllStored(v) + s
      /\ Covered(r) <=> tx.balances.vault <= AllStored(w) + s2
  BY <1>4, <1>5 DEF Covered
<1> HIDE DEF s, s2, f
<1>8. Covered(tx) => Covered(r)
  BY <1>2, <1>3, <1>7
<1>9. PoolOf(tx) - f <= PoolOf(r) /\ PoolOf(r) <= PoolOf(tx) + f
  BY <1>1, <1>2, <1>3, <1>6
<1>10. SamePool(tx, r)
  BY <1>3, <1>9 DEF SamePool, f
<1> QED BY <1>1, <1>8, <1>10, SamePoolKeepsMargin

(* What contracts earn is the pool's. *)
LEMMA VaultEarns ==
    ASSUME NEW tx, NEW r, Sound(tx), Sound(r), r.balances = tx.balances, r.unowned = tx.unowned,
           r.vault.reported = tx.vault.reported, r.vault.conversions = tx.vault.conversions,
           tx.vault.current <= r.vault.current,
           AllHeld(tx.vault) <= AllHeld(r.vault), AllStored(tx.vault) <= AllStored(r.vault)
    PROVE  /\ Covered(tx) => Covered(r)
           /\ Margin(tx) <= Margin(r)
<1> DEFINE v == tx.vault
           w == r.vault
           n == v.conversions - v.reported
<1>1. /\ tx \in Tx /\ r \in Tx /\ v \in Vault /\ w \in Vault
      /\ tx.balances \in Balances /\ tx.unowned \in Nat
  BY TxFields DEF Sound
<1>2. /\ tx.balances.vault \in Nat /\ tx.balances.liquidityPool \in Nat
      /\ AllHeld(v) \in Nat /\ AllHeld(w) \in Nat
      /\ AllStored(v) \in Nat /\ AllStored(w) \in Nat
      /\ v.conversions \in Nat /\ v.current \in Nat /\ w.current \in Nat
      /\ CollateralOf(tx.balances) \in Nat
      /\ RoundingAt(v.current) \in Nat /\ RoundingAt(w.current) \in Nat
  BY <1>1, BalancesFields, HeldTypes, VaultFields, MarginType
<1>3. RoundingAt(v.current) <= RoundingAt(w.current)
  BY <1>2, RoundingGrows
<1>4. n \in Nat
  BY <1>1, VaultFields DEF Sound, VaultOK
<1> DEFINE s  == n * RoundingAt(v.current)
           s2 == n * RoundingAt(w.current)
           c  == v.conversions * RoundingAt(v.current)
           c2 == v.conversions * RoundingAt(w.current)
<1>5. /\ s \in Nat /\ s2 \in Nat /\ s <= s2
      /\ c \in Nat /\ c2 \in Nat /\ c <= c2
  <2>1. s \in Nat /\ s2 \in Nat /\ c \in Nat /\ c2 \in Nat
    BY <1>2, <1>4, ProductOfNaturals
  <2> HIDE DEF n
  <2> QED BY <2>1, <1>2, <1>3, <1>4, ProductMonotonic
<1>6. /\ Covered(tx) <=> tx.balances.vault <= AllStored(v) + s
      /\ Covered(r) <=> tx.balances.vault <= AllStored(w) + s2
      /\ Margin(tx) = (((tx.balances.liquidityPool + AllHeld(v) + tx.unowned) - tx.balances.vault) + c)
                      - CollateralOf(tx.balances)
      /\ Margin(r) = (((tx.balances.liquidityPool + AllHeld(w) + tx.unowned) - tx.balances.vault) + c2)
                     - CollateralOf(tx.balances)
  BY DEF Covered, Margin, PoolOf, RoundingsOf
<1>7. AllHeld(v) <= AllHeld(w) /\ AllStored(v) <= AllStored(w)
  OBVIOUS
<1> HIDE DEF s, s2, c, c2, n, v, w
<1> QED BY <1>1, <1>2, <1>5, <1>6, <1>7

(* The owner pauses a contract or sets the ratio, and anyone migrates the
   assets. *)
LEMMA OwnerKeeps ==
    ASSUME BookInv,
           SetMiltonStanleyBalanceRatio \/ PauseMilton \/ PauseJoseph \/ PauseStanley
              \/ MigrateAssetToStrategyWithMaxApr
    PROVE  KeptStep
<1>1. RestTypeOK /\ VaultOK(vault) /\ vault \in Vault
  BY StateNumbers
<1>2. /\ UNCHANGED <<storageVars, cash, unowned, hidden>>
      /\ RestTypeOK'
      /\ VaultOK(vault') /\ SameContracts(vault, vault')
      /\ vault'.reported = vault.reported /\ Changes(vault, vault', 0)
  <2>1. CASE SetMiltonStanleyBalanceRatio
    <3>1. /\ ratio' \in Ratios
          /\ UNCHANGED <<storageVars, cash, vault, ipTokens, pausedContracts, marketVars, historyVars>>
      BY <2>1 DEF SetMiltonStanleyBalanceRatio
    <3>2. RestTypeOK' /\ UNCHANGED <<unowned, hidden>>
      BY <3>1, <1>1 DEF RestTypeOK, storageVars, marketVars, historyVars
    <3> QED BY <3>1, <3>2, <1>1, SameContractsItself, ChangesNothing
  <2>2. CASE PauseMilton \/ PauseJoseph
    <3>1. PICK c \in {"Milton", "Joseph"} :
            /\ Toggled(c)
            /\ UNCHANGED <<storageVars, cash, vault, ipTokens, ratio, marketVars, historyVars>>
      BY <2>2 DEF PauseMilton, PauseJoseph
    <3>2. RestTypeOK' /\ UNCHANGED <<unowned, hidden>>
      <4>1. pausedContracts' \subseteq {"Milton", "Joseph"}
        BY <3>1, <1>1 DEF RestTypeOK, Toggled
      <4> QED BY <4>1, <3>1, <1>1 DEF RestTypeOK, storageVars, marketVars, historyVars
    <3> QED BY <3>1, <3>2, <1>1, SameContractsItself, ChangesNothing
  <2>3. CASE PauseStanley
    <3>1. /\ vault' = [vault EXCEPT !.paused = ~@]
          /\ UNCHANGED <<storageVars, cash, ipTokens, ratio, pausedContracts, marketVars, historyVars>>
      BY <2>3 DEF PauseStanley
    <3>2. RestTypeOK' /\ UNCHANGED <<unowned, hidden>>
      BY <3>1, <1>1 DEF RestTypeOK, storageVars, marketVars, historyVars
    <3>3. /\ vault' \in Vault
          /\ vault'.at = vault.at /\ vault'.held = vault.held /\ vault'.approved = vault.approved
          /\ vault'.stored = vault.stored /\ vault'.current = vault.current
          /\ vault'.conversions = vault.conversions /\ vault'.reported = vault.reported
      BY <3>1, <1>1 DEF Vault
    <3>4. SameContracts(vault, vault') /\ VaultOK(vault')
      BY <3>3, <1>1 DEF SameContracts, VaultOK, AaveHeldWhole, RatesOrdered
    <3>5. AllHeld(vault') = AllHeld(vault) /\ AllStored(vault') = AllStored(vault)
      BY <3>3, <1>1, VaultFields, SameHeldSameAll DEF AllHeld, AllStored
    <3>6. Changes(vault, vault', 0)
      BY <3>3, <3>5, <1>1, ChangesNothing, SharesChangeNothing
    <3> QED BY <3>1, <3>2, <3>3, <3>4, <3>6
  <2>4. CASE MigrateAssetToStrategyWithMaxApr
    <3>1. /\ Migrate(vault).ok /\ vault' = Migrate(vault).vault
          /\ UNCHANGED <<storageVars, cash, ipTokens, ratio, pausedContracts, marketVars, historyVars>>
      BY <2>4 DEF MigrateAssetToStrategyWithMaxApr
    <3>2. RestTypeOK' /\ UNCHANGED <<unowned, hidden>>
      BY <3>1, <1>1 DEF RestTypeOK, storageVars, marketVars, historyVars
    <3> QED BY <3>1, <3>2, <1>1, MigrateKeepsVault
  <2> QED BY <2>1, <2>2, <2>3, <2>4
<1>3. PICK r : r = NewTx'
  OBVIOUS
<1>4. /\ Sound(NewTx) /\ Sound(r)
      /\ r.swaps = NewTx.swaps /\ r.ids = NewTx.ids /\ r.balances = NewTx.balances
      /\ r.unowned = NewTx.unowned /\ r.vault = vault' /\ NewTx.vault = vault
      /\ Surplus(r) = Surplus(NewTx)
  BY <1>2, <1>3, StateNumbers, VaultAloneBooks, FieldsOfNewTx
<1>5. /\ SameContracts(NewTx.vault, r.vault)
      /\ r.vault.reported = NewTx.vault.reported /\ Changes(NewTx.vault, r.vault, 0)
  BY <1>2, <1>4
<1>6. Covered(NewTx) => Covered(r)
  BY <1>4, <1>5, VaultMoves
<1>7. SamePool(NewTx, r) /\ Margin(NewTx) <= Margin(r)
  BY <1>4, <1>5, VaultMoves
<1>8. Kept(NewTx, r)
  BY <1>4, <1>5, <1>6, SameSwapsIsKept
<1>9. CoverKept
  BY <1>2, <1>3, <1>4, <1>7, MarginCovers
<1>10. PoolKept /\ Kept(NewTx, NewTx')
  BY <1>3, <1>7, <1>8 DEF PoolKept
<1>11. UNCHANGED lastSwapId
  BY <1>2 DEF storageVars
<1> QED BY <1>2, <1>9, <1>10, <1>11 DEF KeptStep

(* Time passes and the strategies earn. *)
LEMMA TickKeeps ==
    ASSUME BookInv, Tick
    PROVE  KeptStep
<1>1. RestTypeOK /\ VaultOK(vault) /\ now \in UInt32 /\ ReplacedAreLeft(vault)
  BY StateNumbers DEF BookInv
<1>2. PICK price \in IbtPrices : ibtPrice' = price
  BY DEF Tick
<1>3. PICK earning \in SUBSET {c \in AaveContracts : vault.held[c] > 0},
           step \in RateSteps, stored \in BOOLEAN, max \in Strategy :
         vault' = [vault EXCEPT !.held = Earned(@, earning),
                                !.current = @ + step,
                                !.stored = IF stored THEN vault.current + step ELSE @,
                                !.max = max]
  BY DEF Tick
<1>4. /\ now < MaxTime /\ now' = now + 1
      /\ UNCHANGED <<storageVars, cash, ipTokens, ratio, pausedContracts, unowned, hidden>>
  BY DEF Tick, historyVars
<1>5. /\ VaultOK(vault')
      /\ SameContracts(vault, vault')
      /\ vault'.conversions = vault.conversions /\ vault'.reported = vault.reported
      /\ vault.current <= vault'.current
      /\ AllHeld(vault) <= AllHeld(vault') /\ AllStored(vault) <= AllStored(vault')
  <2> DEFINE rate == IF stored THEN vault.current + step ELSE vault.stored
  <2>1. vault' = [vault EXCEPT !.held = Earned(@, earning), !.current = @ + step,
                               !.stored = rate, !.max = max]
    BY <1>3
  <2>2. rate = vault.stored \/ rate = vault.current + step
    OBVIOUS
  <2> HIDE DEF rate
  <2>3. step \in Nat
    BY AmmAssumption
  <2> DEFINE w == [vault EXCEPT !.held = Earned(@, earning), !.current = @ + step,
                                !.stored = rate, !.max = max]
  <2>4. /\ VaultOK(w)
        /\ SameContracts(vault, w)
        /\ w.conversions = vault.conversions /\ w.reported = vault.reported
        /\ vault.current <= w.current
        /\ AllHeld(vault) <= AllHeld(w) /\ AllStored(vault) <= AllStored(w)
    BY <2>2, <2>3, <1>1, EarningKeepsVault, Zenon
  <2>5. vault' = w
    BY <2>1
  <2> HIDE DEF w
  <2> QED BY <2>4, <2>5
<1>6. PICK r : r = NewTx'
  OBVIOUS
<1>7. /\ Sound(NewTx) /\ Sound(r)
      /\ r.swaps = NewTx.swaps /\ r.ids = NewTx.ids /\ r.balances = NewTx.balances
      /\ r.unowned = NewTx.unowned /\ r.vault = vault' /\ NewTx.vault = vault
      /\ Surplus(r) = Surplus(NewTx)
  BY <1>4, <1>5, <1>6, StateNumbers, VaultAloneBooks, FieldsOfNewTx
<1>8. (Covered(NewTx) => Covered(r)) /\ Margin(NewTx) <= Margin(r)
  BY <1>5, <1>7, VaultEarns
<1>9. Kept(NewTx, NewTx')
  BY <1>5, <1>6, <1>7, <1>8, SameSwapsIsKept
<1>10. CoverKept
  BY <1>4, <1>6, <1>7, <1>8, MarginCovers
<1>11. now' \in 0..MaxTime /\ now' # now
  <2>1. now \in Nat /\ MaxTime \in Nat
    BY <1>1, AmmAssumption, StorageAssumption DEF UInt32
  <2> QED BY <2>1, <1>4
<1>12. RestTypeOK'
  BY <1>1, <1>2, <1>4, <1>11 DEF RestTypeOK, storageVars
<1>13. UNCHANGED lastSwapId
  BY <1>4 DEF storageVars
<1>14. PoolKept
  BY <1>11 DEF PoolKept
<1> QED BY <1>9, <1>10, <1>12, <1>13, <1>14 DEF KeptStep

-----------------------------------------------------------------------------
(* Opening *)

(* The collateral and the opening fee are, but for a unit of the fixed point,
   what the buyer sends less the deposit and the publication fee. *)
LEMMA OpenAmountsRound ==
    ASSUME NEW total \in Nat, NEW leverage \in Nat,
           total > LIQUIDATION_DEPOSIT * D18 + PUBLICATION_FEE
    PROVE  LET a == OpenAmounts(total, leverage)
           IN  /\ a.collateral \in Nat /\ a.notional \in Nat /\ a.openingFee \in Nat
               /\ Within((total - (LIQUIDATION_DEPOSIT * D18 + PUBLICATION_FEE))
                             - (a.collateral + a.openingFee), 2)
<1> DEFINE deposit == LIQUIDATION_DEPOSIT * D18
           x == (total - deposit) - PUBLICATION_FEE
           s == D18 + OPENING_FEE_RATE
           c == Division(x * D18, s)
           f == Division(c * OPENING_FEE_RATE, D18)
           m == Division(leverage * c, D18)
<1>1. /\ D18 \in Nat \ {0} /\ OPENING_FEE_RATE \in Nat /\ OPENING_FEE_RATE <= D18
      /\ deposit \in Nat /\ PUBLICATION_FEE \in Nat
  <2>1. /\ LIQUIDATION_DEPOSIT \in Nat /\ PUBLICATION_FEE \in Nat
        /\ OPENING_FEE_RATE \in 0..D18
    BY MiltonAssumption
  <2> QED BY <2>1, D18Assumption, ProductOfNaturals
<1>2. /\ OpenAmounts(total, leverage).collateral = c
      /\ OpenAmounts(total, leverage).notional = m
      /\ OpenAmounts(total, leverage).openingFee = f
  BY DEF OpenAmounts, CalculateSwapAmount
<1>3. x \in Nat /\ s \in Nat \ {0} /\ s <= 2 * D18
      /\ (total - (deposit + PUBLICATION_FEE)) = x
  <2> HIDE DEF deposit
  <2>1. total > deposit + PUBLICATION_FEE
    BY DEF deposit
  <2> QED BY <1>1, <2>1
<1> HIDE DEF deposit, x, s
<1>4. c \in Nat /\ Within(s * c - x * D18, s)
  <2>1. x * D18 \in Nat
    BY <1>1, <1>3, ProductOfNaturals
  <2> QED BY <2>1, <1>3, DivisionNatural, DivisionWithin
<1> HIDE DEF c
<1>5. f \in Nat /\ Within(D18 * f - c * OPENING_FEE_RATE, D18)
  <2>1. c * OPENING_FEE_RATE \in Nat
    BY <1>1, <1>4, ProductOfNaturals
  <2> QED BY <2>1, <1>1, DivisionNatural, DivisionWithin
<1>6. m \in Nat
  <2>1. leverage * c \in Nat
    BY <1>4, ProductOfNaturals
  <2> QED BY <2>1, <1>1, DivisionNatural
<1> HIDE DEF f, m
<1> DEFINE y == x - (c + f)
           z == D18 * y
           p == s * c - x * D18
           q == D18 * f - c * OPENING_FEE_RATE
<1>7. y \in Int /\ p \in Int /\ q \in Int /\ z = -(p + q)
  <2>1. y \in Int
    BY <1>3, <1>4, <1>5
  <2>2. p \in Int /\ q \in Int
    <3>1. s * c \in Int /\ x * D18 \in Int /\ D18 * f \in Int /\ c * OPENING_FEE_RATE \in Int
      BY <1>1, <1>3, <1>4, <1>5
    <3> QED BY <3>1
  <2>3. \A d, r, i, j, k \in Int :
           d * (i - (j + k)) = -(((d + r) * j - i * d) + (d * k - j * r))
    BY SMT
  <2>4. D18 * (x - (c + f))
                    = -(((D18 + OPENING_FEE_RATE) * c - x * D18) + (D18 * f - c * OPENING_FEE_RATE))
    BY <2>3, <1>1, <1>3, <1>4, <1>5
  <2> QED BY <2>1, <2>2, <2>4 DEF s
<1>8. Within(p, s) /\ Within(q, D18)
  BY <1>4, <1>5
<1> HIDE DEF p, q
<1>9. -(3 * D18) <= 2 * z /\ 2 * z <= 3 * D18 /\ z \in Int
  <2> HIDE DEF z
  <2> QED BY <1>1, <1>3, <1>7, <1>8 DEF Within
<1> HIDE DEF y
<1>10. -1 <= y /\ y <= 1
  <2>1. \A k \in Int : k <= y => D18 * k <= D18 * y
    BY <1>1, <1>7, ProductMonotonic
  <2>2. \A k \in Int : y <= k => D18 * y <= D18 * k
    BY <1>1, <1>7, ProductMonotonic
  <2>3. ASSUME y >= 2 PROVE FALSE
    <3>1. D18 * 2 <= D18 * y
      BY <2>1, <2>3
    <3>2. D18 * 2 <= z
      BY <3>1
    <3> HIDE DEF z
    <3> QED BY <3>2, <1>1, <1>9
  <2>4. ASSUME y <= -2 PROVE FALSE
    <3>1. D18 * y <= D18 * (-2)
      BY <2>2, <2>4
    <3>2. z <= -(D18 * 2)
      BY <3>1, <1>1
    <3> HIDE DEF z
    <3> QED BY <3>2, <1>1, <1>9
  <2> QED BY <2>3, <2>4, <1>7
<1>11. Within(y, 2)
  BY <1>7, <1>10 DEF Within
<1> QED BY <1>2, <1>3, <1>4, <1>5, <1>6, <1>11 DEF y, deposit

(* The terms of the new swap: its opening fee is split, and nothing is lost. *)
LEMMA NewSwapTerms ==
    ASSUME NEW total \in Nat, NEW leverage \in Nat, NEW quote \in Nat, NEW buyer,
           NEW price \in Nat \ {0}, NEW t,
           total > LIQUIDATION_DEPOSIT * D18 + PUBLICATION_FEE
    PROVE  LET new == NewSwapFor(buyer, total, leverage, quote, price, t)
           IN  /\ new.buyer = buyer /\ new.openTimestamp = t
               /\ new.collateral \in Nat /\ new.notional \in Nat /\ new.ibtQuantity \in Nat
               /\ new.fixedInterestRate \in Nat
               /\ new.liquidationDepositAmount = LIQUIDATION_DEPOSIT
               /\ new.openingFeeLPAmount \in Nat /\ new.openingFeeTreasuryAmount \in Nat
               /\ Within((total - (LIQUIDATION_DEPOSIT * D18 + PUBLICATION_FEE))
                             - (new.collateral + (new.openingFeeLPAmount
                                                    + new.openingFeeTreasuryAmount)), 2)
<1> DEFINE a == OpenAmounts(total, leverage)
           treasury == Division(a.openingFee * TREASURY_PORTION_RATE, D18)
           new == NewSwapFor(buyer, total, leverage, quote, price, t)
           sent == total - (LIQUIDATION_DEPOSIT * D18 + PUBLICATION_FEE)
<1>1. /\ a.collateral \in Nat /\ a.notional \in Nat /\ a.openingFee \in Nat
      /\ Within(sent - (a.collateral + a.openingFee), 2)
  BY OpenAmountsRound
<1>2. new = [buyer |-> buyer, openTimestamp |-> t,
             collateral |-> a.collateral, notional |-> a.notional,
             ibtQuantity |-> Division(a.notional * D18, price),
             fixedInterestRate |-> quote,
             liquidationDepositAmount |-> LIQUIDATION_DEPOSIT,
             openingFeeLPAmount |-> a.openingFee - treasury,
             openingFeeTreasuryAmount |-> treasury]
  BY DEF NewSwapFor
<1> HIDE DEF a, sent
<1>3. treasury \in 0..a.openingFee
  <2>1. TREASURY_PORTION_RATE \in 0..D18
    BY MiltonAssumption
  <2> QED BY <2>1, <1>1, PercentBelow DEF PercentOf
<1>4. Division(a.notional * D18, price) \in Nat
  <2>1. a.notional * D18 \in Nat
    BY <1>1, D18Assumption, ProductOfNaturals
  <2> QED BY <2>1, DivisionNatural
<1>5. a.openingFee - treasury \in Nat /\ treasury \in Nat
      /\ (a.openingFee - treasury) + treasury = a.openingFee
  <2> HIDE DEF treasury
  <2> QED BY <1>1, <1>3
<1> HIDE DEF new, treasury
<1>6. new.collateral = a.collateral
      /\ new.openingFeeLPAmount + new.openingFeeTreasuryAmount = a.openingFee
  BY <1>2, <1>5
<1>7. Within(sent - (new.collateral + (new.openingFeeLPAmount + new.openingFeeTreasuryAmount)), 2)
  BY <1>1, <1>6
<1> QED BY <1>1, <1>2, <1>4, <1>5, <1>7 DEF new, sent

(* The swap that is opened joins its leg, with its deposit. *)
LEMMA OpenedLeg ==
    ASSUME NEW sw \in [SwapId -> Swap], NEW id \in SwapId, ~IsActive(sw, id),
           NEW stored \in Swap, stored.state = ACTIVE,
           NEW sw2, sw2 = [sw EXCEPT ![id] = stored]
    PROVE  /\ sw2 \in [SwapId -> Swap]
           /\ ActiveOf(sw2) = ActiveOf(sw) \cup {id}
           /\ DepositOf(sw2) = DepositOf(sw) + WadDeposit(stored)
           /\ Cardinality(ActiveOf(sw2)) = Cardinality(ActiveOf(sw)) + 1
           /\ WadDeposit(stored) \in Nat
<1> DEFINE f == [j \in SwapId |-> WadDeposit(sw[j])]
           g == [j \in SwapId |-> WadDeposit(sw2[j])]
           S == ActiveOf(sw)
<1>1. sw2 \in [SwapId -> Swap] /\ sw2[id] = stored /\ \A j \in SwapId \ {id} : sw2[j] = sw[j]
  OBVIOUS
<1>2. ActiveOf(sw2) = S \cup {id} /\ id \notin S /\ S \subseteq SwapId
  BY <1>1 DEF ActiveOf, IsActive
<1>3. /\ IsFiniteSet(S)
      /\ \A j \in SwapId : WadDeposit(sw[j]) \in Nat
      /\ \A j \in SwapId : WadDeposit(sw2[j]) \in Nat
  <2>1. IsFiniteSet(S) /\ \A j \in SwapId : WadDeposit(sw[j]) \in Nat
    BY DepositOfType
  <2>2. \A j \in SwapId : WadDeposit(sw2[j]) \in Nat
    BY <1>1, DepositOfType
  <2> QED BY <2>1, <2>2
<1>4. g[id] = WadDeposit(stored) /\ g[id] \in Int /\ WadDeposit(stored) \in Nat
  BY <1>1, <1>3
<1>5. \A j \in S : f[j] \in Int /\ g[j] = f[j]
  BY <1>1, <1>2, <1>3
<1>6. DepositOf(sw) = SumFunctionOnSet(f, S) /\ DepositOf(sw2) = SumFunctionOnSet(g, S \cup {id})
  BY <1>2 DEF DepositOf
<1> HIDE DEF f, g, S
<1>7. SumFunctionOnSet(g, S \cup {id}) = SumFunctionOnSet(f, S) + g[id]
  <2>1. IsFiniteSet(S) /\ id \notin S /\ g[id] \in Int
    BY <1>2, <1>3, <1>4
  <2> QED BY <2>1, <1>5, SumWithOneMore
<1>8. Cardinality(S \cup {id}) = Cardinality(S) + 1
  BY <1>2, <1>3, FS_AddElement
<1> QED BY <1>1, <1>2, <1>4, <1>6, <1>7, <1>8 DEF S

(* A pool that was measured against the collateral, and books that are covered:
   what the check overlooked is all that can be missing. *)
LEMMA MeasuredCovers ==
    ASSUME NEW tx, Sound(tx), Covered(tx), tx.balances.liquidityPool # 0,
           Division(CollateralOf(tx.balances) * D18, tx.balances.liquidityPool) <= D18
    PROVE  -(tx.balances.liquidityPool \div (2 * D18)) <= Margin(tx)
<1> DEFINE v == tx.vault
           pool == tx.balances.liquidityPool
           e == pool \div (2 * D18)
           s == (v.conversions - v.reported) * RoundingAt(v.current)
           c == v.conversions * RoundingAt(v.current)
<1>1. /\ tx \in Tx /\ VaultOK(v) /\ v \in Vault /\ tx.balances \in Balances /\ tx.unowned \in Nat
  BY TxFields DEF Sound
<1>2. /\ pool \in Nat \ {0} /\ tx.balances.vault \in Nat /\ CollateralOf(tx.balances) \in Nat
      /\ AllHeld(v) \in Nat /\ AllStored(v) \in Nat /\ RoundingAt(v.current) \in Nat
      /\ v.conversions \in Nat /\ v.reported \in Nat
  BY <1>1, BalancesFields, HeldTypes, VaultFields, MarginType
<1>3. CollateralOf(tx.balances) - pool <= e
  BY <1>2, Overlooked
<1>4. e \in Int
  <2>1. 2 * D18 \in Nat \ {0}
    BY D18Assumption
  <2> HIDE DEF pool
  <2> QED BY <2>1, <1>2
<1>5. AllStored(v) <= AllHeld(v)
  BY <1>1, StoredBelow
<1>6. s \in Nat /\ c \in Nat /\ s <= c
  <2> DEFINE n == v.conversions - v.reported
  <2>1. n \in Nat /\ n <= v.conversions
    BY <1>1, <1>2 DEF VaultOK
  <2> HIDE DEF n
  <2>2. s = n * RoundingAt(v.current)
    BY DEF n
  <2>3. \A x, y, z \in Nat : x <= y => x * z \in Nat /\ y * z \in Nat /\ x * z <= y * z
    BY ProductOfNaturals, ProductMonotonic
  <2> QED BY <2>1, <2>2, <2>3, <1>2
<1>7. /\ tx.balances.vault <= AllStored(v) + s
      /\ Margin(tx) = (((pool + AllHeld(v) + tx.unowned) - tx.balances.vault) + c)
                      - CollateralOf(tx.balances)
  BY DEF Covered, Margin, PoolOf, RoundingsOf
<1>8. -e <= Margin(tx)
  <2> HIDE DEF s, c, e, pool, v
  <2> QED BY <1>1, <1>2, <1>3, <1>4, <1>5, <1>6, <1>7
<1> QED BY <1>8 DEF e, pool

(* What a step that opens a swap does. *)
OpenedStep ==
    /\ Sound(NewTx') /\ RestTypeOK' /\ GivenOut'
    /\ lastSwapId' = lastSwapId + 1 /\ vault' = vault /\ swaps' # swaps
    /\ Covered(NewTx) => Covered(NewTx')
    /\ OpenSwaps(NewTx') = OpenSwaps(NewTx) + 1
    /\ Within(Surplus(NewTx') - Surplus(NewTx), 2)
    /\ CoverKept

LEMMA OpenKeeps ==
    ASSUME BookInv, OpenSwap
    PROVE  OpenedStep
<1>1. PICK leg \in Leg, buyer \in Account, amount \in OpenAmountsIn,
           leverage \in Leverages, quote \in Quotes :
        LET wad == ToWad(amount)
            new == NewSwapFor(buyer, wad, leverage, quote, ibtPrice, now)
        IN  /\ BeforeOpenSwapOK(wad, leverage)
            /\ OpenUtilizationOK(balances, leg, new)
            /\ UpdateStorageWhenOpenSwap(milton, leg, new, PUBLICATION_FEE)
            /\ cash' = cash + amount
            /\ Measured(balances.liquidityPool + new.openingFeeLPAmount, 0)
            /\ UNCHANGED <<vault, ipTokens, ratio, pausedContracts, marketVars, unowned>>
  BY DEF OpenSwap
<1> DEFINE wad == ToWad(amount)
           new == NewSwapFor(buyer, wad, leverage, quote, ibtPrice, now)
           fees == LIQUIDATION_DEPOSIT * D18 + PUBLICATION_FEE
           id  == lastSwapId + 1
           sw  == swaps[leg]
           b   == BalancesWhenOpen(balances, leg, new, PUBLICATION_FEE)
           s2  == RebalanceWhenOpenSwap(soap[leg], new)
           lists2 == IdsWhenOpen(ids[leg], id, new)
           stored == [id |-> id, buyer |-> new.buyer, openTimestamp |-> new.openTimestamp,
               idsIndex |-> Len(ids[leg][new.buyer]), collateral |-> new.collateral,
               notional |-> new.notional, ibtQuantity |-> new.ibtQuantity,
               fixedInterestRate |-> new.fixedInterestRate,
               liquidationDepositAmount |-> new.liquidationDepositAmount,
               state |-> ACTIVE]
           sw2 == [sw EXCEPT ![id] = stored]
<1>2. /\ Sound(NewTx) /\ NewTx \in Tx /\ RestTypeOK /\ cash \in Nat /\ balances \in Balances
      /\ ToWad(cash) \in Int /\ now \in UInt32 /\ hidden \in Nat
  BY StateNumbers
<1>3. /\ amount \in Nat /\ leverage \in Nat /\ quote \in Nat /\ wad \in Nat
      /\ ibtPrice \in Nat \ {0} /\ PUBLICATION_FEE \in Nat /\ LIQUIDATION_DEPOSIT \in Nat
  <2>1. amount \in Nat /\ leverage \in Nat /\ quote \in Nat
    BY AmmAssumption
  <2>2. ibtPrice \in Nat \ {0} /\ PUBLICATION_FEE \in Nat /\ LIQUIDATION_DEPOSIT \in Nat
    BY <1>2, AmmAssumption, MiltonAssumption DEF RestTypeOK
  <2> QED BY <2>1, <2>2, WholeToWad
<1>4. wad > fees
  BY <1>1 DEF BeforeOpenSwapOK
<1>5. /\ milton = milton
      /\ id \in SwapId
      /\ NewSwapFits(new)
      /\ BalancesFit(b)
      /\ CanUpdateSoapWhenOpen(soap[leg], new)
      /\ lastSwapId' = id
      /\ swaps' = [swaps EXCEPT ![leg] = SwapsWhenOpen(sw, ids[leg], id, new)]
      /\ ids' = [ids EXCEPT ![leg] = lists2]
      /\ balances' = b
      /\ soap' = [soap EXCEPT ![leg] = s2]
      /\ UNCHANGED <<contribution, milton, joseph, paused>>
  BY <1>1 DEF UpdateStorageWhenOpenSwap
<1>6. SwapsWhenOpen(sw, ids[leg], id, new) = sw2
  BY DEF SwapsWhenOpen
<1>7. /\ new.buyer = buyer /\ new.openTimestamp = now
      /\ new.collateral \in Nat /\ new.notional \in Nat /\ new.ibtQuantity \in Nat
      /\ new.fixedInterestRate \in Nat
      /\ new.liquidationDepositAmount = LIQUIDATION_DEPOSIT
      /\ new.openingFeeLPAmount \in Nat /\ new.openingFeeTreasuryAmount \in Nat
      /\ Within((wad - fees) - (new.collateral + (new.openingFeeLPAmount
                                                    + new.openingFeeTreasuryAmount)), 2)
  <2> HIDE DEF wad, new
  <2>1. wad > LIQUIDATION_DEPOSIT * D18 + PUBLICATION_FEE
    BY <1>4
  <2> QED BY <2>1, <1>3, NewSwapTerms DEF new
<1>8. /\ swaps \in [Leg -> [SwapId -> Swap]] /\ sw \in [SwapId -> Swap]
      /\ ids \in [Leg -> [Account -> Seq(SwapId)]] /\ ids[leg] \in [Account -> Seq(SwapId)]
      /\ soap \in [Leg -> SoapOfLegType] /\ soap[leg] \in SoapOfLegType
      /\ LegConsistent(sw, ids[leg])
  <2>1. /\ swaps \in [Leg -> [SwapId -> Swap]]
        /\ ids \in [Leg -> [Account -> Seq(SwapId)]]
        /\ soap \in [Leg -> SoapOfLegType]
    BY <1>2, TxFields, FieldsOfNewTx
  <2>2. LegConsistent(sw, ids[leg])
    BY <1>2, FieldsOfNewTx DEF Sound
  <2> QED BY <2>1, <2>2
<1>9. ~IsActive(sw, id) /\ id \in UInt32 /\ lastSwapId \in Nat
      /\ Len(ids[leg][buyer]) \in UInt32
  <2>1. /\ lastSwapId \in Nat /\ MAX_UINT32 \in Nat
        /\ \A j \in ActiveOf(sw) : j <= lastSwapId
        /\ Len(ids[leg][buyer]) <= lastSwapId
    BY <1>2, StorageAssumption DEF BookInv, GivenOut, RestTypeOK, UInt32
  <2>2. Len(ids[leg][buyer]) \in Nat
    BY <1>8
  <2> QED BY <2>1, <2>2, <1>5 DEF SwapId, UInt32, ActiveOf
<1>10. stored \in Swap /\ stored.state = ACTIVE
       /\ stored.liquidationDepositAmount = LIQUIDATION_DEPOSIT
  <2>1. /\ new.collateral \in UInt128
        /\ new.notional \in UInt128
        /\ new.ibtQuantity \in UInt128
        /\ new.fixedInterestRate \in UInt64
        /\ new.liquidationDepositAmount \in UInt32
    <3> HIDE DEF new
    <3> QED BY <1>3, <1>5, <1>7, FitsType, StorageAssumption
            DEF NewSwapFits, UInt32, UInt64, UInt128
  <2> HIDE DEF new, id
  <2> QED
    BY <2>1, <1>2, <1>7, <1>9 DEF Swap
<1> HIDE DEF wad, new, id, sw
<1>11. LegConsistent(SwapsWhenOpen(sw, ids[leg], id, new), lists2)
  <2>1. LegTypeOK(sw, ids[leg]) /\ new.buyer \in Account
    BY <1>7, <1>8 DEF LegTypeOK
  <2> QED BY <2>1, <1>5, <1>8, <1>9, OpenKeepsLegConsistent
<1> HIDE DEF stored
<1>12. /\ sw2 \in [SwapId -> Swap]
       /\ ActiveOf(sw2) = ActiveOf(sw) \cup {id}
       /\ DepositOf(sw2) = DepositOf(sw) + LIQUIDATION_DEPOSIT * D18
       /\ Cardinality(ActiveOf(sw2)) = Cardinality(ActiveOf(sw)) + 1
       /\ LIQUIDATION_DEPOSIT * D18 \in Nat
  <2>1. WadDeposit(stored) = LIQUIDATION_DEPOSIT * D18
    BY <1>10 DEF WadDeposit
  <2>2. /\ sw2 \in [SwapId -> Swap]
        /\ ActiveOf(sw2) = ActiveOf(sw) \cup {id}
        /\ DepositOf(sw2) = DepositOf(sw) + WadDeposit(stored)
        /\ Cardinality(ActiveOf(sw2)) = Cardinality(ActiveOf(sw)) + 1
        /\ WadDeposit(stored) \in Nat
    BY <1>5, <1>8, <1>9, <1>10, OpenedLeg
  <2> QED BY <2>1, <2>2
<1> HIDE DEF sw2
<1>13. /\ lists2 \in [Account -> Seq(SwapId)]
       /\ \A a \in Account : Len(lists2[a]) <= Len(ids[leg][a]) + 1
  <2>1. lists2 = [ids[leg] EXCEPT ![buyer] = Append(ids[leg][buyer], id)]
    BY <1>7 DEF IdsWhenOpen
  <2> HIDE DEF lists2
  <2>2. Append(ids[leg][buyer], id) \in Seq(SwapId)
        /\ Len(Append(ids[leg][buyer], id)) = Len(ids[leg][buyer]) + 1
    BY <1>5, <1>8
  <2>3. lists2 \in [Account -> Seq(SwapId)]
    BY <2>1, <2>2, <1>8
  <2>4. \A a \in Account : Len(ids[leg][a]) \in Nat
    BY <1>8
  <2>5. \A a \in Account : lists2[a] = IF a = buyer THEN Append(ids[leg][buyer], id)
                                       ELSE ids[leg][a]
    BY <2>1, <1>8
  <2> QED BY <2>2, <2>3, <2>4, <2>5
<1>14. /\ b \in Balances /\ b.vault = balances.vault
       /\ b.liquidityPool = balances.liquidityPool + new.openingFeeLPAmount
       /\ CollateralOf(b) = CollateralOf(balances) + new.collateral
       /\ BookedClaims(b) = BookedClaims(balances)
            + (PUBLICATION_FEE + (new.collateral + (new.openingFeeLPAmount
                                                      + new.openingFeeTreasuryAmount)))
  <2>1. b \in Balances
    BY <1>2, <1>3, <1>5, <1>7, BalancesOpenType
  <2>2. /\ balances.totalCollateral \in [Leg -> Nat]
        /\ balances.totalCollateral[PayFixed] \in Nat
        /\ balances.totalCollateral[ReceiveFixed] \in Nat
        /\ balances.liquidityPool \in Nat /\ balances.vault \in Nat
        /\ balances.iporPublicationFee \in Nat /\ balances.treasury \in Nat
    BY <1>2, BalancesFields
  <2>3. /\ b.totalCollateral = [balances.totalCollateral EXCEPT ![leg] = @ + new.collateral]
        /\ b.liquidityPool = balances.liquidityPool + new.openingFeeLPAmount
        /\ b.vault = balances.vault
        /\ b.iporPublicationFee = balances.iporPublicationFee + PUBLICATION_FEE
        /\ b.treasury = balances.treasury + new.openingFeeTreasuryAmount
    BY <1>2 DEF BalancesWhenOpen, Balances
  <2> HIDE DEF b
  <2>4. b.totalCollateral[PayFixed] + b.totalCollateral[ReceiveFixed]
          = balances.totalCollateral[PayFixed] + balances.totalCollateral[ReceiveFixed]
            + new.collateral
    <3>1. CASE leg = PayFixed
      <4>1. /\ b.totalCollateral[PayFixed] = balances.totalCollateral[PayFixed] + new.collateral
            /\ b.totalCollateral[ReceiveFixed] = balances.totalCollateral[ReceiveFixed]
        BY <3>1, <2>2, <2>3 DEF Leg, PayFixed, ReceiveFixed
      <4> QED BY <4>1, <2>2, <1>7
    <3>2. CASE leg = ReceiveFixed
      <4>1. /\ b.totalCollateral[ReceiveFixed]
                 = balances.totalCollateral[ReceiveFixed] + new.collateral
            /\ b.totalCollateral[PayFixed] = balances.totalCollateral[PayFixed]
        BY <3>2, <2>2, <2>3 DEF Leg, PayFixed, ReceiveFixed
      <4> QED BY <4>1, <2>2, <1>7
    <3> QED BY <3>1, <3>2 DEF Leg
  <2>5. b.totalCollateral[PayFixed] \in Nat /\ b.totalCollateral[ReceiveFixed] \in Nat
    BY <2>1, BalancesFields
  <2>6. BookedClaims(b) = BookedClaims(balances)
            + (PUBLICATION_FEE + (new.collateral + (new.openingFeeLPAmount
                                                      + new.openingFeeTreasuryAmount)))
    BY <2>2, <2>3, <2>4, <2>5, <1>3, <1>7 DEF BookedClaims
  <2> QED BY <2>1, <2>3, <2>4, <2>6 DEF CollateralOf
<1>30. /\ b.liquidityPool \in Nat \ {0}
       /\ Division(CollateralOf(b) * D18, b.liquidityPool) <= D18
  <2> DEFINE ofLeg == balances.totalCollateral[leg] + new.collateral
             other == balances.totalCollateral[CHOOSE l \in Leg : l # leg]
  <2>1. OpenUtilizationOK(balances, leg, new)
    BY <1>1 DEF new, wad
  <2>2. /\ balances.totalCollateral[PayFixed] \in Nat
        /\ balances.totalCollateral[ReceiveFixed] \in Nat
        /\ balances.liquidityPool \in Nat
    BY <1>2, BalancesFields
  <2>3. ofLeg + other = CollateralOf(b)
    <3>1. \/ leg = PayFixed /\ (CHOOSE l \in Leg : l # leg) = ReceiveFixed
          \/ leg = ReceiveFixed /\ (CHOOSE l \in Leg : l # leg) = PayFixed
      BY DEF Leg, PayFixed, ReceiveFixed
    <3>2. CollateralOf(b) = balances.totalCollateral[PayFixed]
                            + balances.totalCollateral[ReceiveFixed] + new.collateral
      BY <1>14 DEF CollateralOf
    <3> DEFINE pf == balances.totalCollateral[PayFixed]
               rf == balances.totalCollateral[ReceiveFixed]
    <3>3. ofLeg + other = pf + rf + new.collateral
      <4>1. CASE leg = PayFixed /\ (CHOOSE l \in Leg : l # leg) = ReceiveFixed
        <5>1. ofLeg = pf + new.collateral /\ other = rf
          BY <4>1
        <5> HIDE DEF pf, rf, ofLeg, other
        <5> QED BY <5>1, <2>2, <1>7 DEF pf, rf
      <4>2. CASE leg = ReceiveFixed /\ (CHOOSE l \in Leg : l # leg) = PayFixed
        <5>1. ofLeg = rf + new.collateral /\ other = pf
          BY <4>2
        <5> HIDE DEF pf, rf, ofLeg, other
        <5> QED BY <5>1, <2>2, <1>7 DEF pf, rf
      <4> QED BY <3>1, <4>1, <4>2
    <3> QED BY <3>2, <3>3
  <2>4. /\ b.liquidityPool > 0
        /\ Division(CollateralOf(b) * D18, b.liquidityPool) <= MAX_UTILIZATION
    BY <2>1, <2>3, <1>14 DEF OpenUtilizationOK, UtilizationOK
  <2>5. b.liquidityPool \in Nat \ {0} /\ CollateralOf(b) \in Nat
    <3>1. b \in Balances
      BY <1>14
    <3> HIDE DEF b
    <3> QED BY <3>1, <2>4, BalancesFields DEF CollateralOf
  <2> HIDE DEF b
  <2>6. Division(CollateralOf(b) * D18, b.liquidityPool) \in Nat
    BY <2>5, D18Assumption, ProductOfNaturals, DivisionNatural
  <2>7. MAX_UTILIZATION \in 0..D18
    BY MiltonAssumption
  <2> QED BY <2>4, <2>5, <2>6, <2>7, D18Assumption
<1>32. /\ hidden' \in Nat /\ b.liquidityPool \div (2 * D18) <= hidden'
       /\ b.liquidityPool \div (2 * D18) \in Int
  <2>1. Measured(b.liquidityPool, 0)
    BY <1>1, <1>14 DEF new, wad
  <2> DEFINE pool == b.liquidityPool
             e == pool \div (2 * D18)
  <2>2. pool \in Nat /\ Measured(pool, 0)
    BY <2>1, <1>30
  <2> HIDE DEF pool
  <2>3. hidden' \in Nat /\ e + 1 + 0 <= hidden'
    BY <2>2, <1>2, MeasuredHides
  <2>4. e \in Int
    <3>1. 2 * D18 \in Nat \ {0}
      BY D18Assumption
    <3> QED BY <2>2, <3>1
  <2> HIDE DEF e
  <2>5. e <= hidden'
    BY <2>3, <2>4
  <2> QED BY <2>3, <2>4, <2>5 DEF e, pool
<1>15. s2 \in SoapOfLegType
  BY <1>2, <1>5, <1>7, <1>8, SoapOpenType
<1> DEFINE booked == PUBLICATION_FEE + (new.collateral + (new.openingFeeLPAmount
                                                            + new.openingFeeTreasuryAmount))
           deposit == LIQUIDATION_DEPOSIT * D18
           tx1 == WithLeg(NewTx, leg, sw2, lists2, b, s2)
           r   == WithBooks(tx1, b, cash')
<1>16. booked \in Int /\ deposit \in Int /\ fees = deposit + PUBLICATION_FEE
       /\ deposit + booked = fees + (booked - PUBLICATION_FEE)
  <2>1. booked \in Int /\ deposit \in Int
    BY <1>3, <1>7, <1>12
  <2> HIDE DEF booked, deposit
  <2>2. fees = deposit + PUBLICATION_FEE
    BY DEF deposit
  <2> HIDE DEF fees
  <2> QED BY <2>1, <2>2, <1>3
<1>17. /\ Sound(tx1)
       /\ tx1.ok = NewTx.ok /\ tx1.vault = NewTx.vault /\ tx1.cash = NewTx.cash
       /\ tx1.balances = b /\ tx1.unowned = NewTx.unowned
       /\ tx1.swaps[leg] = sw2 /\ \A l \in Leg \ {leg} : tx1.swaps[l] = NewTx.swaps[l]
       /\ tx1.ids[leg] = lists2 /\ \A l \in Leg \ {leg} : tx1.ids[l] = NewTx.ids[l]
       /\ Surplus(tx1) = Surplus(NewTx) + ((-booked) + (-deposit))
       /\ OpenSwaps(tx1) = OpenSwaps(NewTx) - (-1)
  <2>1. LegConsistent(sw2, lists2)
    BY <1>6, <1>11
  <2>2. /\ b.vault = NewTx.balances.vault
        /\ BookedClaims(b) = BookedClaims(NewTx.balances) - (-booked)
    <3>1. BookedClaims(balances) \in Int
      BY <1>2, BalancesFields
    <3>2. BookedClaims(b) = BookedClaims(balances) + booked
      BY <1>14
    <3>3. \A x, y \in Int : x + y = x - (-y)
      BY SMT
    <3>4. BookedClaims(b) = BookedClaims(balances) - (-booked)
      BY <3>1, <3>2, <3>3, <1>16, Zenon
    <3> QED BY <3>4, <1>14, FieldsOfNewTx, Zenon
  <2>3. /\ DepositOf(sw2) = DepositOf(NewTx.swaps[leg]) - (-deposit)
        /\ Cardinality(ActiveOf(sw2)) = Cardinality(ActiveOf(NewTx.swaps[leg])) - (-1)
    <3>1. DepositOf(sw) \in Int /\ Cardinality(ActiveOf(sw)) \in Int
      BY <1>8, DepositOfType
    <3>2. NewTx.swaps[leg] = sw
      BY FieldsOfNewTx DEF sw
    <3>3. DepositOf(sw2) = DepositOf(sw) + deposit
      BY <1>12
    <3> HIDE DEF deposit
    <3> QED BY <3>1, <3>2, <3>3, <1>12, <1>16
  <2> DEFINE o == -booked
             d == -deposit
             n == -1
  <2>4. o \in Int /\ d \in Int /\ n \in Int
    BY <1>16
  <2>5. /\ sw2 \in [SwapId -> Swap] /\ lists2 \in [Account -> Seq(SwapId)]
        /\ LegConsistent(sw2, lists2)
        /\ b \in Balances /\ s2 \in SoapOfLegType
        /\ b.vault = NewTx.balances.vault
        /\ BookedClaims(b) = BookedClaims(NewTx.balances) - o
        /\ DepositOf(sw2) = DepositOf(NewTx.swaps[leg]) - d
        /\ Cardinality(ActiveOf(sw2)) = Cardinality(ActiveOf(NewTx.swaps[leg])) - n
    BY <2>1, <2>2, <2>3, <1>12, <1>13, <1>14, <1>15
  <2> HIDE DEF booked, deposit, lists2, b, s2, o, d, n
  <2>6. /\ Sound(tx1)
        /\ tx1.ok = NewTx.ok /\ tx1.vault = NewTx.vault /\ tx1.cash = NewTx.cash
        /\ tx1.balances = b /\ tx1.unowned = NewTx.unowned
        /\ tx1.swaps[leg] = sw2 /\ \A l \in Leg \ {leg} : tx1.swaps[l] = NewTx.swaps[l]
        /\ tx1.ids[leg] = lists2 /\ \A l \in Leg \ {leg} : tx1.ids[l] = NewTx.ids[l]
        /\ Surplus(tx1) = Surplus(NewTx) + (o + d)
        /\ OpenSwaps(tx1) = OpenSwaps(NewTx) - n
    BY <2>4, <2>5, <1>2, LegIsBooked
  <2> QED BY <2>6 DEF o, d, n
<1>18. /\ tx1.swaps = [swaps EXCEPT ![leg] = sw2] /\ tx1.ids = [ids EXCEPT ![leg] = lists2]
       /\ tx1.soap = [soap EXCEPT ![leg] = s2] /\ tx1.payout = 0
  <2> HIDE DEF lists2, b, s2
  <2>1. /\ tx1.swaps = [NewTx.swaps EXCEPT ![leg] = sw2]
        /\ tx1.ids = [NewTx.ids EXCEPT ![leg] = lists2]
        /\ tx1.soap = [NewTx.soap EXCEPT ![leg] = s2]
        /\ tx1.payout = NewTx.payout
    <3> DEFINE swaps2 == [NewTx.swaps EXCEPT ![leg] = sw2]
               ids2 == [NewTx.ids EXCEPT ![leg] = lists2]
               soap2 == [NewTx.soap EXCEPT ![leg] = s2]
    <3>1. tx1 = [NewTx EXCEPT !.swaps = swaps2, !.ids = ids2, !.balances = b, !.soap = soap2]
      BY DEF WithLeg
    <3> HIDE DEF tx1, swaps2, ids2, soap2
    <3>2. /\ tx1.swaps = swaps2 /\ tx1.ids = ids2 /\ tx1.soap = soap2
          /\ tx1.payout = NewTx.payout
      BY <3>1, <1>2 DEF Tx
    <3> QED BY <3>2 DEF swaps2, ids2, soap2
  <2> HIDE DEF tx1
  <2> QED BY <2>1, FieldsOfNewTx
<1> HIDE DEF tx1, booked, deposit, b, lists2, s2
<1>19. cash' \in Nat /\ ToWad(cash') - ToWad(cash) = wad
  <2>1. cash' = cash + amount
    BY <1>1
  <2>2. ToWad(cash + amount) = ToWad(cash) + ToWad(amount)
    BY <1>2, <1>3, ToWadSum
  <2> QED BY <2>1, <2>2, <1>2, <1>3 DEF wad
<1>20. /\ Sound(r) /\ r.swaps = tx1.swaps /\ r.ids = tx1.ids /\ r.vault = tx1.vault
       /\ r.ok = tx1.ok /\ r.payout = tx1.payout /\ r.cash = cash' /\ r.soap = tx1.soap
       /\ r.balances = b /\ r.unowned = tx1.unowned
       /\ Surplus(r) = (Surplus(tx1) + (ToWad(cash') - ToWad(tx1.cash)))
                       - (BookedClaims(b) - BookedClaims(tx1.balances))
  <2>1. b.vault = tx1.balances.vault
    BY <1>17
  <2> QED BY <2>1, <1>14, <1>17, <1>19, BooksOfCash
<1> HIDE DEF r
<1>29. NewTx' = r
  <2>1. r.ok /\ r.payout = 0 /\ r.vault = vault /\ r \in Tx
    BY <1>17, <1>18, <1>20, FieldsOfNewTx DEF Sound
  <2>2. swaps' = r.swaps /\ ids' = r.ids /\ soap' = r.soap
    BY <1>5, <1>6, <1>18, <1>20
  <2>3. /\ balances' = r.balances /\ cash' = r.cash /\ vault' = r.vault
        /\ unowned' = r.unowned
    BY <2>1, <1>1, <1>5, <1>17, <1>20, FieldsOfNewTx
  <2> QED BY <2>1, <2>2, <2>3, StateOfTx
<1>21. Within(Surplus(r) - Surplus(NewTx), 2)
  <2>1. Surplus(NewTx) \in Int /\ BookedClaims(b) \in Int
    BY <1>2, <1>14, TxFields, BalancesFields
  <2>2. Surplus(r) = (Surplus(tx1) + wad) - (BookedClaims(b) - BookedClaims(b))
    BY <1>17, <1>19, <1>20, FieldsOfNewTx
  <2>3. \A x, y, w, z \in Int : (((x + y) + w) - (z - z)) - x = w + y
    BY SMT
  <2>4. Surplus(r) - Surplus(NewTx) = wad + ((-booked) + (-deposit))
    BY <2>1, <2>2, <2>3, <1>3, <1>16, <1>17
  <2>5. wad + ((-booked) + (-deposit)) = (wad - fees) - (booked - PUBLICATION_FEE)
    <3>1. wad \in Int /\ fees \in Int
      BY <1>3, <1>16
    <3> HIDE DEF fees
    <3> QED BY <3>1, <1>3, <1>16
  <2>6. booked - PUBLICATION_FEE = new.collateral + (new.openingFeeLPAmount
                                                    + new.openingFeeTreasuryAmount)
    BY <1>3, <1>7 DEF booked
  <2> QED BY <2>4, <2>5, <2>6, <1>7
<1>22. OpenSwaps(r) = OpenSwaps(NewTx) + 1
  <2>1. OpenSwaps(r) = OpenSwaps(tx1)
    BY <1>20 DEF OpenSwaps
  <2>2. OpenSwaps(NewTx) \in Nat
    BY <1>2, TxFields
  <2> QED BY <2>1, <2>2, <1>17
<1>23. Covered(NewTx) => Covered(r)
  <2>1. r.vault = NewTx.vault /\ r.balances.vault = NewTx.balances.vault
    BY <1>14, <1>17, <1>20, FieldsOfNewTx
  <2> QED BY <2>1 DEF Covered
<1>24. vault' = vault /\ lastSwapId' = lastSwapId + 1
  BY <1>1, <1>5 DEF id
<1>25. RestTypeOK'
  BY <1>1, <1>2, <1>5, <1>9, <1>32 DEF RestTypeOK, marketVars
<1>26. swaps'[leg] = sw2 /\ ids'[leg] = lists2
       /\ \A l \in Leg \ {leg} : swaps'[l] = swaps[l] /\ ids'[l] = ids[l]
  BY <1>5, <1>6, <1>8
<1>27. GivenOut'
  <2>1. /\ \A l \in Leg : \A j \in ActiveOf(swaps[l]) : j <= lastSwapId
        /\ \A l \in Leg, a \in Account : Len(ids[l][a]) <= lastSwapId
    BY DEF BookInv, GivenOut
  <2>2. ASSUME NEW l \in Leg, NEW j \in ActiveOf(swaps'[l]) PROVE j <= lastSwapId'
    <3>1. CASE j = id
      BY <3>1, <1>5, <1>9 DEF id
    <3>2. CASE j # id
      <4>1. j \in ActiveOf(swaps[l]) /\ j \in Nat
        BY <3>2, <1>12, <1>26 DEF ActiveOf, SwapId, sw
      <4> QED BY <4>1, <2>1, <1>9, <1>24
    <3> QED BY <3>1, <3>2
  <2>3. ASSUME NEW l \in Leg, NEW a \in Account PROVE Len(ids'[l][a]) <= lastSwapId'
    <3>1. Len(ids'[l][a]) <= Len(ids[l][a]) + 1 /\ Len(ids[l][a]) \in Nat
          /\ Len(ids'[l][a]) \in Nat
      <4>1. ids[l] \in [Account -> Seq(SwapId)] /\ Len(ids[l][a]) \in Nat
        BY <1>8
      <4>2. CASE l = leg
        <5>1. Len(lists2[a]) <= Len(ids[leg][a]) + 1 /\ Len(lists2[a]) \in Nat
          BY <1>13
        <5> QED BY <5>1, <4>1, <4>2, <1>26
      <4>3. CASE l # leg
        BY <4>1, <4>3, <1>26
      <4> QED BY <4>2, <4>3
    <3>2. Len(ids[l][a]) <= lastSwapId
      BY <2>1
    <3> QED BY <3>1, <3>2, <1>9, <1>24
  <2> QED BY <2>2, <2>3 DEF GivenOut
<1>28. swaps' # swaps
  <2>1. id \in ActiveOf(swaps'[leg]) /\ id \notin ActiveOf(swaps[leg])
    BY <1>9, <1>12, <1>26 DEF ActiveOf, sw
  <2> QED BY <2>1
<1>31. CoverKept
  <2>1. ASSUME Covered(NewTx) PROVE 0 <= Margin(r) + hidden'
    <3>1. /\ r.balances.liquidityPool # 0
          /\ Division(CollateralOf(r.balances) * D18, r.balances.liquidityPool) <= D18
      BY <1>20, <1>30
    <3>2. Covered(r) /\ Sound(r)
      BY <2>1, <1>20, <1>23
    <3>3. -(r.balances.liquidityPool \div (2 * D18)) <= Margin(r)
      BY <3>1, <3>2, MeasuredCovers
    <3> DEFINE e == b.liquidityPool \div (2 * D18)
    <3>4. -e <= Margin(r) /\ e \in Int /\ e <= hidden' /\ hidden' \in Nat
      BY <3>3, <1>20, <1>32
    <3> HIDE DEF e
    <3>5. Margin(r) \in Int
      BY <3>2, MarginType DEF Sound
    <3> QED BY <3>4, <3>5
  <2>2. Margin(NewTx)' = Margin(r)
    BY <1>29
  <2> QED BY <2>1, <2>2 DEF CoverKept, MarginOK
<1> QED BY <1>29, <1>20, <1>21, <1>22, <1>23, <1>24, <1>25, <1>27, <1>28, <1>31 DEF OpenedStep

-----------------------------------------------------------------------------
(* Replacing a strategy *)

(* What a step that replaces a strategy does. *)
ReplacedStep ==
    /\ Sound(NewTx') /\ RestTypeOK' /\ GivenOut' /\ ReplacedAreLeft(vault')
    /\ UNCHANGED lastSwapId
    /\ OpenSwaps(NewTx') = OpenSwaps(NewTx) /\ Surplus(NewTx') = Surplus(NewTx)
    /\ Covered(NewTx) => Covered(NewTx')
    /\ PoolKept /\ CoverKept
    /\ \E call \in Replacements : vault'.at = [vault.at EXCEPT ![call[1]] = call[2]]

LEMMA ReplaceKeeps ==
    ASSUME BookInv, SetStrategyOfStanley
    PROVE  ReplacedStep
<1>1. PICK call \in Replacements :
         /\ SetStrategy(vault, call[1], call[2]).ok
         /\ vault' = SetStrategy(vault, call[1], call[2]).vault
         /\ UNCHANGED <<storageVars, cash, ipTokens, ratio, pausedContracts, marketVars, historyVars>>
  BY DEF SetStrategyOfStanley
<1> DEFINE s == call[1]
           new == call[2]
<1>2. s \in Strategy /\ new \in StrategyContract
  BY AmmAssumption
<1>3. /\ RestTypeOK /\ VaultOK(vault) /\ vault \in Vault /\ Sound(NewTx)
      /\ ReplacedAreLeft(vault) /\ GivenOut
  BY StateNumbers DEF BookInv
<1>4. vault' = SetStrategy(vault, s, new).vault /\ SetStrategy(vault, s, new).ok
  BY <1>1
<1> HIDE DEF s, new
<1>5. /\ VaultOK(vault') /\ vault'.at = [vault.at EXCEPT ![s] = new]
      /\ vault'.reported = vault.reported /\ Changes(vault, vault', 0)
  BY <1>2, <1>3, <1>4, SetStrategyMoves
<1>6. ReplacedAreLeft(vault')
  BY <1>2, <1>3, <1>4, ReplacingLeaves
<1>7. UNCHANGED <<storageVars, cash, unowned, hidden>>
  BY <1>1 DEF historyVars
<1>8. PICK r : r = NewTx'
  OBVIOUS
<1>9. /\ Sound(r)
      /\ r.swaps = NewTx.swaps /\ r.ids = NewTx.ids /\ r.balances = NewTx.balances
      /\ r.unowned = NewTx.unowned /\ r.vault = vault' /\ NewTx.vault = vault
      /\ Surplus(r) = Surplus(NewTx) /\ OpenSwaps(r) = OpenSwaps(NewTx)
  BY <1>5, <1>7, <1>8, VaultAloneBooks, FieldsOfNewTx
<1>10. /\ Covered(NewTx) => Covered(r)
       /\ SamePool(NewTx, r)
       /\ Margin(NewTx) <= Margin(r)
  <2>1. r.vault.reported = NewTx.vault.reported /\ Changes(NewTx.vault, r.vault, 0)
    BY <1>5, <1>9
  <2> QED BY <2>1, <1>3, <1>9, VaultMoves
<1>11. CoverKept
  BY <1>7, <1>8, <1>9, <1>10, MarginCovers
<1>12. PoolKept
  BY <1>8, <1>10 DEF PoolKept
<1>13. lastSwapId' = lastSwapId /\ swaps' = swaps /\ ids' = ids
  BY <1>7 DEF storageVars
<1>14. RestTypeOK'
  BY <1>1, <1>3 DEF RestTypeOK, storageVars, marketVars, historyVars
<1>15. GivenOut'
  BY <1>3, <1>13 DEF GivenOut
<1>16. \E c \in Replacements : vault'.at = [vault.at EXCEPT ![c[1]] = c[2]]
  BY <1>5 DEF s, new
<1> QED BY <1>6, <1>8, <1>9, <1>10, <1>11, <1>12, <1>13, <1>14, <1>15, <1>16 DEF ReplacedStep

-----------------------------------------------------------------------------
(* The invariant of the books *)

(* Every step but two keeps the contracts in use and closes swaps at most. *)
LEMMA StepCases ==
    ASSUME BookInv, Next
    PROVE  KeptStep \/ OpenedStep \/ ReplacedStep
<1>1. CASE CloseSwap
  <2>1. PICK leg \in Leg, id \in SwapId, sender \in Account \cup {Owner} :
           CloseOne(leg, id, sender)
    BY <1>1 DEF CloseSwap
  <2> QED BY <2>1, CloseOneKeeps
<1>2. CASE EmergencyCloseSwap
  <2>1. PICK leg \in Leg, id \in SwapId : CloseOne(leg, id, Owner)
    BY <1>2 DEF EmergencyCloseSwap
  <2> QED BY <2>1, CloseOneKeeps
<1>3. CASE CloseSwaps \/ EmergencyCloseSwaps
  BY <1>3, CloseManyKeeps
<1>4. CASE DepositToStanley \/ WithdrawFromStanley \/ WithdrawAllFromStanley \/ Rebalance
  BY <1>4, MovesKeep
<1>5. CASE ProvideLiquidity
  BY <1>5, ProvideKeeps
<1>6. CASE Redeem
  BY <1>6, RedeemKeeps
<1>7. CASE TransferToTreasury \/ TransferToCharlieTreasury
  BY <1>7, TreasuryKeeps
<1>8. CASE SetMiltonStanleyBalanceRatio \/ PauseMilton \/ PauseJoseph \/ PauseStanley
           \/ MigrateAssetToStrategyWithMaxApr
  BY <1>8, OwnerKeeps
<1>9. CASE Tick
  BY <1>9, TickKeeps
<1>10. CASE OpenSwap
  BY <1>10, OpenKeeps
<1>11. CASE SetStrategyOfStanley
  BY <1>11, ReplaceKeeps
<1> QED BY <1>1, <1>2, <1>3, <1>4, <1>5, <1>6, <1>7, <1>8, <1>9, <1>10, <1>11 DEF Next

LEMMA KeptKeepsBookInv ==
    ASSUME BookInv, KeptStep
    PROVE  BookInv'
<1>1. /\ Sound(NewTx')
      /\ SameContracts(NewTx.vault, NewTx'.vault)
      /\ \A leg \in Leg : ActiveOf(NewTx'.swaps[leg]) \subseteq ActiveOf(NewTx.swaps[leg])
      /\ \A leg \in Leg, a \in Account : Len(NewTx'.ids[leg][a]) <= Len(NewTx.ids[leg][a])
      /\ RestTypeOK' /\ lastSwapId' = lastSwapId
  BY DEF KeptStep, Kept
<1>2. NewTx'.swaps = swaps' /\ NewTx'.ids = ids' /\ NewTx'.vault = vault'
  BY DEF NewTx
<1>3. /\ SameContracts(vault, vault')
      /\ \A leg \in Leg : ActiveOf(swaps'[leg]) \subseteq ActiveOf(swaps[leg])
      /\ \A leg \in Leg, a \in Account : Len(ids'[leg][a]) <= Len(ids[leg][a])
  BY <1>1, <1>2, FieldsOfNewTx
<1>4. /\ \A leg \in Leg : \A id \in ActiveOf(swaps[leg]) : id <= lastSwapId
      /\ \A leg \in Leg, a \in Account : Len(ids[leg][a]) <= lastSwapId
      /\ ReplacedAreLeft(vault)
  BY DEF BookInv, GivenOut
<1>5. \A leg \in Leg, a \in Account : Len(ids[leg][a]) \in Nat /\ Len(ids'[leg][a]) \in Nat
  <2>1. ids \in [Leg -> [Account -> Seq(SwapId)]]
    BY StateNumbers, TxFields, FieldsOfNewTx
  <2>2. ids' \in [Leg -> [Account -> Seq(SwapId)]]
    BY <1>1, <1>2, TxFields DEF Sound
  <2> QED BY <2>1, <2>2
<1>6. lastSwapId \in Nat
  BY StorageAssumption DEF BookInv, RestTypeOK, UInt32
<1>7. \A leg \in Leg, a \in Account : Len(ids'[leg][a]) <= lastSwapId
  BY <1>3, <1>4, <1>5, <1>6
<1>8. GivenOut'
  BY <1>1, <1>3, <1>4, <1>7 DEF GivenOut
<1>9. ReplacedAreLeft(vault')
  BY <1>3, <1>4 DEF SameContracts, ReplacedAreLeft, InUse
<1> QED BY <1>1, <1>8, <1>9 DEF BookInv

LEMMA InitBooks ==
    ASSUME Init
    PROVE  /\ BookInv /\ Covered(NewTx) /\ MarginOK
           /\ Surplus(NewTx) = 0 /\ OpenSwaps(NewTx) = 0 /\ lastSwapId = 0
           /\ vault.at[Aave] \in AaveContracts /\ vault.at[Compound] \in CompoundContracts
<1>1. /\ lastSwapId = 0 /\ cash = 0 /\ now = 0 /\ paused = FALSE /\ pausedContracts = {}
      /\ swaps = [leg \in Leg |-> [id \in SwapId |-> NoSwap]]
      /\ ids = [leg \in Leg |-> [a \in Account |-> <<>>]]
      /\ balances = [totalCollateral |-> [leg \in Leg |-> 0], liquidityPool |-> 0,
                     vault |-> 0, iporPublicationFee |-> 0, treasury |-> 0]
      /\ soap = [leg \in Leg |-> EmptyIndicators]
      /\ contribution = [a \in Account |-> 0]
      /\ ipTokens = [a \in Account |-> 0]
      /\ ratio \in Ratios /\ ibtPrice \in IbtPrices /\ unowned = 0 /\ hidden = 0
  BY DEF Init, BooksInit
<1>2. milton \in Contract /\ joseph \in Contract
  BY AmmAssumption DEF Init
<1>3. 0 \in UInt32 /\ 0 \in UInt64 /\ 0 \in UInt128 /\ MaxTime \in Nat
  BY StorageAssumption, AmmAssumption DEF UInt32, UInt64, UInt128
<1>4. RestTypeOK
  <2>1. lastSwapId \in UInt32 /\ now \in 0..MaxTime
    BY <1>1, <1>3
  <2>2. contribution \in [Account -> UInt128] /\ ipTokens \in [Account -> Nat]
    <3>1. contribution = [a \in Account |-> 0] /\ ipTokens = [a \in Account |-> 0]
      BY <1>1
    <3> QED BY <3>1, <1>3
  <2>3. paused \in BOOLEAN /\ pausedContracts \subseteq {"Milton", "Joseph"}
    <3>1. paused = FALSE /\ pausedContracts = {}
      BY <1>1
    <3> QED BY <3>1
  <2>4. ratio \in Ratios /\ ibtPrice \in IbtPrices /\ hidden \in Nat
    BY <1>1
  <2> QED BY <2>1, <2>2, <2>3, <2>4, <1>2 DEF RestTypeOK
<1>5. PICK first \in FirstMax : vault = [EmptyVault EXCEPT !.max = first]
  BY DEF Init
<1>6. /\ FirstStrategies[Aave] \in AaveContracts
      /\ FirstStrategies[Compound] \in CompoundContracts
      /\ FirstStrategies \in [Strategy -> StrategyContract]
  <2>1. /\ FirstStrategies[Aave] = CHOOSE c \in AaveContracts : TRUE
        /\ FirstStrategies[Compound] = CHOOSE c \in CompoundContracts : TRUE
    BY DEF FirstStrategies, Strategy, Aave, Compound
  <2>2. /\ FirstStrategies[Aave] \in AaveContracts
        /\ FirstStrategies[Compound] \in CompoundContracts
    BY <2>1, VaultAssumption
  <2>3. FirstStrategies = [s \in Strategy |-> FirstStrategies[s]]
    BY DEF FirstStrategies
  <2> QED BY <2>2, <2>3 DEF Strategy, StrategyContract
<1>7. vault = [at |-> FirstStrategies, held |-> [c \in StrategyContract |-> 0],
               stored |-> InitialRate, current |-> InitialRate, conversions |-> 0,
               reported |-> 0,
               approved |-> {FirstStrategies[Aave], FirstStrategies[Compound]},
               iv |-> 0, max |-> first, paused |-> FALSE]
  BY <1>5 DEF EmptyVault
<1>8. first \in Strategy
  BY AmmAssumption
<1>9. /\ vault \in Vault /\ vault.at = FirstStrategies
      /\ \A c \in StrategyContract : vault.held[c] = 0
      /\ vault.approved = InUse(vault)
      /\ vault.stored = InitialRate /\ vault.current = InitialRate
      /\ vault.conversions = 0 /\ vault.reported = 0
  <2>1. InitialRate \in Nat
    BY VaultAssumption
  <2> QED BY <2>1, <1>6, <1>7, <1>8 DEF Vault, InUse, Strategy, StrategyContract
<1>10. VaultOK(vault)
  <2>1. InitialRate \in Nat
    BY VaultAssumption
  <2>2. AaveHeldWhole(vault)
    BY <1>9, WholeZero DEF AaveHeldWhole, StrategyContract
  <2> QED BY <2>1, <2>2, <1>9 DEF VaultOK, RatesOrdered
<1>12. ReplacedAreLeft(vault)
  <2>1. InitialRate \in Nat /\ D18 \in Nat \ {0}
    BY VaultAssumption, D18Assumption
  <2>2. \A c : Left(c, 0)
    BY <2>1 DEF Left
  <2> QED BY <2>2, <1>9 DEF ReplacedAreLeft
<1>13. NoSwap \in Swap /\ NoSwap.state # ACTIVE
  BY <1>3 DEF NoSwap, Swap, ACTIVE, INACTIVE
<1>14. \A leg \in Leg : ActiveOf(swaps[leg]) = {}
  BY <1>1, <1>13 DEF ActiveOf, IsActive
<1>15. balances \in Balances
  BY <1>1, <1>3 DEF Balances
<1>16. NewTx \in Tx
  <2>1. swaps \in [Leg -> [SwapId -> Swap]]
    BY <1>1, <1>13
  <2>2. ids \in [Leg -> [Account -> Seq(SwapId)]]
    BY <1>1
  <2>3. EmptyIndicators \in SoapOfLegType
    BY <1>3 DEF EmptyIndicators, SoapOfLegType
  <2>4. soap \in [Leg -> SoapOfLegType]
    BY <1>1, <2>3
  <2>5. cash \in Nat /\ unowned \in Nat
    BY <1>1
  <2> QED BY <2>1, <2>2, <2>4, <2>5, <1>9, <1>15 DEF NewTx, Tx
<1>17. \A leg \in Leg : LegConsistent(swaps[leg], ids[leg])
  BY <1>1, <1>13 DEF LegConsistent, ActiveSwapsListed, ListedSwapsActive, IsActive
<1>18. Sound(NewTx)
  BY <1>10, <1>16, <1>17, FieldsOfNewTx, WholeZero DEF Sound
<1>19. GivenOut
  BY <1>1, <1>14 DEF GivenOut
<1>20. Covered(NewTx)
  <2>1. balances.vault = 0 /\ AllStored(vault) \in Nat
    BY <1>1, <1>9, HeldTypes
  <2>2. (vault.conversions - vault.reported) * RoundingAt(vault.current) \in Nat
    BY <1>10, SinceReported
  <2> QED BY <2>1, <2>2, FieldsOfNewTx DEF Covered
<1>24. MarginOK
  <2>1. /\ balances.vault = 0 /\ balances.liquidityPool = 0 /\ CollateralOf(balances) = 0
        /\ unowned = 0 /\ hidden = 0
    BY <1>1 DEF CollateralOf, Leg
  <2>2. AllHeld(vault) \in Nat /\ RoundingsOf(vault) \in Nat
    BY <1>9, <1>16, HeldTypes, MarginType, FieldsOfNewTx
  <2> QED BY <2>1, <2>2, FieldsOfNewTx DEF MarginOK, Margin, PoolOf
<1>21. OpenSwaps(NewTx) = 0
  BY <1>14, FieldsOfNewTx, FS_EmptySet DEF OpenSwaps, Leg
<1>22. Surplus(NewTx) = 0
  <2>1. DepositsIn(NewTx) = 0
    BY <1>14, FieldsOfNewTx, SumOfNone DEF DepositsIn, DepositOf, Leg
  <2>2. ToWad(cash) = 0
    BY <1>1, VaultAssumption DEF ToWad, ConvertToWad
  <2>3. BookedClaims(balances) = 0 /\ balances.vault = 0
    BY <1>1 DEF BookedClaims, Leg
  <2> QED BY <2>1, <2>2, <2>3, <1>1, FieldsOfNewTx DEF Surplus
<1>23. BookInv
  BY <1>4, <1>12, <1>18, <1>19 DEF BookInv
<1> QED BY <1>1, <1>6, <1>9, <1>20, <1>21, <1>22, <1>23, <1>24

LEMMA StutterKeeps ==
    ASSUME UNCHANGED vars
    PROVE  /\ NewTx' = NewTx /\ (BookInv => BookInv')
           /\ vault' = vault /\ lastSwapId' = lastSwapId /\ hidden' = hidden
<1>1. /\ UNCHANGED storageVars
      /\ cash' = cash /\ vault' = vault /\ ipTokens' = ipTokens /\ ratio' = ratio
      /\ pausedContracts' = pausedContracts /\ ibtPrice' = ibtPrice /\ now' = now
      /\ unowned' = unowned /\ hidden' = hidden
  BY DEF vars, historyVars
<1>2. /\ lastSwapId' = lastSwapId /\ swaps' = swaps /\ ids' = ids /\ balances' = balances
      /\ soap' = soap /\ contribution' = contribution /\ milton' = milton /\ joseph' = joseph
      /\ paused' = paused
  BY <1>1 DEF storageVars
<1>3. NewTx' = NewTx
  BY <1>1, <1>2 DEF NewTx
<1>4. RestTypeOK => RestTypeOK'
  BY <1>1, <1>2 DEF RestTypeOK
<1>5. GivenOut => GivenOut'
  BY <1>2 DEF GivenOut
<1> QED BY <1>1, <1>2, <1>3, <1>4, <1>5 DEF BookInv

LEMMA NextKeepsBookInv == BookInv /\ [Next]_vars => BookInv'
<1> SUFFICES ASSUME BookInv, [Next]_vars PROVE BookInv'
  OBVIOUS
<1>1. CASE Next
  <2>1. CASE KeptStep
    BY <2>1, KeptKeepsBookInv
  <2>2. CASE OpenedStep
    <3>1. ReplacedAreLeft(vault')
      BY <2>2 DEF OpenedStep, BookInv
    <3> QED BY <2>2, <3>1 DEF OpenedStep, BookInv
  <2>3. CASE ReplacedStep
    BY <2>3 DEF ReplacedStep, BookInv
  <2> QED BY <1>1, <2>1, <2>2, <2>3, StepCases
<1>2. CASE UNCHANGED vars
  BY <1>2, StutterKeeps
<1> QED BY <1>1, <1>2

(* Every value of the AMM has the type of the field that stores it, in every
   reachable state: no cast is passed by a value that does not fit, and no
   sequence of openings, closings and moves makes a balance negative. *)
THEOREM TypesAlwaysFit == Spec => []TypeOK
<1>1. Init => BookInv
  BY InitBooks
<1>2. BookInv => TypeOK
  BY TypesOfState DEF BookInv
<1> QED BY <1>1, <1>2, NextKeepsBookInv, PTL DEF Spec

(* However the owner replaces the strategies, by new contracts, by one in use
   or by one that was replaced before, a contract that is out of use has no
   allowance and keeps no more than roundings (_setStrategy). *)
THEOREM ReplacedContractsAlwaysLeft == Spec => []ReplacedContractsAreLeft
<1>1. Init => BookInv
  BY InitBooks
<1>2. BookInv => ReplacedContractsAreLeft
  BY DEF BookInv, ReplacedAreLeft, ReplacedContractsAreLeft, Left
<1> QED BY <1>1, <1>2, NextKeepsBookInv, PTL DEF Spec

-----------------------------------------------------------------------------
(* What is booked as being on Stanley *)

(* setStrategyAave takes the contract of an Aave strategy, setStrategyCompound
   that of a Compound strategy: no contract is in use twice. *)
ReplacementsInPlace ==
    \A call \in Replacements :
        call[2] \in (IF call[1] = Aave THEN AaveContracts ELSE CompoundContracts)

InPlace(v) == v.at[Aave] \in AaveContracts /\ v.at[Compound] \in CompoundContracts

VaultInv == BookInv /\ InPlace(vault) /\ Covered(NewTx) /\ MarginOK

LEMMA InPlaceApart == \A v : InPlace(v) => Apart(v)
  BY VaultAssumption DEF InPlace, Apart

LEMMA ReplacedInPlace ==
    ASSUME ReplacementsInPlace, BookInv, ReplacedStep, InPlace(vault)
    PROVE  InPlace(vault')
<1>1. PICK call \in Replacements : vault'.at = [vault.at EXCEPT ![call[1]] = call[2]]
  BY DEF ReplacedStep
<1>2. call[1] \in Strategy
  BY AmmAssumption
<1>3. vault.at \in [Strategy -> StrategyContract]
  BY StateNumbers, VaultFields DEF BookInv
<1>4. Aave # Compound /\ Aave \in Strategy /\ Compound \in Strategy
  BY DEF Aave, Compound, Strategy
<1>5. call[2] \in (IF call[1] = Aave THEN AaveContracts ELSE CompoundContracts)
  BY DEF ReplacementsInPlace
<1>6. CASE call[1] = Aave
  BY <1>1, <1>3, <1>4, <1>5, <1>6 DEF InPlace
<1>7. CASE call[1] = Compound
  BY <1>1, <1>3, <1>4, <1>5, <1>7 DEF InPlace
<1> QED BY <1>2, <1>6, <1>7 DEF Strategy, Aave, Compound

LEMMA SameInPlace ==
    ASSUME KeptStep \/ OpenedStep, InPlace(vault)
    PROVE  InPlace(vault')
<1>1. vault'.at = vault.at
  <2>1. CASE KeptStep
    <3>1. SameContracts(NewTx.vault, NewTx'.vault)
      BY <2>1 DEF KeptStep, Kept
    <3> QED BY <3>1 DEF NewTx, SameContracts
  <2>2. CASE OpenedStep
    BY <2>2 DEF OpenedStep
  <2> QED BY <2>1, <2>2
<1> QED BY <1>1 DEF InPlace

LEMMA NextKeepsVaultInv ==
    ASSUME ReplacementsInPlace
    PROVE  VaultInv /\ [Next]_vars => VaultInv'
<1> SUFFICES ASSUME VaultInv, [Next]_vars PROVE VaultInv'
  OBVIOUS
<1>1. BookInv /\ InPlace(vault) /\ Covered(NewTx) /\ MarginOK /\ Apart(vault)
  BY InPlaceApart DEF VaultInv
<1>2. BookInv'
  BY <1>1, NextKeepsBookInv
<1>3. InPlace(vault') /\ Covered(NewTx') /\ MarginOK'
  <2>1. CASE KeptStep
    <3>1. Apart(NewTx.vault)
      BY <1>1, FieldsOfNewTx
    <3>2. Covered(NewTx')
      BY <1>1, <2>1, <3>1 DEF KeptStep, Kept
    <3>3. MarginOK'
      BY <1>1, <2>1 DEF KeptStep, CoverKept
    <3> QED BY <1>1, <2>1, <3>2, <3>3, SameInPlace
  <2>2. CASE OpenedStep
    <3>1. Covered(NewTx') /\ MarginOK'
      BY <1>1, <2>2 DEF OpenedStep, CoverKept
    <3> QED BY <1>1, <2>2, <3>1, SameInPlace
  <2>3. CASE ReplacedStep
    <3>1. InPlace(vault')
      BY <1>1, <2>3, ReplacedInPlace
    <3> QED BY <1>1, <2>3, <3>1 DEF ReplacedStep, CoverKept
  <2>4. CASE UNCHANGED vars
    <3>1. NewTx' = NewTx /\ hidden' = hidden /\ vault' = vault
      BY <2>4, StutterKeeps
    <3>2. Margin(NewTx)' = Margin(NewTx)
      BY <3>1
    <3> QED BY <1>1, <3>1, <3>2 DEF MarginOK
  <2> QED BY <1>1, <2>1, <2>2, <2>3, <2>4, StepCases
<1> QED BY <1>2, <1>3 DEF VaultInv

LEMMA InitVaultInv == Init => VaultInv
  BY InitBooks DEF VaultInv, InPlace

(* What is counted of the whole vault is what the properties say of it. *)
LEMMA WholeOfVault ==
    ASSUME BookInv, InPlace(vault)
    PROVE  /\ AllStored(vault) = HeldTotal(vault) + Stranded(vault)
           /\ WholePool = PoolOf(NewTx)
<1>1. /\ vault \in Vault /\ balances \in Balances /\ unowned \in Nat /\ Apart(vault)
  BY StateNumbers, InPlaceApart
<1>2. /\ AllStored(vault) = HeldTotal(vault) + Stranded(vault)
      /\ AllHeld(vault) = HeldTotal(Accrued(vault)) + Stranded(Accrued(vault))
  BY <1>1, HeldAndStranded
<1>3. Accrued(vault) \in Vault
  BY <1>1 DEF Accrued, Vault
<1>4. /\ HeldTotal(Accrued(vault)) \in Nat /\ Stranded(Accrued(vault)) \in Nat
      /\ balances.liquidityPool \in Nat /\ balances.vault \in Nat
  BY <1>1, <1>3, HeldTypes, StrandedNatural, BalancesFields
<1> QED BY <1>1, <1>2, <1>4, FieldsOfNewTx DEF WholePool, PoolWithInterest, PoolOf

LEMMA RoundingIsCompounds == \A v : RoundingAt(v.current) = CompoundRounding(v)
  BY DEF RoundingAt, CompoundRounding

(* As long as a strategy is only replaced by a contract of its kind, the
   strategies and replaced contracts have what the books of Milton say, but for
   the roundings of the cTokens minted and redeemed since the balance was last
   reported: for any amounts, rates and number of replacements, the subtraction
   that books the interest (updateStorageWhenDepositToStanley,
   ...WithdrawFromStanley) never waits for more than these to be earned. *)
THEOREM VaultNotOverbooked ==
    ASSUME ReplacementsInPlace
    PROVE  Spec => []VaultNeverOverbooked
<1>1. Init => VaultInv
  BY InitVaultInv
<1>2. VaultInv => VaultNeverOverbooked
  BY FieldsOfNewTx, WholeOfVault, RoundingIsCompounds DEF VaultInv, Covered, VaultNeverOverbooked
<1>3. VaultInv /\ [Next]_vars => VaultInv'
  BY NextKeepsVaultInv
<1> QED BY <1>1, <1>2, <1>3, PTL DEF Spec

-----------------------------------------------------------------------------
(* The ledger *)

(* Opening may be two of the smallest amounts off; a closing, which leaves one
   open swap less, a unit of the asset. *)
LedgerInv ==
    /\ BookInv
    /\ Within(Surplus(NewTx), (2 + Unit) * lastSwapId - Unit * OpenSwaps(NewTx))

LEMMA LedgerNumbers ==
    ASSUME BookInv
    PROVE  lastSwapId \in Nat /\ Unit \in Nat /\ OpenSwaps(NewTx) \in Nat /\ Surplus(NewTx) \in Int
<1>1. NewTx \in Tx
  BY DEF BookInv, Sound
<1>2. lastSwapId \in Nat
  BY StorageAssumption DEF BookInv, RestTypeOK, UInt32
<1> QED BY <1>1, <1>2, TxFields, VaultAssumption

LEMMA LedgerNumbersNext == BookInv' => OpenSwaps(NewTx') \in Nat /\ Surplus(NewTx') \in Int
<1> SUFFICES ASSUME BookInv' PROVE OpenSwaps(NewTx') \in Nat /\ Surplus(NewTx') \in Int
  OBVIOUS
<1>1. NewTx' \in Tx
  BY DEF BookInv, Sound
<1> QED BY <1>1, TxFields

LEMMA BoundAfterClosing ==
    \A n, o, p, s, t \in Int :
        /\ Within(s, (2 + Unit) * n - Unit * o)
        /\ Within(t - s, Unit * (o - p))
        => Within(t, (2 + Unit) * n - Unit * p)
<1> SUFFICES ASSUME NEW n \in Int, NEW o \in Int, NEW p \in Int, NEW s \in Int, NEW t \in Int,
                    Within(s, (2 + Unit) * n - Unit * o), Within(t - s, Unit * (o - p))
             PROVE  Within(t, (2 + Unit) * n - Unit * p)
  OBVIOUS
<1>1. Unit \in Int
  BY VaultAssumption
<1>2. Unit * (o - p) = Unit * o - Unit * p
  BY <1>1
<1> DEFINE a == (2 + Unit) * n
           b == Unit * o
           c == Unit * p
<1>3. a \in Int /\ b \in Int /\ c \in Int
  BY <1>1
<1>4. Within(s, a - b) /\ Within(t - s, b - c)
  BY <1>2
<1> HIDE DEF a, b, c
<1>5. Within(t, a - c)
  BY <1>3, <1>4 DEF Within
<1> QED BY <1>5 DEF a, c

LEMMA BoundAfterOpening ==
    \A n, o, s, t \in Int :
        /\ Within(s, (2 + Unit) * n - Unit * o)
        /\ Within(t - s, 2)
        => Within(t, (2 + Unit) * (n + 1) - Unit * (o + 1))
<1> SUFFICES ASSUME NEW n \in Int, NEW o \in Int, NEW s \in Int, NEW t \in Int,
                    Within(s, (2 + Unit) * n - Unit * o), Within(t - s, 2)
             PROVE  Within(t, (2 + Unit) * (n + 1) - Unit * (o + 1))
  OBVIOUS
<1>1. Unit \in Int
  BY VaultAssumption
<1> DEFINE e == (2 + Unit) * n - Unit * o
<1>2. e \in Int /\ (2 + Unit) * (n + 1) - Unit * (o + 1) = e + 2
  BY <1>1
<1> HIDE DEF e
<1>3. Within(s, e)
  BY DEF e
<1>4. Within(t, e + 2)
  BY <1>2, <1>3 DEF Within
<1> QED BY <1>2, <1>4

LEMMA NextKeepsLedgerInv == LedgerInv /\ [Next]_vars => LedgerInv'
<1> SUFFICES ASSUME LedgerInv, [Next]_vars PROVE LedgerInv'
  OBVIOUS
<1> DEFINE n == lastSwapId
           o == OpenSwaps(NewTx)
           p == OpenSwaps(NewTx')
           s == Surplus(NewTx)
           t == Surplus(NewTx')
<1>1. BookInv /\ Within(s, (2 + Unit) * n - Unit * o)
  BY DEF LedgerInv
<1>2. BookInv'
  BY <1>1, NextKeepsBookInv
<1>3. n \in Int /\ o \in Int /\ s \in Int /\ p \in Int /\ t \in Int
  BY <1>1, <1>2, LedgerNumbers, LedgerNumbersNext
<1>4. CASE KeptStep
  <2>1. Within(t - s, Unit * (o - p)) /\ lastSwapId' = n
    BY <1>1, <1>4 DEF KeptStep, Kept
  <2> HIDE DEF n, o, p, s, t
  <2>2. Within(t, (2 + Unit) * n - Unit * p)
    BY <1>1, <1>3, <2>1, BoundAfterClosing
  <2> QED BY <1>2, <2>1, <2>2 DEF LedgerInv, n, p, t
<1>5. CASE OpenedStep
  <2>1. Within(t - s, 2) /\ lastSwapId' = n + 1 /\ p = o + 1
    BY <1>1, <1>5 DEF OpenedStep
  <2> HIDE DEF n, o, p, s, t
  <2>2. Within(t, (2 + Unit) * (n + 1) - Unit * (o + 1))
    BY <1>1, <1>3, <2>1, BoundAfterOpening
  <2> QED BY <1>2, <2>1, <2>2 DEF LedgerInv, p, t
<1>6. CASE ReplacedStep
  <2>1. t = s /\ p = o /\ lastSwapId' = n
    BY <1>6 DEF ReplacedStep
  <2> QED BY <1>1, <1>2, <2>1 DEF LedgerInv
<1>7. CASE UNCHANGED vars
  <2>1. NewTx' = NewTx /\ lastSwapId' = n
    BY <1>7, StutterKeeps
  <2> QED BY <1>1, <1>2, <2>1 DEF LedgerInv
<1> QED BY <1>1, <1>4, <1>5, <1>6, <1>7, StepCases

LEMMA LedgerInvBalances == LedgerInv => LedgerBalanced
<1> SUFFICES ASSUME LedgerInv PROVE LedgerBalanced
  OBVIOUS
<1> DEFINE n == lastSwapId
           o == OpenSwaps(NewTx)
           s == Surplus(NewTx)
<1>1. BookInv /\ Within(s, (2 + Unit) * n - Unit * o)
  BY DEF LedgerInv
<1>2. n \in Nat /\ Unit \in Nat /\ o \in Nat /\ s \in Int
  BY <1>1, LedgerNumbers
<1>3. Unit * o \in Nat
  BY <1>2, ProductOfNaturals
<1>4. NewTx \in Tx
  BY <1>1 DEF BookInv, Sound
<1>5. /\ balances.totalCollateral[PayFixed] \in Nat /\ balances.totalCollateral[ReceiveFixed] \in Nat
      /\ balances.liquidityPool \in Nat /\ balances.vault \in Nat
      /\ balances.iporPublicationFee \in Nat /\ balances.treasury \in Nat
      /\ ToWad(cash) \in Int /\ unowned \in Nat
  BY <1>4, <1>1, StateNumbers, BalancesFields
<1>6. \A leg \in Leg : DepositsOf(leg) = DepositOf(swaps[leg])
  BY DEF DepositsOf, DepositOf, Deposits, ActiveIds, ActiveOf
<1>7. DepositsOf(PayFixed) \in Int /\ DepositsOf(ReceiveFixed) \in Int
  <2>1. swaps[PayFixed] \in [SwapId -> Swap] /\ swaps[ReceiveFixed] \in [SwapId -> Swap]
    BY <1>4, TxFields, FieldsOfNewTx
  <2> QED BY <1>6, <2>1, DepositOfType DEF Leg
<1>8. s = ToWad(cash) + balances.vault - Claims - unowned
  <2>1. DepositsIn(NewTx) = DepositsOf(PayFixed) + DepositsOf(ReceiveFixed)
    BY <1>6, FieldsOfNewTx DEF DepositsIn, Leg
  <2>2. Claims = BookedClaims(balances) + DepositsIn(NewTx)
    BY <1>5, <1>7, <2>1 DEF Claims, BookedClaims, TotalCollateral
  <2>3. BookedClaims(balances) \in Int /\ DepositsIn(NewTx) \in Int
    BY <1>5, <1>7, <2>1 DEF BookedClaims
  <2>4. s = ((ToWad(cash) + balances.vault) - (BookedClaims(balances) + DepositsIn(NewTx)))
            - (0 + unowned)
    BY FieldsOfNewTx DEF Surplus
  <2> QED BY <1>5, <2>2, <2>3, <2>4
<1> HIDE DEF n, o, s
<1>9. 2 * AbsoluteValue(s) <= (2 + Unit) * n
  <2> DEFINE a == (2 + Unit) * n
             b == Unit * o
  <2>1. a \in Int /\ b \in Nat
    BY <1>2, <1>3
  <2>2. Within(s, a - b)
    BY <1>1
  <2> HIDE DEF a, b
  <2>3. 2 * AbsoluteValue(s) <= a
    BY <1>2, <2>1, <2>2 DEF Within, AbsoluteValue
  <2> QED BY <2>3 DEF a
<1> QED BY <1>8, <1>9 DEF LedgerBalanced, n

(* No token is owed twice or to nobody but what the code books for nobody,
   whatever the order of openings, closings, movements, replacements and
   payments: what Milton has and what is booked on Stanley stay within the
   roundings of all claims (MiltonStorage's balances, the liquidation
   deposits). *)
THEOREM LedgerStaysBalanced == Spec => []LedgerBalanced
<1>1. Init => LedgerInv
  <2> SUFFICES ASSUME Init PROVE LedgerInv
    OBVIOUS
  <2>1. /\ BookInv
        /\ Surplus(NewTx) = 0 /\ OpenSwaps(NewTx) = 0 /\ lastSwapId = 0
    BY InitBooks
  <2>2. Within(0, (2 + Unit) * 0 - Unit * 0)
    BY VaultAssumption DEF Within
  <2> QED BY <2>1, <2>2 DEF LedgerInv
<1> QED BY <1>1, LedgerInvBalances, NextKeepsLedgerInv, PTL DEF Spec

-----------------------------------------------------------------------------
(* The pool *)

LEMMA WholeNow == VaultInv => WholePool = PoolOf(NewTx)
  BY WholeOfVault DEF VaultInv

LEMMA WholeNext == VaultInv' => WholePool' = PoolOf(NewTx')
<1>1. VaultInv' => (WholePool = PoolOf(NewTx))'
  BY WholeNow, PTL
<1> QED BY <1>1

(* The roundings of a step, of the vault before it. *)
LEMMA StepRoundingIs ==
    ASSUME vault'.current = vault.current
    PROVE  StepRounding = RoundingsFrom(vault, vault')
<1>1. PICK w : w = vault'
  OBVIOUS
<1>2. CompoundRounding(w) = RoundingAt(w.current)
  BY RoundingIsCompounds
<1> QED BY <1>1, <1>2 DEF StepRounding, RoundingsFrom

LEMMA StepsKeepThePool ==
    ASSUME VaultInv, VaultInv', [Next]_vars, UNCHANGED <<swaps, ipTokens, now>>
    PROVE  AbsoluteValue(WholePool' - WholePool) <= StepRounding
<1>1. NewTx \in Tx /\ NewTx' \in Tx /\ BookInv
  BY DEF VaultInv, BookInv, Sound
<1>2. SamePool(NewTx, NewTx')
  <2>1. CASE KeptStep \/ ReplacedStep
    BY <2>1 DEF KeptStep, ReplacedStep, PoolKept
  <2>2. CASE OpenedStep
    BY <2>2 DEF OpenedStep
  <2>3. CASE UNCHANGED vars
    <3>1. NewTx' = NewTx
      BY <2>3, StutterKeeps
    <3> QED BY <3>1, <1>1, SamePoolItself
  <2> QED BY <1>1, <2>1, <2>2, <2>3, StepCases
<1>3. PICK r : r = NewTx'
  OBVIOUS
<1>4. /\ WholePool = PoolOf(NewTx) /\ WholePool' = PoolOf(r)
      /\ PoolOf(NewTx) \in Int /\ PoolOf(r) \in Int
  BY <1>1, <1>3, WholeNow, WholeNext, MarginType
<1>5. NewTx.vault = vault /\ r.vault = vault'
  BY <1>3 DEF NewTx
<1>6. vault \in Vault /\ vault' \in Vault
  <2>1. NewTx.vault \in Vault /\ r.vault \in Vault
    BY <1>1, <1>3, TxFields
  <2> QED BY <2>1, <1>5
<1>7. /\ StepRounding = RoundingsFrom(vault, vault') /\ RoundingsFrom(vault, vault') \in Nat
      /\ PoolOf(NewTx) - RoundingsFrom(vault, vault') <= PoolOf(r)
      /\ PoolOf(r) <= PoolOf(NewTx) + RoundingsFrom(vault, vault')
  <2>1. /\ vault'.current = vault.current /\ vault.conversions <= vault'.conversions
        /\ PoolOf(NewTx) - RoundingsFrom(vault, vault') <= PoolOf(r)
        /\ PoolOf(r) <= PoolOf(NewTx) + RoundingsFrom(vault, vault')
    BY <1>2, <1>3, <1>5 DEF SamePool
  <2> QED BY <2>1, <1>6, StepRoundingIs, RoundingsType
<1>8. \A x, y \in Int, f \in Nat : x - f <= y /\ y <= x + f => AbsoluteValue(y - x) <= f
  BY DEF AbsoluteValue
<1> QED BY <1>4, <1>7, <1>8

(* Moving tokens between Milton, Stanley and the strategies, replacing a
   strategy and paying out the treasuries changes the pool by the roundings of
   the cTokens minted and redeemed in the step and by nothing else, for any
   amounts, ratio, rate and interest (depositToStanley, withdrawFromStanley,
   rebalance, migrateAssetToStrategyWithMaxApr, _setStrategy). *)
THEOREM MovesAlwaysKeepThePool ==
    ASSUME ReplacementsInPlace
    PROVE  Spec => MovesKeepThePool
<1>1. VaultInv /\ [Next]_vars => VaultInv'
  BY NextKeepsVaultInv
<1>2. VaultInv /\ VaultInv' /\ [Next]_vars =>
        [UNCHANGED <<swaps, ipTokens, now>> =>
            AbsoluteValue(WholePool' - WholePool) <= StepRounding]_vars
  BY StepsKeepThePool
<1> QED BY InitVaultInv, <1>1, <1>2, PTL DEF Spec, MovesKeepThePool

-----------------------------------------------------------------------------
(* The value of a share *)

LEMMA WithinMagnitude == \A x, e \in Int : Within(x, e) => 2 * AbsoluteValue(x) <= e
  BY DEF Within, AbsoluteValue

(* What is minted for an amount stands for it at the value of a share, within
   half a unit of the rate and half a unit of the minted. *)
LEMMA MintedAtValue ==
    ASSUME NEW s \in Nat \ {0}, NEW v \in Nat, NEW wad \in Nat,
           NEW rate \in Nat \ {0}, rate = Division(v * D18, s),
           NEW m \in Nat, m = MintedFor(wad, rate)
    PROVE  2 * D18 * AbsoluteValue(s * wad - m * v) <= s * (rate + m)
<1> DEFINE a == rate * m - wad * D18
           b == s * rate - v * D18
<1>1. D18 \in Nat \ {0} /\ wad * D18 \in Int /\ v * D18 \in Int
  BY D18Assumption
<1>2. Within(a, rate)
  BY <1>1, DivisionWithin DEF MintedFor
<1>3. Within(b, s)
  BY <1>1, DivisionWithin
<1>4. a \in Int /\ b \in Int
  BY <1>1
<1>5. D18 * (s * wad - m * v) = m * b - s * a
  BY <1>1, SMT
<1> HIDE DEF a, b
<1>6. Within(s * a, s * rate) /\ Within(m * b, m * s)
  BY <1>2, <1>3, <1>4, WithinProduct
<1>7. Within(m * b - s * a, m * s + s * rate)
  <2>1. \A x, y, e, f \in Int : Within(x, e) /\ Within(y, f) => Within(y - x, f + e)
    BY DEF Within
  <2>2. s * a \in Int /\ s * rate \in Int /\ m * b \in Int /\ m * s \in Int
    BY <1>4
  <2> QED BY <1>6, <2>1, <2>2
<1>8. \A d \in Nat, x \in Int : AbsoluteValue(d * x) = d * AbsoluteValue(x)
  <2>1. \A d \in Nat, x \in Int : x >= 0 => d * x >= 0
    BY SMT
  <2>2. \A d \in Nat, x \in Int : x < 0 => d * x <= 0 /\ d * (-x) = -(d * x)
    BY SMT
  <2>3. \A x \in Int : x <= 0 => AbsoluteValue(x) = -x
    BY DEF AbsoluteValue
  <2>4. \A x \in Int : x >= 0 => AbsoluteValue(x) = x
    BY DEF AbsoluteValue
  <2>5. \A d \in Nat, x \in Int : d * x \in Int
    OBVIOUS
  <2> QED BY <2>1, <2>2, <2>3, <2>4, <2>5
<1>9. s * wad - m * v \in Int /\ m * b - s * a \in Int /\ m * s + s * rate \in Int
  BY <1>4
<1>10. 2 * AbsoluteValue(m * b - s * a) <= m * s + s * rate
  BY <1>7, <1>9, WithinMagnitude
<1>11. D18 * AbsoluteValue(s * wad - m * v) = AbsoluteValue(m * b - s * a)
  BY <1>1, <1>5, <1>8, <1>9
<1>12. m * s + s * rate = s * (rate + m)
  OBVIOUS
<1>13. AbsoluteValue(s * wad - m * v) \in Int
  BY <1>9 DEF AbsoluteValue
<1>14. \A x \in Int : 2 * D18 * x = 2 * (D18 * x)
  BY <1>1
<1> QED BY <1>10, <1>11, <1>12, <1>13, <1>14

(* What is paid for burnt ipTokens is worth no more than they are, but for the
   roundings of the rate, the amount and the decimals of the asset. *)
LEMMA PaidAtValue ==
    ASSUME NEW s \in Nat \ {0}, NEW v \in Nat, NEW burnt \in Nat,
           NEW rate \in Nat, rate = Division(v * D18, s),
           NEW wad \in Int, wad = ToWad(RedeemAmount(burnt, rate, Unit))
    PROVE  2 * D18 * (s * wad - burnt * v) <= s * (burnt + D18 + D18 * Unit)
<1> DEFINE x == Division(burnt * rate, D18)
           fee == Division(x * REDEEM_FEE_RATE, D18)
<1>1. D18 \in Nat \ {0} /\ burnt * rate \in Nat /\ v * D18 \in Nat /\ Unit \in Nat
  BY D18Assumption, VaultAssumption
<1>2. x \in Nat /\ Within(D18 * x - burnt * rate, D18)
  BY <1>1, DivisionNatural, DivisionWithin
<1>3. fee \in Nat
  <2>1. REDEEM_FEE_RATE \in Nat
    BY JosephAssumption, D18Assumption
  <2> HIDE DEF x
  <2>2. x * REDEEM_FEE_RATE \in Nat
    BY <1>2, <2>1
  <2> QED BY <1>1, <2>2, DivisionNatural
<1>4. Within(s * rate - v * D18, s)
  BY <1>1, DivisionWithin
<1>5. wad = ToWad(ToAsset(x - fee))
  BY DEF RedeemAmount, ToAsset
<1> HIDE DEF x, fee
<1>6. Within(wad - (x - fee), Unit)
  BY <1>2, <1>3, <1>5, RoundingWithin
<1>7. 2 * wad <= 2 * x + Unit
  BY <1>1, <1>2, <1>3, <1>6 DEF Within
<1>8. 2 * (D18 * x) <= 2 * (burnt * rate) + D18
  <2> DEFINE p == D18 * x
             q == burnt * rate
  <2>1. p \in Int /\ q \in Int /\ Within(p - q, D18)
    BY <1>1, <1>2
  <2> HIDE DEF p, q
  <2>2. 2 * p <= 2 * q + D18
    BY <1>1, <2>1 DEF Within
  <2> QED BY <2>2 DEF p, q
<1>9. 2 * (s * rate) <= 2 * (v * D18) + s
  <2> DEFINE p == s * rate
             q == v * D18
  <2>1. p \in Int /\ q \in Int /\ Within(p - q, s)
    BY <1>1, <1>4
  <2> HIDE DEF p, q
  <2>2. 2 * p <= 2 * q + s
    BY <2>1 DEF Within
  <2> QED BY <2>2 DEF p, q
<1>10. s * (D18 * (2 * wad)) <= s * (D18 * (2 * x + Unit))
  <2>1. D18 * (2 * wad) <= D18 * (2 * x + Unit)
    BY <1>1, <1>2, <1>7, ProductMonotonic
  <2>2. D18 * (2 * wad) \in Int /\ D18 * (2 * x + Unit) \in Int
    BY <1>1, <1>2
  <2> QED BY <2>1, <2>2, ProductMonotonic
<1>11. s * (2 * (D18 * x)) <= s * (2 * (burnt * rate) + D18)
  <2>1. 2 * (D18 * x) \in Int /\ 2 * (burnt * rate) + D18 \in Int /\ s \in Nat
    BY <1>1, <1>2
  <2> QED BY <1>8, <2>1, ProductMonotonic
<1>12. burnt * (2 * (s * rate)) <= burnt * (2 * (v * D18) + s)
  <2>1. 2 * (s * rate) \in Int /\ 2 * (v * D18) + s \in Int
    BY <1>1
  <2> QED BY <1>9, <2>1, ProductMonotonic
<1>13. s * (D18 * (2 * x + Unit)) = s * (2 * (D18 * x)) + s * (D18 * Unit)
  BY <1>1, <1>2, SMT
<1>14. s * (2 * (burnt * rate) + D18) = burnt * (2 * (s * rate)) + s * D18
  BY <1>1, SMT
<1>15. burnt * (2 * (v * D18) + s) = 2 * D18 * (burnt * v) + s * burnt
  BY <1>1, SMT
<1>16. s * (D18 * (2 * wad)) = 2 * D18 * (s * wad)
  BY <1>1, SMT
<1>17. /\ s * (burnt + D18 + D18 * Unit) = s * burnt + s * D18 + s * (D18 * Unit)
       /\ 2 * D18 * (s * wad - burnt * v) = 2 * D18 * (s * wad) - 2 * D18 * (burnt * v)
  BY <1>1, SMT
<1>18. /\ s * (D18 * (2 * wad)) \in Int /\ s * (D18 * (2 * x + Unit)) \in Int
       /\ s * (2 * (D18 * x)) \in Int /\ s * (2 * (burnt * rate) + D18) \in Int
       /\ burnt * (2 * (s * rate)) \in Int /\ burnt * (2 * (v * D18) + s) \in Int
       /\ s * (D18 * Unit) \in Int /\ s * D18 \in Int /\ s * burnt \in Int
       /\ 2 * D18 * (burnt * v) \in Int
  BY <1>1, <1>2
<1>19. \A A, B, C, D, E, F, u, w, y, z \in Int :
          /\ A <= B /\ C <= D /\ E <= F
          /\ B = C + u /\ D = E + w /\ F = z + y
          => A - z <= y + w + u
  BY SMT
<1>20. s * (D18 * (2 * wad)) - 2 * D18 * (burnt * v) <= s * burnt + s * D18 + s * (D18 * Unit)
  BY <1>10, <1>11, <1>12, <1>13, <1>14, <1>15, <1>18, <1>19
<1> QED BY <1>16, <1>17, <1>20

(* An amount that is f off is worth as much more or less. *)
LEMMA ShiftedValue ==
    ASSUME NEW s \in Nat, NEW wad \in Int, NEW x \in Int, NEW f \in Nat,
           wad - f <= x, x <= wad + f, NEW b \in Int, NEW e \in Int
    PROVE  /\ 2 * D18 * AbsoluteValue(s * wad - b) <= s * e =>
                  2 * D18 * AbsoluteValue(s * x - b) <= s * (e + 2 * D18 * f)
           /\ 2 * D18 * (s * wad - b) <= s * e =>
                  2 * D18 * (s * x - b) <= s * (e + 2 * D18 * f)
<1> DEFINE d == 2 * D18
           p == s * wad
           q == s * x
           g == s * f
<1>1. d \in Nat /\ d * f \in Int
  <2>1. D18 \in Nat
    BY D18Assumption
  <2> QED BY <2>1
<1> HIDE DEF d
<1>2. p \in Int /\ q \in Int /\ g \in Nat /\ p - g <= q /\ q <= p + g
  <2>1. /\ s * (wad - f) <= s * x /\ s * x <= s * (wad + f)
        /\ s * (wad - f) = p - g /\ s * (wad + f) = p + g
    <3>1. s * (wad - f) <= s * x /\ s * x <= s * (wad + f)
      BY ProductMonotonic
    <3> QED BY <3>1
  <2>2. p \in Int /\ q \in Int /\ g \in Nat
    BY ProductOfNaturals
  <2> QED BY <2>1, <2>2
<1>3. s * (e + d * f) = s * e + d * g /\ s * e \in Int /\ d * g \in Int
  <2>1. \A a, h, k, z \in Int : a * (h + k * z) = a * h + k * (a * z)
    BY SMT
  <2>2. d * g \in Int /\ s * e \in Int
    BY <1>1, <1>2
  <2> QED BY <2>1, <2>2, <1>1
<1> HIDE DEF p, q, g
<1>4. /\ AbsoluteValue(q - b) \in Int /\ AbsoluteValue(p - b) \in Int
      /\ AbsoluteValue(q - b) <= AbsoluteValue(p - b) + g /\ q - b <= (p - b) + g
  BY <1>2 DEF AbsoluteValue
<1>5. \A y, z \in Int : y <= z + g => d * y <= d * z + d * g /\ d * y \in Int /\ d * z \in Int
  <2> SUFFICES ASSUME NEW y \in Int, NEW z \in Int, y <= z + g
               PROVE  d * y <= d * z + d * g /\ d * y \in Int /\ d * z \in Int
    OBVIOUS
  <2>1. d * y <= d * (z + g)
    BY <1>1, <1>2, ProductMonotonic
  <2>2. d * (z + g) = d * z + d * g
    BY <1>1, <1>2
  <2>3. d * y \in Int /\ d * z \in Int
    BY <1>1
  <2> QED BY <2>1, <2>2, <2>3
<1>6. ASSUME d * AbsoluteValue(p - b) <= s * e
      PROVE  d * AbsoluteValue(q - b) <= s * e + d * g
  <2> DEFINE y == d * AbsoluteValue(q - b)
             z == d * AbsoluteValue(p - b)
             h == d * g
             k == s * e
  <2>1. y <= z + h /\ y \in Int /\ z \in Int /\ h \in Int /\ k \in Int /\ z <= k
    BY <1>3, <1>4, <1>5, <1>6
  <2> HIDE DEF y, z, h, k
  <2>2. y <= k + h
    BY <2>1
  <2> QED BY <2>2 DEF y, h, k
<1>7. ASSUME d * (p - b) <= s * e
      PROVE  d * (q - b) <= s * e + d * g
  <2> DEFINE y == d * (q - b)
             z == d * (p - b)
             h == d * g
             k == s * e
  <2>1. q - b \in Int /\ p - b \in Int
    BY <1>2
  <2>2. y <= z + h /\ y \in Int /\ z \in Int /\ h \in Int /\ k \in Int /\ z <= k
    BY <2>1, <1>3, <1>4, <1>5, <1>7
  <2> HIDE DEF y, z, h, k
  <2>3. y <= k + h
    BY <2>2
  <2> QED BY <2>3 DEF y, h, k
<1> QED BY <1>3, <1>6, <1>7 DEF d, p, q

(* Only liquidity providers change the supply. *)
LEMMA SupplyStays ==
    ASSUME [Next]_vars, ~ProvideLiquidity, ~Redeem
    PROVE  UNCHANGED ipTokens
<1>1. CASE CloseSwap
  <2>1. PICK leg \in Leg, id \in SwapId, sender \in Account \cup {Owner} :
           CloseOne(leg, id, sender)
    BY <1>1 DEF CloseSwap
  <2> QED BY <2>1 DEF CloseOne
<1>2. CASE EmergencyCloseSwap
  <2>1. PICK leg \in Leg, id \in SwapId : CloseOne(leg, id, Owner)
    BY <1>2 DEF EmergencyCloseSwap
  <2> QED BY <2>1 DEF CloseOne
<1>3. CASE CloseSwaps \/ EmergencyCloseSwaps
  BY <1>3 DEF CloseSwaps, EmergencyCloseSwaps
<1>4. CASE DepositToStanley \/ WithdrawFromStanley \/ WithdrawAllFromStanley \/ Rebalance
  BY <1>4 DEF DepositToStanley, WithdrawFromStanley, WithdrawAllFromStanley, Rebalance,
              MoveToStanley, MoveFromStanley
<1>5. CASE TransferToTreasury \/ TransferToCharlieTreasury
  BY <1>5 DEF TransferToTreasury, TransferToCharlieTreasury
<1>6. CASE SetMiltonStanleyBalanceRatio \/ PauseMilton \/ PauseJoseph \/ PauseStanley
           \/ MigrateAssetToStrategyWithMaxApr
  BY <1>6 DEF SetMiltonStanleyBalanceRatio, PauseMilton, PauseJoseph, PauseStanley,
              MigrateAssetToStrategyWithMaxApr
<1>7. CASE Tick \/ SetStrategyOfStanley
  BY <1>7 DEF Tick, SetStrategyOfStanley
<1>8. CASE OpenSwap
  BY <1>8 DEF OpenSwap
<1>9. CASE UNCHANGED vars
  BY <1>9 DEF vars
<1> QED BY <1>1, <1>2, <1>3, <1>4, <1>5, <1>6, <1>7, <1>8, <1>9 DEF Next

LEMMA StepsKeepTheShare ==
    ASSUME VaultInv, VaultInv', [Next]_vars
    PROVE  /\ Supply > 0 /\ Supply' > Supply =>
                LET minted == Supply' - Supply
                IN  2 * D18 * AbsoluteValue(Supply * (PoolWorth' - PoolWorth) - minted * PoolValue)
                        <= Supply * (PoolRate + minted + 2 * D18 * StepRounding)
           /\ Supply' < Supply =>
                LET burnt == Supply - Supply'
                IN  2 * D18 * (Supply * (PoolWorth - PoolWorth') - burnt * PoolValue)
                        <= Supply * (burnt + D18 + D18 * Unit + 2 * D18 * StepRounding)
<1>1. NewTx \in Tx /\ NewTx' \in Tx /\ BookInv /\ BookInv'
  BY DEF VaultInv, BookInv, Sound
<1>2. PICK r : r = NewTx'
  OBVIOUS
<1>3. /\ WholePool = PoolOf(NewTx) /\ WholePool' = PoolOf(r)
      /\ PoolOf(NewTx) \in Int /\ PoolOf(r) \in Int
  BY <1>1, <1>2, WholeNow, WholeNext, MarginType
<1>4. NewTx.vault = vault /\ r.vault = vault' /\ vault \in Vault /\ vault' \in Vault
  <2>1. NewTx.vault = vault /\ r.vault = vault'
    BY <1>2 DEF NewTx
  <2>2. NewTx.vault \in Vault /\ r.vault \in Vault
    BY <1>1, <1>2, TxFields
  <2> QED BY <2>1, <2>2
<1>5. AccruedPool \in Int /\ SoapNow \in Int /\ Supply \in Nat /\ D18 \in Nat /\ Unit \in Nat
  BY <1>1, NumbersOfPool, D18Assumption, VaultAssumption
<1>6. PoolValue = AccruedPool - SoapNow /\ PoolValue \in Int
  BY <1>5 DEF PoolValue
<1>7. ASSUME UNCHANGED <<soap, marketVars>> PROVE SoapNow' = SoapNow
  BY <1>7 DEF SoapNow, marketVars
<1>8. ASSUME NEW x \in Int, PoolShifts(NewTx, NewTx', x), SoapNow' = SoapNow
      PROVE  /\ StepRounding \in Nat /\ PoolWorth' - PoolWorth \in Int
             /\ x - StepRounding <= PoolWorth' - PoolWorth
             /\ PoolWorth' - PoolWorth <= x + StepRounding
  <2> DEFINE f == RoundingsFrom(vault, vault')
  <2>1. /\ vault'.current = vault.current /\ vault.conversions <= vault'.conversions
        /\ (PoolOf(NewTx) + x) - f <= PoolOf(r) /\ PoolOf(r) <= (PoolOf(NewTx) + x) + f
    BY <1>2, <1>4, <1>8 DEF PoolShifts
  <2>2. StepRounding = f /\ f \in Nat
    BY <2>1, <1>4, StepRoundingIs, RoundingsType
  <2>3. PoolWorth = PoolOf(NewTx) - SoapNow /\ PoolWorth' = PoolOf(r) - SoapNow
    BY <1>3, <1>8 DEF PoolWorth
  <2> HIDE DEF f
  <2> QED BY <2>1, <2>2, <2>3, <1>3, <1>5
<1>9. CASE ProvideLiquidity
  <2>1. PICK wad \in Nat, minted \in Nat \ {0} :
           /\ AccruedPool - SoapNow >= 0 /\ PoolRate > 0
           /\ minted = MintedFor(wad, PoolRate)
           /\ Supply' = Supply + minted
           /\ UNCHANGED <<soap, marketVars>>
           /\ PoolShifts(NewTx, NewTx', wad)
    BY <1>1, <1>9, ProvideKeeps DEF ProvidedStep
  <2> DEFINE x == PoolWorth' - PoolWorth
  <2>2. StepRounding \in Nat /\ x \in Int /\ wad - StepRounding <= x /\ x <= wad + StepRounding
    BY <1>7, <1>8, <2>1
  <2>3. Supply' - Supply = minted /\ ~(Supply' < Supply)
    BY <1>5, <2>1
  <2>4. ASSUME Supply > 0
        PROVE  2 * D18 * AbsoluteValue(Supply * x - minted * PoolValue)
                  <= Supply * (PoolRate + minted + 2 * D18 * StepRounding)
    <3>1. PoolRate = Division(PoolValue * D18, Supply)
      BY <1>6, <2>4 DEF PoolRate, ExchangeRate
    <3>2. PoolRate \in Nat \ {0} /\ PoolValue \in Nat /\ Supply \in Nat \ {0}
      BY <1>1, <1>5, <1>6, <2>1, <2>4, NumbersOfPool
    <3>3. 2 * D18 * AbsoluteValue(Supply * wad - minted * PoolValue)
             <= Supply * (PoolRate + minted)
      BY <2>1, <3>1, <3>2, MintedAtValue
    <3>4. minted * PoolValue \in Int /\ PoolRate + minted \in Int
      BY <3>2
    <3> DEFINE b == minted * PoolValue
               e == PoolRate + minted
    <3> HIDE DEF x, b, e
    <3>5. 2 * D18 * AbsoluteValue(Supply * x - b) <= Supply * (e + 2 * D18 * StepRounding)
      <4>1. b \in Int /\ e \in Int /\ wad \in Int
        BY <3>4 DEF b, e
      <4>2. 2 * D18 * AbsoluteValue(Supply * wad - b) <= Supply * e
        BY <3>3 DEF b, e
      <4> QED BY <4>1, <4>2, <2>2, <1>5, ShiftedValue
    <3> QED BY <3>5 DEF b, e
  <2> QED BY <2>3, <2>4
<1>10. CASE Redeem
  <2>1. PICK burnt \in Nat \ {0}, wad \in Nat :
           /\ AccruedPool - SoapNow >= 0
           /\ wad = ToWad(RedeemAmount(burnt, PoolRate, Unit))
           /\ Supply' = Supply - burnt
           /\ UNCHANGED <<soap, marketVars>>
           /\ PoolShifts(NewTx, NewTx', -wad)
    BY <1>1, <1>10, RedeemKeeps DEF RedeemedStep
  <2> DEFINE x == PoolWorth - PoolWorth'
  <2>2. StepRounding \in Nat /\ x \in Int /\ wad - StepRounding <= x /\ x <= wad + StepRounding
    <3>1. /\ StepRounding \in Nat /\ PoolWorth' - PoolWorth \in Int
          /\ (-wad) - StepRounding <= PoolWorth' - PoolWorth
          /\ PoolWorth' - PoolWorth <= (-wad) + StepRounding
      BY <1>7, <1>8, <2>1
    <3>2. PoolWorth \in Int /\ PoolWorth' \in Int
      BY <1>3, <1>5, <1>7, <2>1 DEF PoolWorth
    <3>3. \A a, b, c \in Int, n \in Nat :
             (-c) - n <= b - a /\ b - a <= (-c) + n
                => a - b \in Int /\ c - n <= a - b /\ a - b <= c + n
      BY SMT
    <3> HIDE DEF x
    <3>4. \A a, b \in Int : a = PoolWorth /\ b = PoolWorth' =>
             StepRounding \in Nat /\ a - b \in Int
             /\ wad - StepRounding <= a - b /\ a - b <= wad + StepRounding
      <4> SUFFICES ASSUME NEW a \in Int, NEW b \in Int, a = PoolWorth, b = PoolWorth'
                   PROVE  /\ StepRounding \in Nat /\ a - b \in Int
                          /\ wad - StepRounding <= a - b /\ a - b <= wad + StepRounding
        OBVIOUS
      <4> DEFINE n == StepRounding
      <4>1. n \in Nat /\ (-wad) - n <= b - a /\ b - a <= (-wad) + n
        BY <3>1
      <4>2. wad \in Int
        BY <2>1
      <4> HIDE DEF n
      <4>3. a - b \in Int /\ wad - n <= a - b /\ a - b <= wad + n
        BY <4>1, <4>2, <3>3
      <4> QED BY <4>1, <4>3 DEF n
    <3> QED BY <3>2, <3>4 DEF x
  <2>3. Supply - Supply' = burnt /\ ~(Supply' > Supply)
    BY <1>5, <2>1
  <2>4. Supply \in Nat \ {0}
    <3>1. PICK g : g = ipTokens'
      OBVIOUS
    <3>2. \A a \in Account : ipTokens'[a] \in Nat
      BY <1>1 DEF BookInv, RestTypeOK
    <3>3. SumFunctionOnSet(g, Account) \in Nat
      BY <3>1, <3>2, AmmAssumption, SumOfNaturals
    <3>4. Supply' \in Nat
      BY <3>1, <3>3 DEF Supply
    <3> QED BY <1>5, <2>1, <3>4
  <2>5. 2 * D18 * (Supply * x - burnt * PoolValue)
           <= Supply * (burnt + D18 + D18 * Unit + 2 * D18 * StepRounding)
    <3>1. PoolRate = Division(PoolValue * D18, Supply)
      BY <1>6, <2>4 DEF PoolRate, ExchangeRate
    <3>2. PoolRate \in Nat /\ PoolValue \in Nat
      BY <1>1, <1>5, <1>6, <2>1, NumbersOfPool
    <3>3. 2 * D18 * (Supply * wad - burnt * PoolValue) <= Supply * (burnt + D18 + D18 * Unit)
      BY <2>1, <2>4, <3>1, <3>2, PaidAtValue
    <3> DEFINE b == burnt * PoolValue
               e == burnt + D18 + D18 * Unit
    <3>4. b \in Int /\ e \in Int /\ wad \in Int /\ Supply \in Nat
      BY <3>2, <1>5
    <3> HIDE DEF x, b, e
    <3>5. 2 * D18 * (Supply * x - b) <= Supply * (e + 2 * D18 * StepRounding)
      <4>1. 2 * D18 * (Supply * wad - b) <= Supply * e
        BY <3>3 DEF b, e
      <4> QED BY <4>1, <3>4, <2>2, ShiftedValue
    <3> QED BY <3>5 DEF b, e
  <2> QED BY <2>3, <2>5
<1>11. CASE ~ProvideLiquidity /\ ~Redeem
  <2>1. Supply' = Supply
    BY <1>11, SupplyStays DEF Supply
  <2> QED BY <1>5, <2>1
<1> QED BY <1>9, <1>10, <1>11

(* A deposit leaves the others their share and a redemption takes no more than
   the redeemer's, but for the roundings of the rate and of the cTokens,
   whatever the pool, the swaps and the interest, also when the transaction
   moves tokens to or from Stanley (_provideLiquidity, _redeem). *)
THEOREM ProvidersAlwaysKeepTheirShare ==
    ASSUME ReplacementsInPlace
    PROVE  Spec => ProvidersKeepTheirShare
<1>1. VaultInv /\ [Next]_vars => VaultInv'
  BY NextKeepsVaultInv
<1>2. VaultInv /\ VaultInv' /\ [Next]_vars =>
        [/\ Supply > 0 /\ Supply' > Supply =>
            LET minted == Supply' - Supply
            IN  2 * D18 * AbsoluteValue(Supply * (PoolWorth' - PoolWorth) - minted * PoolValue)
                    <= Supply * (PoolRate + minted + 2 * D18 * StepRounding)
         /\ Supply' < Supply =>
            LET burnt == Supply - Supply'
            IN  2 * D18 * (Supply * (PoolWorth - PoolWorth') - burnt * PoolValue)
                    <= Supply * (burnt + D18 + D18 * Unit + 2 * D18 * StepRounding)]_vars
  BY StepsKeepTheShare
<1> QED BY InitVaultInv, <1>1, <1>2, PTL DEF Spec, ProvidersKeepTheirShare

-----------------------------------------------------------------------------
(* The cover of the swaps *)

LEMMA VaultInvCovers == VaultInv => PoolCoversCollateral
<1> SUFFICES ASSUME VaultInv PROVE PoolCoversCollateral
  OBVIOUS
<1>1. BookInv /\ MarginOK /\ NewTx \in Tx
  BY DEF VaultInv, BookInv, Sound
<1>2. /\ PoolOf(NewTx) \in Int /\ CollateralOf(balances) \in Nat /\ RoundingsOf(vault) \in Nat
      /\ hidden \in Nat
  BY <1>1, StateNumbers, MarginType, FieldsOfNewTx
<1>3. 0 <= ((PoolOf(NewTx) + RoundingsOf(vault)) - CollateralOf(balances)) + hidden
  BY <1>1, FieldsOfNewTx DEF MarginOK, Margin
<1>4. CompoundRoundings(vault) = RoundingsOf(vault)
  BY RoundingIsCompounds DEF CompoundRoundings, RoundingsOf
<1> QED BY <1>2, <1>3, <1>4, WholeNow DEF PoolCoversCollateral, TotalCollateral, CollateralOf

(* The pool with its interest covers the collateral of all open swaps, the most
   they can be paid, but for Compound's roundings and for what the largest check
   of the pool's size overlooked: after any sequence of openings, closings,
   redemptions and moves (_validateUtilization, the redeem's utilization, the
   payoff's bound by the collateral). *)
THEOREM SwapsAlwaysCovered ==
    ASSUME ReplacementsInPlace
    PROVE  Spec => []PoolCoversCollateral
<1>1. VaultInv /\ [Next]_vars => VaultInv'
  BY NextKeepsVaultInv
<1> QED BY InitVaultInv, VaultInvCovers, <1>1, PTL DEF Spec

-----------------------------------------------------------------------------
(* The shares of Stanley *)

(* A share is burnt for what it stands for, but for two roundings. *)
LEMMA SharesLeft ==
    ASSUME NEW iv \in Nat \ {0}, NEW paid \in Nat \ {0},
           NEW burnt, burnt = IF SharesFor(paid, VaultRate(paid, iv)) > iv THEN iv
                              ELSE SharesFor(paid, VaultRate(paid, iv))
    PROVE  2 * VaultRate(paid, iv) * (iv - burnt) <= iv + VaultRate(paid, iv)
<1> DEFINE rate == VaultRate(paid, iv)
           x == paid * D18
           shares == Division(x, rate)
           p == iv * rate
           q == rate * shares
<1>1. x \in Nat /\ rate = Division(x, iv) /\ rate \in Nat
  <2>1. x \in Nat
    BY D18Assumption, ProductOfNaturals
  <2>2. rate = Division(x, iv)
    BY DEF VaultRate
  <2> QED BY <2>1, <2>2, DivisionNatural
<1>2. Within(p - x, iv)
  BY <1>1, DivisionWithin
<1>7. burnt = IF SharesFor(paid, rate) > iv THEN iv ELSE SharesFor(paid, rate)
  OBVIOUS
<1>8. rate # 0 => SharesFor(paid, rate) = shares
  BY DEF SharesFor
<1> HIDE DEF x, rate
<1>3. CASE rate = 0
  <2>1. burnt \in Int /\ 2 * rate * (iv - burnt) = 0
    <3>1. burnt = 0
      BY <1>3, <1>7 DEF SharesFor
    <3> QED BY <1>3, <3>1
  <2> QED BY <2>1, <1>1, <1>3 DEF rate
<1>4. CASE rate # 0
  <2>1. shares \in Nat /\ Within(q - x, rate)
    BY <1>1, <1>4, DivisionNatural, DivisionWithin
  <2> HIDE DEF shares
  <2>2. p \in Int /\ q \in Int
    BY <1>1, <2>1
  <2>3. CASE shares > iv
    <3>1. burnt = iv /\ 2 * rate * (iv - iv) = 0
      BY <2>3, <1>1, <1>4, <1>7, <1>8
    <3> QED BY <3>1, <1>1 DEF rate
  <2>4. CASE ~(shares > iv)
    <3>1. burnt = shares
      BY <2>4, <1>4, <1>7, <1>8
    <3>2. 2 * rate * (iv - shares) = 2 * (p - q)
      <4>1. \A a, b, c \in Int : 2 * a * (b - c) = 2 * (b * a - a * c)
        BY SMT
      <4> QED BY <4>1, <1>1, <2>1
    <3> HIDE DEF p, q
    <3>3. 2 * (p - q) <= iv + rate
      BY <1>1, <1>2, <2>1, <2>2 DEF Within
    <3> QED BY <3>1, <3>2, <3>3 DEF rate
  <2> QED BY <2>3, <2>4
<1> QED BY <1>3, <1>4

LEMMA WithdrawBurns ==
    ASSUME NEW v, VaultOK(v), NEW amount \in Nat, NEW r, r = Withdraw(v, amount),
           r.ok, r.withdrawn > 0, HeldTotal(r.vault) = 0
    PROVE  2 * VaultRate(r.withdrawn, v.iv) * r.vault.iv <= v.iv + VaultRate(r.withdrawn, v.iv)
<1> DEFINE selected == SelectStrategyAndWithdrawAmount(v, amount)
           c        == v.at[selected[1]]
           got      == WithdrawFromStrategy(v, c, selected[2])
           shares   == SharesWithdrawn(got.paid, HeldTotal(got.vault), v.iv)
           burnt    == IF shares > v.iv THEN v.iv ELSE shares
<1>1. selected[1] \in Strategy /\ selected[2] \in Nat
  BY SelectedType
<1>2. c \in InUse(v)
  BY <1>1 DEF Strategy, InUse
<1>3. selected[2] # 0
  <2> SUFFICES ASSUME selected[2] = 0 PROVE FALSE
    OBVIOUS
  <2>1. r.withdrawn = 0
    BY DEF Withdraw
  <2> QED BY <2>1
<1> HIDE DEF selected
<1>4. /\ r.vault = [got.vault EXCEPT !.iv = @ - burnt, !.reported = got.vault.conversions]
      /\ r.withdrawn = got.paid
      /\ got.ok /\ burnt > 0
  <2>1. r = [ok |-> ~v.paused /\ amount > 0 /\ got.ok /\ burnt > 0,
             vault |-> [got.vault EXCEPT !.iv = @ - burnt, !.reported = got.vault.conversions],
             withdrawn |-> got.paid,
             vaultBalance |-> HeldTotal(got.vault)]
    BY <1>3, Zenon DEF Withdraw, selected
  <2> DEFINE w == [got.vault EXCEPT !.iv = @ - burnt, !.reported = got.vault.conversions]
             fine == ~v.paused /\ amount > 0 /\ got.ok /\ burnt > 0
             kept == HeldTotal(got.vault)
             paid == got.paid
  <2>2. r = [ok |-> fine, vault |-> w, withdrawn |-> paid, vaultBalance |-> kept]
    BY <2>1
  <2> HIDE DEF w, fine, kept, paid
  <2>3. r.ok = fine /\ r.vault = w /\ r.withdrawn = paid
    BY <2>2
  <2> QED BY <2>3, Zenon DEF w, fine, paid
<1>5. /\ got.paid \in Nat /\ VaultOK(got.vault) /\ got.vault.iv = v.iv
  BY <1>1, <1>2, <1>4, PaymentKeepsVault
<1> HIDE DEF got, c
<1>6. /\ v.iv \in Nat /\ HeldTotal(got.vault) \in Nat /\ got.vault.conversions \in Nat
  BY <1>5, VaultFields, HeldTypes DEF VaultOK
<1>7. shares \in Nat
  <2>1. HeldTotal(got.vault) + got.paid \in Nat
    BY <1>5, <1>6
  <2> QED BY <2>1, <1>5, <1>6, SharesType DEF SharesWithdrawn
<1>8. v.iv - burnt \in Nat /\ v.iv # 0
  <2> HIDE DEF shares
  <2> QED BY <1>4, <1>6, <1>7
<1> DEFINE left == v.iv - burnt
           m    == got.vault.conversions
<1>9. r.vault = Reporting(got.vault, left, m)
  <2> HIDE DEF burnt
  <2> QED BY <1>4, <1>5 DEF Reporting
<1>10. r.vault.iv = left /\ HeldTotal(r.vault) = HeldTotal(got.vault)
  <2>1. left \in Nat /\ m \in Nat /\ m <= got.vault.conversions
    BY <1>6, <1>8
  <2> HIDE DEF left, m
  <2> QED BY <2>1, <1>5, <1>9, SharesOK
<1>11. HeldTotal(got.vault) + got.paid = got.paid
  BY <1>5, <1>10
<1>12. shares = SharesFor(got.paid, VaultRate(got.paid, v.iv))
  BY <1>11 DEF SharesWithdrawn
<1>13. got.paid \in Nat \ {0} /\ v.iv \in Nat \ {0}
  BY <1>4, <1>5, <1>6, <1>8
<1>14. burnt = IF SharesFor(got.paid, VaultRate(got.paid, v.iv)) > v.iv THEN v.iv
               ELSE SharesFor(got.paid, VaultRate(got.paid, v.iv))
  <2> HIDE DEF shares
  <2> QED BY <1>12
<1> HIDE DEF burnt
<1>15. 2 * VaultRate(got.paid, v.iv) * (v.iv - burnt) <= v.iv + VaultRate(got.paid, v.iv)
  BY <1>13, <1>14, SharesLeft
<1> QED BY <1>4, <1>10, <1>15

LEMMA WithdrawAllBurns ==
    ASSUME NEW v, VaultOK(v), NEW r, r = WithdrawAll(v), r.ok
    PROVE  2 * VaultRate(r.withdrawn, v.iv) * r.vault.iv <= v.iv + VaultRate(r.withdrawn, v.iv)
<1> DEFINE x      == HeldAt(v, Aave)
           y      == HeldAt(v, Compound)
           first  == WithdrawFromStrategy(v, v.at[Aave], x)
           second == WithdrawFromStrategy(first.vault, v.at[Compound], y)
<1>1. /\ first.ok /\ second.ok
      /\ r.vault = [second.vault EXCEPT !.iv = 0, !.reported = second.vault.conversions]
  <2>1. r = [ok |-> ~v.paused /\ first.ok /\ second.ok /\ v.iv > 0,
             vault |-> [second.vault EXCEPT !.iv = 0, !.reported = second.vault.conversions],
             withdrawn |-> first.paid + second.paid,
             vaultBalance |-> HeldTotal(second.vault)]
    BY Zenon DEF WithdrawAll
  <2> DEFINE w == [second.vault EXCEPT !.iv = 0, !.reported = second.vault.conversions]
             fine == ~v.paused /\ first.ok /\ second.ok /\ v.iv > 0
             kept == HeldTotal(second.vault)
             paid == first.paid + second.paid
  <2>2. r = [ok |-> fine, vault |-> w, withdrawn |-> paid, vaultBalance |-> kept]
    BY <2>1
  <2> HIDE DEF w, fine, kept, paid
  <2>3. r.ok = fine /\ r.vault = w
    BY <2>2
  <2> QED BY <2>3, Zenon DEF w, fine
<1>2. x \in Nat /\ y \in Nat
  BY HeldTypes DEF VaultOK
<1> HIDE DEF x, y
<1>3. VaultOK(first.vault) /\ SameContracts(v, first.vault)
  <2>1. v.at[Aave] \in InUse(v)
    BY DEF InUse
  <2> QED BY <2>1, <1>1, <1>2, PaymentKeepsVault
<1> HIDE DEF first
<1>4. VaultOK(second.vault)
  <2>1. v.at[Compound] \in InUse(first.vault)
    BY <1>3 DEF InUse, SameContracts
  <2> QED BY <2>1, <1>1, <1>2, <1>3, PaymentKeepsVault
<1> HIDE DEF second
<1>5. r.vault.iv = 0
  <2> DEFINE m == second.vault.conversions
  <2>1. m \in Nat /\ m <= second.vault.conversions
    BY <1>4, VaultFields DEF VaultOK
  <2>2. r.vault = Reporting(second.vault, 0, m)
    BY <1>1 DEF Reporting
  <2> HIDE DEF m
  <2> QED BY <2>1, <2>2, <1>4, SharesOK
<1>6. r.withdrawn \in Nat
  BY WithdrawAllPays DEF PaidOut
<1>7. v.iv \in Nat
  BY VaultFields DEF VaultOK
<1> DEFINE rate == VaultRate(r.withdrawn, v.iv)
<1>8. rate \in Nat
  BY <1>6, <1>7, RateType
<1> HIDE DEF rate
<1>9. 2 * rate * 0 <= v.iv + rate
  BY <1>7, <1>8
<1> QED BY <1>5, <1>9 DEF rate

(* A withdrawal that takes the last tokens of the strategies burns the shares of
   Stanley, but for the roundings of the rate and of the shares burnt, whatever
   Compound paid (withdraw, withdrawAll). *)
THEOREM SharesAlwaysEndWithTokens == Spec => []SharesEndWithTokens
<1>1. BookInv => SharesEndWithTokens
  <2> SUFFICES ASSUME BookInv,
                      NEW r \in {Withdraw(vault, amount) : amount \in MoveAmounts}
                                    \cup {WithdrawAll(vault)},
                      r.ok, r.withdrawn > 0, HeldTotal(r.vault) = 0
               PROVE  2 * VaultRate(r.withdrawn, vault.iv) * r.vault.iv
                         <= vault.iv + VaultRate(r.withdrawn, vault.iv)
    BY Zenon DEF SharesEndWithTokens
  <2>1. VaultOK(vault) /\ MoveAmounts \subseteq Nat
    BY StateNumbers, AmmAssumption
  <2>2. CASE r \in {Withdraw(vault, amount) : amount \in MoveAmounts}
    <3>1. PICK amount \in MoveAmounts : r = Withdraw(vault, amount)
      BY <2>2
    <3>2. amount \in Nat
      BY <2>1
    <3> QED BY <2>1, <3>1, <3>2, WithdrawBurns
  <2>3. CASE r = WithdrawAll(vault)
    BY <2>1, <2>3, WithdrawAllBurns
  <2> QED BY <2>2, <2>3
<1> QED BY InitBooks, <1>1, NextKeepsBookInv, PTL DEF Spec
=============================================================================

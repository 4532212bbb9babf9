------------------------ MODULE PaperExchangeProofs ------------------------
(***************************************************************************)
(* Proofs about PaperExchange for any assets, amounts, prices and number   *)
(* of valuations in flight: no balance is overdrawn, and a trade costs its *)
(* fee.                                                                    *)
(*                                                                         *)
(* A valuation errs by no more than was traded while it ran, because that  *)
(* bounds what it is heading for at each of its steps (TornInv): what it   *)
(* has added up, and what it may still count at the present balances.      *)
(*                                                                         *)
(* It raises fewer times than there are assets because each time the dict  *)
(* has grown, its keys stay, and no two are the same (RaiseInv).           *)
(***************************************************************************)
EXTENDS PaperExchange, SequenceTheorems, SharedLemmas

\* The account, without the valuations that read it.
AccountType ==
    /\ cash \in Int
    /\ coins \in [Assets -> Int]
    /\ keys \in Seq(Assets)
    /\ price \in [Assets -> Prices]

\* What the loop of a valuation relies on: it comes to every balance, once.
KeysCoverCoins ==
    /\ \A i, j \in DOMAIN keys : keys[i] = keys[j] => i = j
    /\ \A a \in Assets : coins[a] # 0 => \E i \in DOMAIN keys : keys[i] = a

AccountInv == AccountType /\ Solvent /\ KeysCoverCoins

LEMMA CostAndFee ==
    ASSUME AccountType, NEW a \in Assets, NEW amount \in Amounts
    PROVE  /\ amount \in Nat \ {0}
           /\ Fee(a, amount) \in Nat
           /\ Cost(a, amount) \in Nat /\ Cost(a, amount) >= Fee(a, amount)
<1>1. PICK p \in Nat : p = price[a]
  BY PaperAssumption DEF AccountType
<1>2. amount \in Nat \ {0}
  BY PaperAssumption
<1>3. \A m, n \in Nat : m * n \in Nat
  OBVIOUS
<1>4. PICK f \in Nat : f = amount * p
  BY <1>2, <1>3
<1>5. 1000 * amount * p = 1000 * f
  BY <1>2, <1>4
<1> QED BY <1>1, <1>2, <1>4, <1>5 DEF Fee, Cost

LEMMA AccountInitial == Init => AccountInv
<1> SUFFICES ASSUME Init PROVE AccountInv
  OBVIOUS
<1>1. AccountType
  BY PaperAssumption DEF Init, AccountType
<1>2. Solvent /\ KeysCoverCoins
  BY PaperAssumption DEF Init, Solvent, KeysCoverCoins
<1> QED BY <1>1, <1>2 DEF AccountInv

LEMMA AccountStep == AccountInv /\ [Next]_vars => AccountInv'
<1> SUFFICES ASSUME AccountInv, [Next]_vars PROVE AccountInv'
  OBVIOUS
<1>0. /\ AccountType /\ Solvent /\ KeysCoverCoins
      /\ cash \in Int /\ coins \in [Assets -> Int]
      /\ keys \in Seq(Assets) /\ price \in [Assets -> Prices]
  BY DEF AccountInv, AccountType
<1>1. ASSUME NEW a \in Assets, NEW amount \in Amounts, Buy(a, amount) PROVE AccountInv'
  <2> PICK cost \in Nat, fee \in Nat : cost = Cost(a, amount) /\ fee = Fee(a, amount)
    BY <1>0, CostAndFee
  <2>1. /\ amount \in Nat \ {0} /\ cash >= cost + fee
        /\ cash' = cash - cost - fee /\ price' = price
        /\ coins' = [coins EXCEPT ![a] = @ + amount]
        /\ keys' = IF \E i \in DOMAIN keys : keys[i] = a THEN keys ELSE Append(keys, a)
    BY <1>0, <1>1, CostAndFee DEF Buy, CanBuy
  <2>2. AccountType'
    <3>1. keys' \in Seq(Assets)
      BY <1>0, <2>1, AppendProperties
    <3>2. cash' \in Int
      BY <1>0, <2>1
    <3>3. PICK k \in Int : k = coins[a] + amount
      BY <1>0, <2>1
    <3>4. coins' \in [Assets -> Int]
      <4>1. coins' = [coins EXCEPT ![a] = k]
        BY <2>1, <3>3
      <4> QED BY <1>0, <4>1
    <3> QED BY <1>0, <2>1, <3>1, <3>2, <3>4 DEF AccountType
  <2>3. Solvent'
    <3>1. cash' >= 0
      BY <1>0, <2>1
    <3>2. \A c \in Assets : coins'[c] >= 0
      BY <1>0, <2>1 DEF Solvent
    <3> QED BY <3>1, <3>2 DEF Solvent
  <2>4. KeysCoverCoins'
    <3>1. CASE \E i \in DOMAIN keys : keys[i] = a
      BY <1>0, <2>1, <3>1 DEF KeysCoverCoins
    <3>2. CASE ~ \E i \in DOMAIN keys : keys[i] = a
      <4>1. /\ keys' = Append(keys, a)
            /\ DOMAIN keys' = 1 .. Len(keys) + 1 /\ DOMAIN keys = 1 .. Len(keys)
            /\ Len(keys) \in Nat
            /\ \A i \in DOMAIN keys : keys'[i] = keys[i]
            /\ keys'[Len(keys) + 1] = a
        <5>1. keys' = Append(keys, a)
          BY <2>1, <3>2
        <5>2. DOMAIN keys = 1 .. Len(keys) /\ Len(keys) \in Nat
          BY <1>0, LenProperties
        <5>3. Append(keys, a) \in Seq(Assets) /\ Len(Append(keys, a)) = Len(keys) + 1
          BY <1>0, AppendProperties
        <5>4. DOMAIN Append(keys, a) = 1 .. Len(keys) + 1
          BY <5>3, LenProperties
        <5> QED BY <1>0, <5>1, <5>2, <5>4, AppendProperties
      <4>2. \A i, j \in DOMAIN keys' : keys'[i] = keys'[j] => i = j
        BY <1>0, <3>2, <4>1 DEF KeysCoverCoins
      <4>3. ASSUME NEW c \in Assets, coins'[c] # 0 PROVE \E i \in DOMAIN keys' : keys'[i] = c
        <5>1. CASE c = a
          BY <4>1, <5>1
        <5>2. CASE c # a
          <6>1. coins[c] # 0
            BY <1>0, <2>1, <4>3, <5>2
          <6>2. PICK i \in DOMAIN keys : keys[i] = c
            BY <1>0, <6>1 DEF KeysCoverCoins
          <6> QED BY <4>1, <6>2
        <5> QED BY <5>1, <5>2
      <4> QED BY <4>2, <4>3 DEF KeysCoverCoins
    <3> QED BY <3>1, <3>2
  <2> QED BY <2>2, <2>3, <2>4 DEF AccountInv
<1>2. ASSUME NEW a \in Assets, NEW amount \in Amounts, Sell(a, amount) PROVE AccountInv'
  <2> PICK cost \in Nat, fee \in Nat :
        cost = Cost(a, amount) /\ fee = Fee(a, amount) /\ cost >= fee
    BY <1>0, CostAndFee
  <2>1. /\ amount \in Nat \ {0} /\ coins[a] >= amount
        /\ cash' = cash + cost - fee /\ price' = price /\ keys' = keys
        /\ coins' = [coins EXCEPT ![a] = @ - amount]
    BY <1>0, <1>2, CostAndFee DEF Sell, CanSell
  <2>2. AccountType'
    BY <1>0, <2>1 DEF AccountType
  <2>3. Solvent'
    BY <1>0, <2>1 DEF Solvent
  <2>4. KeysCoverCoins'
    BY <1>0, <2>1 DEF KeysCoverCoins
  <2> QED BY <2>2, <2>3, <2>4 DEF AccountInv
<1>3. CASE MarketMoves
  BY <1>0, <1>3 DEF MarketMoves, AccountInv, AccountType, Solvent, KeysCoverCoins
<1>4. CASE UNCHANGED <<cash, coins, keys, price>>
  BY <1>0, <1>4 DEF AccountInv, AccountType, Solvent, KeysCoverCoins
<1> QED BY <1>1, <1>2, <1>3, <1>4
        DEF Next, OrderStep, StartValue, Priced, Skipped, ValueRaises, Returned, vars

LEMMA AccountInvariance == Spec => []AccountInv
  BY AccountInitial, AccountStep, PTL DEF Spec

(***************************************************************************)
(* No interleaving of orders overdraws a balance.                          *)
(***************************************************************************)
THEOREM NeverOverdrawn == Spec => []Solvent
  BY AccountInvariance, PTL DEF AccountInv

----------------------------------------------------------------------------
(***************************************************************************)
(* What assets are worth.  RestOf adds up those in U only: all of them for *)
(* the account, those a valuation has not come to yet for the rest of its  *)
(* loop.                                                                   *)
(***************************************************************************)
RestOf(U, h, p) ==
    1000 * SumFunctionOnSet([a \in Assets |-> IF a \in U THEN h[a] * p[a] ELSE 0], Assets)

LEMMA TermInt ==
    ASSUME NEW h \in [Assets -> Int], NEW p \in [Assets -> Prices], NEW a \in Assets
    PROVE  h[a] * p[a] \in Int /\ (h[a] = 0 => h[a] * p[a] = 0)
<1>0. h[a] \in Int /\ p[a] \in Prices
  OBVIOUS
<1> PICK m \in Int : m = h[a]
  BY <1>0
<1> PICK n \in Nat : n = p[a]
  BY <1>0, PaperAssumption
<1>1. m * n \in Int /\ 0 * n = 0
  OBVIOUS
<1> QED BY <1>1

LEMMA WorthIsRest ==
    ASSUME NEW c, NEW h, NEW p
    PROVE  WorthOf(c, h, p) = RestOf(Assets, h, p) + c
<1>1. [a \in Assets |-> h[a] * p[a]] = [a \in Assets |-> IF a \in Assets THEN h[a] * p[a] ELSE 0]
  OBVIOUS
<1> QED BY <1>1 DEF WorthOf, RestOf, SumFunction

LEMMA RestInt ==
    ASSUME NEW U, NEW h \in [Assets -> Int], NEW p \in [Assets -> Prices]
    PROVE  RestOf(U, h, p) \in Int
<1> DEFINE f == [a \in Assets |-> IF a \in U THEN h[a] * p[a] ELSE 0]
<1>1. \A a \in Assets : f[a] \in Int
  BY TermInt
<1> HIDE DEF f
<1>2. SumFunctionOnSet(f, Assets) \in Int
  BY <1>1, PaperAssumption, SumInt
<1> QED BY <1>2 DEF RestOf, f

\* A trade moves what its asset adds, if that is counted.
LEMMA RestAfterTrade ==
    ASSUME NEW U, NEW h \in [Assets -> Int], NEW k \in [Assets -> Int], NEW p \in [Assets -> Prices],
           NEW a \in Assets, NEW n \in Int,
           k[a] = h[a] + n, \A x \in Assets : x # a => k[x] = h[x]
    PROVE  RestOf(U, k, p) = RestOf(U, h, p) + (IF a \in U THEN 1000 * (n * p[a]) ELSE 0)
<1> DEFINE f == [x \in Assets |-> IF x \in U THEN h[x] * p[x] ELSE 0]
           g == [x \in Assets |-> IF x \in U THEN k[x] * p[x] ELSE 0]
<1>1. (h[a] + n) * p[a] = h[a] * p[a] + n * p[a] /\ h[a] * p[a] \in Int /\ n * p[a] \in Int
  <2>0. h[a] \in Int /\ p[a] \in Prices
    OBVIOUS
  <2> PICK m \in Int : m = h[a]
    BY <2>0
  <2> PICK q \in Nat : q = p[a]
    BY <2>0, PaperAssumption
  <2>1. (m + n) * q = m * q + n * q /\ m * q \in Int /\ n * q \in Int
    OBVIOUS
  <2> QED BY <2>1
<1>2. g[a] - f[a] = IF a \in U THEN n * p[a] ELSE 0
  BY <1>1
<1>3. \A x \in Assets : f[x] \in Int /\ g[x] \in Int /\ (x # a => g[x] = f[x])
  <2>1. \A x \in Assets : h[x] * p[x] \in Int /\ k[x] * p[x] \in Int
    BY TermInt
  <2> QED BY <2>1
<1> HIDE DEF f, g
<1>4. SumFunctionOnSet(g, Assets) = SumFunctionOnSet(f, Assets) + g[a] - f[a]
  BY <1>3, PaperAssumption, SumMoves
<1>5. SumFunctionOnSet(f, Assets) \in Int
  BY <1>3, PaperAssumption, SumInt
<1>6. SumFunctionOnSet(g, Assets) = SumFunctionOnSet(f, Assets) + (g[a] - f[a])
  BY <1>3, <1>4, <1>5
<1>7. RestOf(U, k, p) = 1000 * SumFunctionOnSet(g, Assets)
      /\ RestOf(U, h, p) = 1000 * SumFunctionOnSet(f, Assets)
  BY DEF RestOf, f, g
<1> QED BY <1>1, <1>2, <1>5, <1>6, <1>7

\* The loop goes on to an asset: what it passes over is empty.
LEMMA RestWithout ==
    ASSUME NEW U, NEW V \in SUBSET U, NEW h \in [Assets -> Int], NEW p \in [Assets -> Prices],
           NEW a \in Assets, a \in U, a \notin V,
           \A x \in Assets : x \in U /\ x \notin V /\ x # a => h[x] = 0
    PROVE  RestOf(U, h, p) = RestOf(V, h, p) + 1000 * (h[a] * p[a])
<1> DEFINE f == [x \in Assets |-> IF x \in U THEN h[x] * p[x] ELSE 0]
           g == [x \in Assets |-> IF x \in V THEN h[x] * p[x] ELSE 0]
<1>1. \A x \in Assets : f[x] \in Int /\ g[x] \in Int
  BY TermInt
<1>2. \A x \in Assets : x # a => f[x] = g[x]
  BY TermInt
<1>3. f[a] = h[a] * p[a] /\ g[a] = 0
  OBVIOUS
<1> HIDE DEF f, g
<1>4. SumFunctionOnSet(f, Assets) = SumFunctionOnSet(g, Assets) + f[a] - g[a]
  BY <1>1, <1>2, PaperAssumption, SumMoves
<1>5. SumFunctionOnSet(g, Assets) \in Int
  BY <1>1, PaperAssumption, SumInt
<1>6. SumFunctionOnSet(f, Assets) = SumFunctionOnSet(g, Assets) + f[a]
  BY <1>1, <1>3, <1>4, <1>5
<1> QED BY <1>1, <1>3, <1>5, <1>6 DEF RestOf, f, g

LEMMA RestEmpty ==
    ASSUME NEW U, NEW h \in [Assets -> Int], NEW p \in [Assets -> Prices],
           \A x \in Assets : x \in U => h[x] = 0
    PROVE  RestOf(U, h, p) = 0
<1> DEFINE f == [x \in Assets |-> IF x \in U THEN h[x] * p[x] ELSE 0]
<1>1. \A x \in Assets : f[x] = 0
  BY TermInt
<1> HIDE DEF f
<1>2. SumFunctionOnSet(f, Assets) = 0
  BY <1>1, PaperAssumption, SumZero
<1> QED BY <1>2 DEF RestOf, f

LEMMA WorthInt ==
    ASSUME NEW c \in Int, NEW h \in [Assets -> Int], NEW p \in [Assets -> Prices]
    PROVE  WorthOf(c, h, p) \in Int
<1>1. RestOf(Assets, h, p) \in Int
  BY RestInt
<1> QED BY <1>1, WorthIsRest

----------------------------------------------------------------------------
(***************************************************************************)
(* Types, with the valuations in flight.                                   *)
(***************************************************************************)
LEMMA MinOf ==
    ASSUME NEW S \in SUBSET Nat, S # {}
    PROVE  Min(S) \in S /\ \A y \in S : Min(S) <= y
<1> DEFINE R == OpToRel(<, Nat)
<1>1. IsWellFoundedOn(R, Nat)
  BY NatLessThanWellFounded
<1>2. PICK x \in S : \A y \in S : ~(<<y, x>> \in R)
  <2> HIDE DEF R
  <2> QED BY <1>1, WFMin
<1>3. \A y \in S : ~(y < x)
  BY <1>2 DEF OpToRel
<1>4. \A y \in S : x <= y
  BY <1>3
<1> QED BY <1>4 DEF Min

\* What Witnessed makes of a valuation.
Marked(old, r, c, m) ==
    /\ r.pc = old.pc /\ r.at = old.at /\ r.total = old.total /\ r.size = old.size
    /\ r.amount = old.amount /\ r.whole = old.whole
    /\ old.pc # "asking" => r = old
    /\ old.pc = "asking" =>
          /\ r.traded = old.traded + c
          /\ r.steady => old.steady /\ ~m
          /\ r.lo <= old.lo /\ r.hi >= old.hi

LEMMA WitnessedIs ==
    ASSUME val \in [Valuations -> Valuation], NEW w \in Int, NEW c \in Nat, NEW m \in BOOLEAN
    PROVE  /\ Witnessed(w, c, m) \in [Valuations -> Valuation]
           /\ \A v \in Valuations : Marked(val[v], Witnessed(w, c, m)[v], c, m)
<1>1. ASSUME NEW v \in Valuations
      PROVE  Witnessed(w, c, m)[v] \in Valuation /\ Marked(val[v], Witnessed(w, c, m)[v], c, m)
  <2> PICK old \in Valuation : old = val[v]
    OBVIOUS
  <2> PICK lo \in Int, hi \in Int :
        /\ lo = (IF w < old.lo THEN w ELSE old.lo) /\ lo <= old.lo
        /\ hi = (IF w > old.hi THEN w ELSE old.hi) /\ hi >= old.hi
    BY DEF Valuation
  <2> PICK steady \in BOOLEAN : steady = (old.steady /\ ~m) /\ (steady => old.steady /\ ~m)
    OBVIOUS
  <2>1. Witnessed(w, c, m)[v] =
          IF old.pc = "asking"
          THEN [old EXCEPT !.lo = lo, !.hi = hi, !.traded = @ + c, !.steady = steady]
          ELSE old
    BY DEF Witnessed
  <2>2. CASE old.pc # "asking"
    BY <2>1, <2>2 DEF Marked
  <2>3. CASE old.pc = "asking"
    <3> PICK new : new = Witnessed(w, c, m)[v]
      OBVIOUS
    <3>1. new = [old EXCEPT !.lo = lo, !.hi = hi, !.traded = @ + c, !.steady = steady]
      BY <2>1, <2>3
    <3>2. new = [pc |-> old.pc, at |-> old.at, amount |-> old.amount, total |-> old.total,
                 size |-> old.size, lo |-> lo, hi |-> hi, traded |-> old.traded + c,
                 steady |-> steady, whole |-> old.whole]
      BY <3>1 DEF Valuation
    <3>3. /\ new \in Valuation
          /\ new.pc = old.pc /\ new.at = old.at /\ new.total = old.total /\ new.size = old.size
          /\ new.amount = old.amount /\ new.whole = old.whole
          /\ new.lo = lo /\ new.hi = hi /\ new.traded = old.traded + c
          /\ new.steady = steady
      BY <3>2 DEF Valuation
    <3> QED BY <2>3, <3>3 DEF Marked
  <2> QED BY <2>2, <2>3
<1>2. Witnessed(w, c, m) = [v \in Valuations |-> Witnessed(w, c, m)[v]]
  BY DEF Witnessed
<1> QED BY <1>1, <1>2

----------------------------------------------------------------------------
(***************************************************************************)
(* A valuation.  Once it has asked for the price of keys[at] it may still  *)
(* count that asset and those it has not come to: Uncounted.  What it is   *)
(* heading for is Expected, were nothing traded any more.                  *)
(***************************************************************************)
Uncounted(ks, i) == {a \in Assets : \A j \in 1 .. i : ks[j] # a}

Expected(r, ks, h, p) ==
    IF r.pc = "asking"
    THEN r.total + 1000 * r.amount * p[ks[r.at]] + RestOf(Uncounted(ks, r.at), h, p)
    ELSE r.total

Within(r, ks, h, p) ==
    /\ r.pc = "asking" => r.at \in DOMAIN ks /\ r.amount >= 0
    /\ r.pc # "idle" /\ r.steady =>
          /\ Expected(r, ks, h, p) <= r.hi + r.traded
          /\ r.whole => Expected(r, ks, h, p) >= r.lo - r.traded

TornInv ==
    /\ AccountInv
    /\ fees \in Nat
    /\ val \in [Valuations -> Valuation]
    /\ \A v \in Valuations : Within(val[v], keys, coins, price)

LEMMA KeysAre ==
    ASSUME AccountType
    PROVE  /\ coins \in [Assets -> Int] /\ price \in [Assets -> Prices]
           /\ Len(keys) \in Nat /\ DOMAIN keys = 1 .. Len(keys)
           /\ \A j \in DOMAIN keys : keys[j] \in Assets
<1>1. keys \in Seq(Assets)
  BY DEF AccountType
<1>2. Len(keys) \in Nat /\ DOMAIN keys = 1 .. Len(keys)
  BY <1>1
<1>3. \A j \in DOMAIN keys : keys[j] \in Assets
  BY <1>1, <1>2, ElementOfSeq
<1> QED BY <1>2, <1>3 DEF AccountType

\* Where balances are still to be counted behind position i.
Further(i) == {j \in i + 1 .. Len(keys) : coins[keys[j]] # 0}

\* Where the loop goes on to, and that it misses nothing on the way.
LEMMA LoopGoesOn ==
    ASSUME AccountType, KeysCoverCoins, NEW i \in 0 .. Len(keys)
    PROVE  /\ Further(i) = {} => RestOf(Uncounted(keys, i), coins, price) = 0
           /\ Further(i) # {} =>
                /\ Min(Further(i)) \in DOMAIN keys
                /\ RestOf(Uncounted(keys, i), coins, price)
                     = 1000 * (coins[keys[Min(Further(i))]] * price[keys[Min(Further(i))]])
                       + RestOf(Uncounted(keys, Min(Further(i))), coins, price)
<1>0. /\ coins \in [Assets -> Int] /\ price \in [Assets -> Prices]
      /\ Len(keys) \in Nat /\ DOMAIN keys = 1 .. Len(keys)
      /\ \A j \in DOMAIN keys : keys[j] \in Assets
  BY KeysAre
<1>1. ASSUME NEW x \in Uncounted(keys, i), coins[x] # 0
      PROVE  \E j \in Further(i) : keys[j] = x
  <2>1. x \in Assets /\ \A j \in 1 .. i : keys[j] # x
    BY <1>1 DEF Uncounted
  <2>2. PICK j \in 1 .. Len(keys) : keys[j] = x
    BY <1>0, <1>1, <2>1 DEF KeysCoverCoins
  <2>3. j \in i + 1 .. Len(keys)
    BY <1>0, <2>1, <2>2
  <2>4. coins[keys[j]] # 0
    BY <1>1, <2>2
  <2> QED BY <2>2, <2>3, <2>4 DEF Further
<1>2. CASE Further(i) = {}
  <2>1. \A x \in Assets : x \in Uncounted(keys, i) => coins[x] = 0
    BY <1>1, <1>2
  <2>2. RestOf(Uncounted(keys, i), coins, price) = 0
    BY <1>0, <2>1, RestEmpty
  <2> QED BY <1>2, <2>2
<1>3. CASE Further(i) # {}
  <2> PICK m : m = Min(Further(i))
    OBVIOUS
  <2>1. Further(i) \in SUBSET Nat /\ Further(i) \subseteq i + 1 .. Len(keys)
    BY <1>0 DEF Further
  <2>2. m \in Further(i) /\ \A j \in Further(i) : m <= j
    BY <1>3, <2>1, MinOf
  <2>3. m \in i + 1 .. Len(keys) /\ m \in DOMAIN keys /\ m \in Nat
    BY <1>0, <2>1, <2>2
  <2> PICK a \in Assets : a = keys[m]
    BY <1>0, <2>3
  <2>4. a \in Uncounted(keys, i)
    <3>1. \A j \in 1 .. i : j \in DOMAIN keys /\ j # m
      BY <1>0, <2>3
    <3>2. \A j \in 1 .. i : keys[j] # a
      BY <2>3, <3>1 DEF KeysCoverCoins
    <3> QED BY <3>2 DEF Uncounted
  <2>5. a \notin Uncounted(keys, m)
    BY <2>3 DEF Uncounted
  <2>6. Uncounted(keys, m) \in SUBSET Uncounted(keys, i)
    BY <1>0, <2>3 DEF Uncounted
  <2>7. ASSUME NEW x \in Uncounted(keys, i), x \notin Uncounted(keys, m), x # a
        PROVE  coins[x] = 0
    <3> SUFFICES ASSUME coins[x] # 0 PROVE FALSE
      OBVIOUS
    <3>1. PICK j \in Further(i) : keys[j] = x
      BY <1>1
    <3>2. j \in DOMAIN keys /\ j \in Nat
      BY <1>0, <2>1
    <3>3. PICK k \in 1 .. m : keys[k] = x
      BY <2>7 DEF Uncounted
    <3>4. k \in DOMAIN keys
      BY <1>0, <2>3
    <3>5. k = j
      BY <3>1, <3>2, <3>3, <3>4 DEF KeysCoverCoins
    <3>6. m <= j /\ j <= m
      BY <2>2, <2>3, <3>2, <3>3, <3>5
    <3> QED BY <2>3, <2>7, <3>1, <3>2, <3>6
  <2>8. \A x \in Assets : x \in Uncounted(keys, i) /\ x \notin Uncounted(keys, m) /\ x # a => coins[x] = 0
    BY <2>7
  <2>9. RestOf(Uncounted(keys, i), coins, price)
          = RestOf(Uncounted(keys, m), coins, price) + 1000 * (coins[a] * price[a])
    BY <1>0, <2>4, <2>5, <2>6, <2>8, RestWithout
  <2>10. RestOf(Uncounted(keys, m), coins, price) \in Int
    BY <1>0, RestInt
  <2>11. coins[a] * price[a] \in Int
    BY <1>0, TermInt
  <2>12. RestOf(Uncounted(keys, i), coins, price)
           = 1000 * (coins[a] * price[a]) + RestOf(Uncounted(keys, m), coins, price)
    BY <2>9, <2>10, <2>11
  <2> QED BY <1>3, <2>3, <2>12
<1> QED BY <1>2, <1>3

LEMMA Thousands ==
    ASSUME NEW n \in Int, NEW q \in Int
    PROVE  n * q \in Int /\ 1000 * n * q = 1000 * (n * q)
OBVIOUS

\* c goes on where r was, and is heading for e.
Onward(r, c, e) ==
    /\ c \in Valuation
    /\ c.pc \in {"asking", "done"}
    /\ c.pc = "asking" => c.at \in DOMAIN keys /\ c.amount >= 0
    /\ c.lo = r.lo /\ c.hi = r.hi /\ c.traded = r.traded
    /\ c.steady = r.steady /\ c.whole = r.whole
    /\ Expected(c, keys, coins, price) = e

\* Going on with the loop loses nothing of what is expected.
LEMMA ContinuedIs ==
    ASSUME AccountType, Solvent, KeysCoverCoins, NEW r \in Valuation, NEW i \in 0 .. Len(keys),
           NEW total \in Int
    PROVE  Onward(r, Continued(r, i, total),
                  total + RestOf(Uncounted(keys, i), coins, price))
<1> DEFINE c == Continued(r, i, total)
<1> SUFFICES Onward(r, c, total + RestOf(Uncounted(keys, i), coins, price))
  OBVIOUS
<1>0. /\ coins \in [Assets -> Int] /\ price \in [Assets -> Prices]
      /\ Len(keys) \in Nat /\ DOMAIN keys = 1 .. Len(keys)
      /\ \A j \in DOMAIN keys : keys[j] \in Assets
  BY KeysAre
<1>1. CASE Further(i) = {}
  <2>1. RestOf(Uncounted(keys, i), coins, price) = 0
    BY <1>1, LoopGoesOn
  <2>2. c = [r EXCEPT !.pc = "done", !.at = 0, !.amount = 0, !.total = total]
    BY <1>1 DEF Continued, Further
  <2> HIDE DEF c
  <2>3. c = [pc |-> "done", at |-> 0, amount |-> 0, total |-> total,
             size |-> r.size, lo |-> r.lo, hi |-> r.hi, traded |-> r.traded,
             steady |-> r.steady, whole |-> r.whole]
    BY <2>2 DEF Valuation
  <2> QED BY <2>1, <2>3 DEF Expected, Valuation, Onward
<1>2. CASE Further(i) # {}
  <2>1. PICK m \in DOMAIN keys :
        /\ m = Min(Further(i))
        /\ RestOf(Uncounted(keys, i), coins, price)
             = 1000 * (coins[keys[m]] * price[keys[m]]) + RestOf(Uncounted(keys, m), coins, price)
    BY <1>2, LoopGoesOn
  <2>2. keys[m] \in Assets /\ m \in Nat
    BY <1>0
  <2>3. PICK n \in Int : n = coins[keys[m]] /\ n >= 0
    BY <1>0, <2>2 DEF Solvent
  <2>4. c = [r EXCEPT !.pc = "asking", !.at = m, !.amount = n, !.total = total]
    BY <1>2, <2>1, <2>3 DEF Continued, Further
  <2> HIDE DEF c
  <2>5. /\ c \in Valuation /\ c.pc = "asking" /\ c.at = m
        /\ c.amount = n /\ c.amount >= 0 /\ c.total = total
        /\ c.lo = r.lo /\ c.hi = r.hi /\ c.traded = r.traded
        /\ c.steady = r.steady /\ c.whole = r.whole
    <3>1. c = [pc |-> "asking", at |-> m, amount |-> n, total |-> total,
               size |-> r.size, lo |-> r.lo, hi |-> r.hi, traded |-> r.traded,
               steady |-> r.steady, whole |-> r.whole]
      BY <2>4 DEF Valuation
    <3> QED BY <2>2, <2>3, <3>1 DEF Valuation
  <2>6. Expected(c, keys, coins, price)
          = total + 1000 * n * price[keys[m]] + RestOf(Uncounted(keys, m), coins, price)
    BY <2>5 DEF Expected
  <2>7. price[keys[m]] \in Prices
    BY <1>0, <2>2
  <2>8. PICK q \in Nat : q = price[keys[m]]
    BY <2>7, PaperAssumption
  <2>9. n * q \in Int /\ 1000 * n * q = 1000 * (n * q)
    BY Thousands
  <2>10. RestOf(Uncounted(keys, m), coins, price) \in Int
    BY <1>0, RestInt
  <2>11. Expected(c, keys, coins, price) = total + RestOf(Uncounted(keys, i), coins, price)
    BY <2>1, <2>3, <2>6, <2>8, <2>9, <2>10
  <2> QED BY <2>5, <2>11 DEF Onward
<1> QED BY <1>1, <1>2

----------------------------------------------------------------------------
LEMMA NoValuationIs == NoValuation \in Valuation /\ Within(NoValuation, keys, coins, price)
  BY DEF NoValuation, Valuation, Within

LEMMA TornInitial == Init => TornInv
<1> SUFFICES ASSUME Init PROVE TornInv
  OBVIOUS
<1>1. AccountInv
  BY AccountInitial
<1>2. fees \in Nat /\ val = [v \in Valuations |-> NoValuation]
  BY DEF Init
<1> QED BY <1>1, <1>2, NoValuationIs DEF TornInv

\* What a valuation expects is a number.
LEMMA ExpectedInt ==
    ASSUME AccountType, NEW r \in Valuation, r.pc = "asking", r.at \in DOMAIN keys
    PROVE  /\ 1000 * r.amount * price[keys[r.at]] \in Int
           /\ r.amount >= 0 => 1000 * r.amount * price[keys[r.at]] >= 0
           /\ RestOf(Uncounted(keys, r.at), coins, price) \in Int
<1>1. /\ coins \in [Assets -> Int] /\ price \in [Assets -> Prices]
      /\ keys[r.at] \in Assets
  BY KeysAre
<1>2. PICK n \in Int : n = r.amount
  BY DEF Valuation
<1>3. price[keys[r.at]] \in Prices
  BY <1>1
<1>4. PICK q \in Nat : q = price[keys[r.at]]
  BY <1>3, PaperAssumption
<1>5. 1000 * n * q \in Int /\ (n >= 0 => 1000 * n * q >= 0)
  <2>1. n * q \in Int /\ 1000 * n * q = 1000 * (n * q) /\ (n >= 0 => n * q >= 0)
    BY Thousands
  <2> QED BY <2>1
<1>6. RestOf(Uncounted(keys, r.at), coins, price) \in Int
  BY <1>1, RestInt
<1> QED BY <1>2, <1>4, <1>5, <1>6

\* A step of a valuation.
LEMMA OneValuation ==
    ASSUME TornInv, UNCHANGED <<cash, coins, keys, price, fees>>,
           NEW v \in Valuations, NEW c \in Valuation, Within(c, keys, coins, price), val' = [val EXCEPT ![v] = c]
    PROVE  TornInv'
<1>1. AccountInv' /\ fees' \in Nat
  BY DEF TornInv, AccountInv, AccountType, Solvent, KeysCoverCoins
<1>2. val' \in [Valuations -> Valuation]
  BY DEF TornInv
<1>3. ASSUME NEW w \in Valuations PROVE Within(val'[w], keys', coins', price')
  BY DEF TornInv
<1> QED BY <1>1, <1>2, <1>3 DEF TornInv

\* An order moves what a valuation expects by no more than its cost.
LEMMA OrderTears ==
    ASSUME TornInv, AccountInv', fees' \in Nat, price' = price,
           \A j \in DOMAIN keys : j \in DOMAIN keys' /\ keys'[j] = keys[j],
           NEW cost \in Nat, NEW w \in Int,
           \A U : /\ RestOf(U, coins', price) \in Int
                  /\ RestOf(U, coins', price) <= RestOf(U, coins, price) + cost
                  /\ RestOf(U, coins', price) >= RestOf(U, coins, price) - cost,
           val' = Witnessed(w, cost, FALSE)
    PROVE  TornInv'
<1>0. /\ AccountType /\ val \in [Valuations -> Valuation]
      /\ Len(keys) \in Nat /\ DOMAIN keys = 1 .. Len(keys)
  BY KeysAre DEF TornInv, AccountInv, AccountType
<1>1. val' \in [Valuations -> Valuation]
  BY <1>0, WitnessedIs
<1>2. ASSUME NEW v \in Valuations PROVE Within(val'[v], keys', coins', price')
  <2>0. PICK r \in Valuation, new \in Valuation : r = val[v] /\ new = val'[v]
    BY <1>0, <1>1
  <2>1. Marked(r, new, cost, FALSE)
    BY <1>0, <2>0, WitnessedIs
  <2>2. Within(r, keys, coins, price)
    BY <2>0 DEF TornInv
  <2> SUFFICES Within(new, keys', coins', price')
    BY <2>0
  <2>3. CASE r.pc # "asking"
    <3>1. Expected(r, keys, coins, price) = r.total
      BY <2>3 DEF Expected
    <3>2. Expected(new, keys', coins', price') = r.total
      BY <2>1, <2>3 DEF Expected, Marked
    <3> QED BY <2>1, <2>2, <2>3, <3>1, <3>2 DEF Within, Marked
  <2>4. CASE r.pc = "asking"
    <3>1. r.at \in DOMAIN keys /\ r.amount >= 0
      BY <2>2, <2>4 DEF Within
    <3>2. Uncounted(keys', r.at) = Uncounted(keys, r.at)
      <4>1. \A j \in 1 .. r.at : keys'[j] = keys[j]
        BY <1>0, <3>1
      <4> QED BY <4>1 DEF Uncounted
    <3>3. PICK base \in Int, rest \in Int :
            base = 1000 * r.amount * price[keys[r.at]]
            /\ rest = RestOf(Uncounted(keys, r.at), coins, price)
      BY <1>0, <2>4, <3>1, ExpectedInt
    <3>4. PICK e \in Int : /\ e = RestOf(Uncounted(keys, r.at), coins', price)
                           /\ e <= rest + cost /\ e >= rest - cost
      BY <3>3
    <3>5. Expected(r, keys, coins, price) = r.total + base + rest
      BY <2>4, <3>3 DEF Expected
    <3>6. Expected(new, keys', coins', price') = r.total + base + e
      <4>1. new.pc = "asking" /\ new.at = r.at /\ new.total = r.total /\ new.amount = r.amount
        BY <2>1, <2>4 DEF Marked
      <4>2. price'[keys'[r.at]] = price[keys[r.at]]
        BY <3>1
      <4>3. Expected(new, keys', coins', price')
              = r.total + 1000 * r.amount * price[keys[r.at]]
                + RestOf(Uncounted(keys, r.at), coins', price')
        BY <3>2, <4>1, <4>2 DEF Expected
      <4> QED BY <3>3, <3>4, <4>3
    <3>7. /\ r.total \in Int /\ r.traded \in Nat /\ r.hi \in Int /\ r.lo \in Int
          /\ new.hi \in Int /\ new.lo \in Int
      BY DEF Valuation
    <3>8. new.steady =>
             /\ r.total + base + e <= new.hi + new.traded
             /\ new.whole => r.total + base + e >= new.lo - new.traded
      <4> HAVE new.steady
      <4>1. /\ r.total + base + rest <= r.hi + r.traded
            /\ r.whole => r.total + base + rest >= r.lo - r.traded
        BY <2>1, <2>2, <2>4, <3>5 DEF Within, Marked
      <4> QED BY <2>1, <2>4, <3>4, <3>7, <4>1 DEF Marked
    <3> QED BY <2>1, <2>4, <3>1, <3>6, <3>8 DEF Within, Marked
  <2> QED BY <2>3, <2>4
<1> QED BY <1>1, <1>2 DEF TornInv

LEMMA Turnover ==
    ASSUME AccountType, NEW a \in Assets, NEW amount \in Amounts
    PROVE  /\ 1000 * (amount * price[a]) = Cost(a, amount)
           /\ 1000 * ((-amount) * price[a]) = -Cost(a, amount)
<1>1. PICK q \in Nat : q = price[a]
  BY PaperAssumption DEF AccountType
<1>2. PICK n \in Nat : n = amount
  BY PaperAssumption
<1>3. 1000 * n * q = 1000 * (n * q) /\ 1000 * ((-n) * q) = -(1000 * (n * q))
  OBVIOUS
<1> QED BY <1>1, <1>2, <1>3 DEF Cost

\* A fill: n coins more or fewer, for their turnover t and a fee.
Fill(a, amount, n, t) ==
    /\ t = 1000 * (n * price[a])
    /\ t = Cost(a, amount) \/ t = -Cost(a, amount)
    /\ coins'[a] = coins[a] + n /\ \A x \in Assets : x # a => coins'[x] = coins[x]
    /\ cash' = cash - t - Fee(a, amount)
    /\ fees' = fees + Fee(a, amount)
    /\ price' = price
    /\ \A j \in DOMAIN keys : j \in DOMAIN keys' /\ keys'[j] = keys[j]
    /\ val' = Witnessed(WorthOf(cash', coins', price'), Cost(a, amount), FALSE)

LEMMA OrdersFill ==
    ASSUME AccountType, NEW a \in Assets, NEW amount \in Amounts,
           Buy(a, amount) \/ Sell(a, amount)
    PROVE  \E n \in Int, t \in Int : Fill(a, amount, n, t)
<1>0. PICK cost \in Nat, fee \in Nat : cost = Cost(a, amount) /\ fee = Fee(a, amount)
  BY CostAndFee
<1>1. amount \in Nat /\ cash \in Int /\ coins \in [Assets -> Int]
      /\ Len(keys) \in Nat /\ keys \in Seq(Assets)
  BY CostAndFee, KeysAre DEF AccountType
<1>2. CASE Buy(a, amount)
  <2>1. /\ cash' = cash - cost - fee
        /\ coins' = [coins EXCEPT ![a] = @ + amount]
        /\ keys' = keys \/ keys' = Append(keys, a)
        /\ fees' = fees + Fee(a, amount) /\ price' = price
        /\ val' = Witnessed(WorthOf(cash', coins', price'), Cost(a, amount), FALSE)
    BY <1>0, <1>2 DEF Buy
  <2>2. \A j \in DOMAIN keys : j \in DOMAIN keys' /\ keys'[j] = keys[j]
    <3>1. \A j \in DOMAIN keys :
            j \in DOMAIN Append(keys, a) /\ Append(keys, a)[j] = keys[j]
      BY <1>1, AppendProperties
    <3> QED BY <2>1, <3>1
  <2>3. coins'[a] = coins[a] + amount /\ \A x \in Assets : x # a => coins'[x] = coins[x]
    BY <1>1, <2>1
  <2>4. Fill(a, amount, amount, cost)
    BY <1>0, <2>1, <2>2, <2>3, Turnover DEF Fill
  <2> QED BY <1>1, <2>4
<1>3. CASE Sell(a, amount)
  <2>1. /\ cash' = cash + cost - fee
        /\ coins' = [coins EXCEPT ![a] = @ - amount]
        /\ keys' = keys
        /\ fees' = fees + Fee(a, amount) /\ price' = price
        /\ val' = Witnessed(WorthOf(cash', coins', price'), Cost(a, amount), FALSE)
    BY <1>0, <1>3 DEF Sell
  <2>2. coins'[a] = coins[a] + (-amount) /\ \A x \in Assets : x # a => coins'[x] = coins[x]
    BY <1>1, <2>1
  <2>3. cash' = cash - (-cost) - fee
    BY <1>1, <2>1
  <2>4. Fill(a, amount, -amount, -cost)
    BY <1>0, <2>1, <2>2, <2>3, Turnover DEF Fill
  <2> QED BY <1>1, <2>4
<1> QED BY <1>2, <1>3

LEMMA FillTears ==
    ASSUME TornInv, AccountInv', NEW a \in Assets, NEW amount \in Amounts,
           Buy(a, amount) \/ Sell(a, amount)
    PROVE  TornInv' /\ Worth' = Worth - (fees' - fees)
<1>0. /\ AccountType /\ fees \in Nat /\ cash \in Int
      /\ coins \in [Assets -> Int] /\ price \in [Assets -> Prices]
      /\ coins' \in [Assets -> Int] /\ cash' \in Int
  BY DEF TornInv, AccountInv, AccountType
<1>1. PICK n \in Int, t \in Int : Fill(a, amount, n, t)
  BY <1>0, OrdersFill
<1>2. PICK cost \in Nat, fee \in Nat : cost = Cost(a, amount) /\ fee = Fee(a, amount)
  BY <1>0, CostAndFee
<1>3. t = 1000 * (n * price[a]) /\ t <= cost /\ t >= -cost
  BY <1>1, <1>2 DEF Fill
<1>4. PICK h \in [Assets -> Int], k \in [Assets -> Int], p \in [Assets -> Prices], c \in Int :
        /\ h = coins /\ k = coins' /\ p = price /\ c = cash
        /\ k[a] = h[a] + n /\ \A x \in Assets : x # a => k[x] = h[x]
  <2>1. coins'[a] = coins[a] + n /\ \A x \in Assets : x # a => coins'[x] = coins[x]
    BY <1>1 DEF Fill
  <2> QED BY <1>0, <2>1
<1>5. ASSUME NEW U
      PROVE  /\ RestOf(U, coins', price) \in Int
             /\ RestOf(U, coins', price) <= RestOf(U, coins, price) + cost
             /\ RestOf(U, coins', price) >= RestOf(U, coins, price) - cost
  <2>1. RestOf(U, k, p) = RestOf(U, h, p) + (IF a \in U THEN 1000 * (n * p[a]) ELSE 0)
    BY <1>1, <1>4, RestAfterTrade
  <2>2. RestOf(U, h, p) \in Int
    BY <1>4, RestInt
  <2>3. RestOf(U, k, p) = RestOf(U, h, p) + (IF a \in U THEN t ELSE 0)
    BY <1>3, <1>4, <2>1
  <2>4. /\ RestOf(U, k, p) \in Int
        /\ RestOf(U, k, p) <= RestOf(U, h, p) + cost
        /\ RestOf(U, k, p) >= RestOf(U, h, p) - cost
    BY <1>1, <1>2, <1>3, <2>2, <2>3
  <2> QED BY <1>4, <2>4
<1>6. PICK w \in Int : w = WorthOf(cash', coins', price')
  <2>1. price' = price
    BY <1>1 DEF Fill
  <2> QED BY <1>0, <2>1, WorthInt
<1>7. fees' = fees + fee /\ price' = price /\ cash' = cash + (-t - fee)
  BY <1>0, <1>1, <1>2 DEF Fill
<1>8. TornInv'
  <2>1. val' = Witnessed(w, cost, FALSE)
    BY <1>1, <1>2, <1>6 DEF Fill
  <2>2. \A j \in DOMAIN keys : j \in DOMAIN keys' /\ keys'[j] = keys[j]
    BY <1>1 DEF Fill
  <2>3. fees' \in Nat
    BY <1>0, <1>7
  <2> QED BY <1>5, <1>7, <2>1, <2>2, <2>3, OrderTears
<1>9. Worth' = Worth - fee
  <2>1. RestOf(Assets, k, p) = RestOf(Assets, h, p) + t
    <3>1. RestOf(Assets, k, p)
            = RestOf(Assets, h, p) + (IF a \in Assets THEN 1000 * (n * p[a]) ELSE 0)
      BY <1>1, <1>4, RestAfterTrade
    <3> QED BY <1>3, <1>4, <3>1
  <2>2. RestOf(Assets, h, p) \in Int
    BY <1>4, RestInt
  <2>3. /\ Worth' = RestOf(Assets, k, p) + cash'
        /\ Worth = RestOf(Assets, h, p) + cash
    BY <1>4, <1>7, WorthIsRest DEF Worth
  <2> QED BY <1>0, <1>1, <1>2, <1>7, <2>1, <2>2, <2>3
<1> QED BY <1>0, <1>7, <1>8, <1>9

\* When the market moves, what is being valued is no longer steady.
LEMMA MarketTears == TornInv /\ MarketMoves => TornInv'
<1> SUFFICES ASSUME TornInv, MarketMoves PROVE TornInv'
  OBVIOUS
<1>0. /\ AccountInv /\ AccountType /\ val \in [Valuations -> Valuation]
      /\ cash \in Int /\ coins \in [Assets -> Int]
      /\ price' \in [Assets -> Prices]
      /\ UNCHANGED <<cash, coins, keys, fees>>
  BY DEF TornInv, AccountInv, AccountType, MarketMoves
<1>1. AccountInv' /\ fees' \in Nat
  <2>1. AccountType' /\ Solvent' /\ KeysCoverCoins'
    BY <1>0 DEF AccountInv, AccountType, Solvent, KeysCoverCoins
  <2> QED BY <1>0, <2>1 DEF AccountInv, TornInv
<1>2. PICK w \in Int, m \in BOOLEAN, c \in Nat :
        /\ m = TRUE /\ c = 0 /\ w = WorthOf(cash, coins, price')
        /\ val' = Witnessed(w, c, m)
  <2>1. WorthOf(cash, coins, price') \in Int
    BY <1>0, WorthInt
  <2> QED BY <2>1 DEF MarketMoves
<1>3. val' \in [Valuations -> Valuation]
  BY <1>0, <1>2, WitnessedIs
<1>4. ASSUME NEW v \in Valuations PROVE Within(val'[v], keys', coins', price')
  <2>1. PICK r \in Valuation, new \in Valuation : r = val[v] /\ new = val'[v]
    BY <1>0, <1>3
  <2>2. Marked(r, new, c, m)
    BY <1>0, <1>2, <2>1, WitnessedIs
  <2>3. Within(r, keys, coins, price)
    BY <2>1 DEF TornInv
  <2>4. CASE r.pc # "asking"
    <3>1. new = r
      BY <2>2, <2>4 DEF Marked
    <3> QED BY <2>1, <2>3, <2>4, <3>1 DEF Within, Expected
  <2>5. CASE r.pc = "asking"
    <3>1. /\ new.pc = "asking" /\ new.at = r.at /\ new.amount = r.amount /\ ~new.steady
      BY <1>2, <2>2, <2>5 DEF Marked
    <3>2. r.at \in DOMAIN keys' /\ r.amount >= 0
      BY <1>0, <2>3, <2>5 DEF Within
    <3> QED BY <2>1, <3>1, <3>2 DEF Within
  <2> QED BY <2>4, <2>5
<1> QED BY <1>1, <1>3, <1>4 DEF TornInv

LEMMA StartTears ==
    ASSUME TornInv, NEW v \in Valuations, StartValue(v)
    PROVE  TornInv'
<1>0. /\ AccountType /\ Solvent /\ KeysCoverCoins /\ cash \in Int
      /\ coins \in [Assets -> Int] /\ price \in [Assets -> Prices] /\ Len(keys) \in Nat
  BY KeysAre DEF TornInv, AccountInv, AccountType
<1>1. PICK w \in Int : w = Worth
  BY <1>0, WorthInt DEF Worth
<1>2. PICK r \in Valuation :
        /\ r = [NoValuation EXCEPT !.size = Len(keys), !.lo = Worth, !.hi = Worth]
        /\ r.lo = w /\ r.hi = w /\ r.traded = 0
  <2>1. PICK p : p = [NoValuation EXCEPT !.size = Len(keys), !.lo = Worth, !.hi = Worth]
    OBVIOUS
  <2>2. p = [pc |-> "idle", at |-> 0, amount |-> 0, total |-> 0, size |-> Len(keys), lo |-> w,
             hi |-> w, traded |-> 0, steady |-> TRUE, whole |-> TRUE]
    BY <1>1, <2>1 DEF NoValuation
  <2>3. p \in Valuation /\ p.lo = w /\ p.hi = w /\ p.traded = 0
    BY <1>0, <1>1, <2>2 DEF Valuation
  <2> QED BY <2>1, <2>3
<1>3. PICK c : c = Continued(r, 0, cash)
  OBVIOUS
<1>4. Onward(r, c, cash + RestOf(Uncounted(keys, 0), coins, price))
  <2>1. 0 \in 0 .. Len(keys)
    BY <1>0
  <2> QED BY <1>0, <1>2, <1>3, <2>1, ContinuedIs
<1>5. /\ c \in Valuation /\ c.pc \in {"asking", "done"}
      /\ c.pc = "asking" => c.at \in DOMAIN keys /\ c.amount >= 0
      /\ c.lo = r.lo /\ c.hi = r.hi /\ c.traded = r.traded
      /\ Expected(c, keys, coins, price) = cash + RestOf(Uncounted(keys, 0), coins, price)
  BY <1>4 DEF Onward
<1>6. Uncounted(keys, 0) = Assets
  BY DEF Uncounted
<1>7. Expected(c, keys, coins, price) = w
  <2>1. RestOf(Assets, coins, price) \in Int
    BY <1>0, RestInt
  <2> QED BY <1>0, <1>1, <1>5, <1>6, <2>1, WorthIsRest DEF Worth
<1>8. Within(c, keys, coins, price)
  BY <1>1, <1>2, <1>5, <1>7 DEF Within
<1>9. val' = [val EXCEPT ![v] = c] /\ UNCHANGED <<cash, coins, keys, price, fees>>
  BY <1>2, <1>3 DEF StartValue
<1> QED BY <1>5, <1>8, <1>9, OneValuation

\* A price that arrives turns what was expected of its asset into total; a
\* lookup that fails drops it.
LEMMA LookupTears ==
    ASSUME TornInv, NEW v \in Valuations, Priced(v) \/ Skipped(v)
    PROVE  TornInv'
<1>0. /\ AccountType /\ Solvent /\ KeysCoverCoins
      /\ Len(keys) \in Nat /\ DOMAIN keys = 1 .. Len(keys)
  BY KeysAre DEF TornInv, AccountInv
<1>1. PICK r \in Valuation : r = val[v] /\ r.pc = "asking"
  BY DEF TornInv, Priced, Skipped
<1>2. Within(r, keys, coins, price)
  BY <1>1 DEF TornInv
<1>3. r.at \in DOMAIN keys /\ r.at \in 0 .. Len(keys) /\ r.amount >= 0
  BY <1>0, <1>1, <1>2 DEF Within
<1>4. PICK base \in Nat, rest \in Int :
        /\ base = 1000 * r.amount * price[keys[r.at]]
        /\ rest = RestOf(Uncounted(keys, r.at), coins, price)
  <2>1. /\ 1000 * r.amount * price[keys[r.at]] \in Int
        /\ 1000 * r.amount * price[keys[r.at]] >= 0
        /\ RestOf(Uncounted(keys, r.at), coins, price) \in Int
    BY <1>0, <1>1, <1>3, ExpectedInt
  <2> QED BY <2>1
<1>5. Expected(r, keys, coins, price) = r.total + base + rest
  BY <1>1, <1>4 DEF Expected
<1>6. r.steady => /\ r.total + base + rest <= r.hi + r.traded
                  /\ r.whole => r.total + base + rest >= r.lo - r.traded
  BY <1>1, <1>2, <1>5 DEF Within
<1>7. r.total \in Int /\ r.lo \in Int /\ r.hi \in Int /\ r.traded \in Nat
  BY <1>1 DEF Valuation
<1>8. CASE Priced(v)
  <2>1. PICK total \in Int : total = r.total + 1000 * r.amount * price[keys[r.at]]
    BY <1>4, <1>7
  <2>2. PICK c : c = Continued(r, r.at, total)
    OBVIOUS
  <2>3. Onward(r, c, total + rest)
    <3>1. Onward(r, c, total + RestOf(Uncounted(keys, r.at), coins, price))
      BY <1>0, <1>1, <1>3, <2>1, <2>2, ContinuedIs
    <3> QED BY <1>4, <3>1
  <2>4. total = r.total + base
    BY <1>4, <2>1
  <2>5. Within(c, keys, coins, price)
    BY <1>6, <2>3, <2>4 DEF Within, Onward
  <2>6. val' = [val EXCEPT ![v] = c] /\ UNCHANGED <<cash, coins, keys, price, fees>>
    BY <1>1, <1>8, <2>1, <2>2 DEF Priced
  <2> QED BY <2>3, <2>5, <2>6, OneValuation DEF Onward
<1>9. CASE Skipped(v)
  <2>1. PICK part \in Valuation :
          /\ part = [r EXCEPT !.whole = FALSE] /\ part.lo = r.lo /\ part.hi = r.hi
          /\ part.traded = r.traded /\ part.steady = r.steady /\ part.whole = FALSE
    <3>1. PICK p : p = [r EXCEPT !.whole = FALSE]
      OBVIOUS
    <3>2. p = [pc |-> r.pc, at |-> r.at, amount |-> r.amount, total |-> r.total,
               size |-> r.size, lo |-> r.lo, hi |-> r.hi, traded |-> r.traded,
               steady |-> r.steady, whole |-> FALSE]
      BY <1>1, <3>1 DEF Valuation
    <3> QED BY <1>1, <3>1, <3>2 DEF Valuation
  <2>2. PICK c : c = Continued(part, r.at, r.total)
    OBVIOUS
  <2>3. Onward(part, c, r.total + rest)
    <3>1. Onward(part, c, r.total + RestOf(Uncounted(keys, r.at), coins, price))
      BY <1>0, <1>3, <1>7, <2>1, <2>2, ContinuedIs
    <3> QED BY <1>4, <3>1
  <2>4. r.total + rest <= r.total + base + rest
    BY <1>4, <1>7
  <2>5. c.steady => Expected(c, keys, coins, price) <= c.hi + c.traded
    BY <1>4, <1>6, <1>7, <2>1, <2>3, <2>4 DEF Onward
  <2>6. ~c.whole
    BY <2>1, <2>3 DEF Onward
  <2>7. Within(c, keys, coins, price)
    BY <2>3, <2>5, <2>6 DEF Within, Onward
  <2>8. val' = [val EXCEPT ![v] = c] /\ UNCHANGED <<cash, coins, keys, price, fees>>
    BY <1>1, <1>9, <2>1, <2>2 DEF Skipped
  <2> QED BY <2>3, <2>7, <2>8, OneValuation DEF Onward
<1> QED BY <1>8, <1>9

LEMMA TornStep ==
    ASSUME TornInv, [Next]_vars
    PROVE  TornInv' /\ (price' = price /\ vars' # vars => Worth' = Worth - (fees' - fees))
<1>0. /\ AccountInv /\ AccountInv' /\ fees \in Nat /\ cash \in Int
      /\ val \in [Valuations -> Valuation]
      /\ coins \in [Assets -> Int] /\ price \in [Assets -> Prices]
  BY AccountStep DEF TornInv, AccountInv, AccountType
<1>1. ASSUME UNCHANGED <<cash, coins, keys, price, fees>>
      PROVE  Worth' = Worth - (fees' - fees)
  <2>1. Worth \in Int
    BY <1>0, WorthInt DEF Worth
  <2>2. Worth' = Worth
    BY <1>1 DEF Worth, WorthOf
  <2> QED BY <1>0, <1>1, <2>1, <2>2
<1>2. ASSUME NEW a \in Assets, NEW amount \in Amounts, OrderStep(a, amount)
      PROVE  TornInv' /\ Worth' = Worth - (fees' - fees)
  BY <1>0, <1>2, FillTears DEF OrderStep
<1>3. CASE MarketMoves
  <2>1. price' # price
    BY <1>3 DEF MarketMoves
  <2> QED BY <1>3, <2>1, MarketTears
<1>4. ASSUME NEW v \in Valuations, StartValue(v)
      PROVE  TornInv' /\ UNCHANGED <<cash, coins, keys, price, fees>>
  <2>1. TornInv'
    BY <1>4, StartTears
  <2> QED BY <1>4, <2>1 DEF StartValue
<1>5. ASSUME NEW v \in Valuations, Priced(v) \/ Skipped(v)
      PROVE  TornInv' /\ UNCHANGED <<cash, coins, keys, price, fees>>
  <2>1. TornInv'
    BY <1>5, LookupTears
  <2> QED BY <1>5, <2>1 DEF Priced, Skipped
<1>6. ASSUME NEW v \in Valuations, ValueRaises(v) \/ Returned(v)
      PROVE  TornInv' /\ UNCHANGED <<cash, coins, keys, price, fees>>
  <2>1. UNCHANGED <<cash, coins, keys, price, fees>> /\ val' = [val EXCEPT ![v] = NoValuation]
    BY <1>6 DEF ValueRaises, Returned
  <2>2. NoValuation \in Valuation /\ Within(NoValuation, keys, coins, price)
    BY NoValuationIs
  <2> QED BY <2>1, <2>2, OneValuation
<1>7. CASE UNCHANGED vars
  BY <1>7 DEF vars, TornInv, AccountInv, AccountType, Solvent, KeysCoverCoins
<1> QED BY <1>1, <1>2, <1>3, <1>4, <1>5, <1>6, <1>7 DEF Next

LEMMA TornInvariance == Spec => []TornInv
<1>1. TornInv /\ [Next]_vars => TornInv'
  BY TornStep
<1> QED BY <1>1, TornInitial, PTL DEF Spec

(***************************************************************************)
(* A valuation torn by other bots' orders errs by no more than they turned *)
(* over: whatever is traded while it runs, what it is heading for stays    *)
(* within that of what the account was worth (TornInv).                    *)
(***************************************************************************)
THEOREM ValuationsTornByTurnover == Spec => []TornByTurnover
<1>1. TornInv => TornByTurnover
  BY DEF TornInv, TornByTurnover, Within, Expected
<1> QED BY <1>1, TornInvariance, PTL

(***************************************************************************)
(* A trade changes the account's worth by its fee and by nothing else.     *)
(***************************************************************************)
THEOREM TradesCostFees == Spec => TradesCostTheirFee
<1>1. TornInv /\ [Next]_vars => [price' = price => Worth' = Worth - (fees' - fees)]_vars
  BY TornStep
<1> QED BY <1>1, TornInvariance, PTL DEF Spec, TradesCostTheirFee

----------------------------------------------------------------------------
(***************************************************************************)
(* How often valuations raise.  One that is under way began with a dict of *)
(* more keys than its caller has lost valuations; when it raises, the dict *)
(* has more keys still.                                                    *)
(***************************************************************************)
RaiseInv ==
    /\ TornInv
    /\ raised \in [Valuations -> Nat]
    /\ \A v \in Valuations : raised[v] > 0 => raised[v] < Len(keys)
    /\ \A v \in Valuations :
          val[v].pc = "asking" => raised[v] < val[v].size /\ val[v].size <= Len(keys)

\* A loop that goes on has a key to go on to, and the size it began with.
LEMMA LoopHasKeys ==
    ASSUME NEW r \in Valuation, NEW i \in Nat, NEW total \in Int, Len(keys) \in Nat
    PROVE  /\ Continued(r, i, total).pc = "asking" => Len(keys) > 0
           /\ Continued(r, i, total).size = r.size
<1> PICK further : further = {j \in i + 1 .. Len(keys) : coins[keys[j]] # 0}
  OBVIOUS
<1>1. further # {} => Len(keys) > 0
  OBVIOUS
<1>2. Continued(r, i, total) =
        IF further = {} THEN [r EXCEPT !.pc = "done", !.at = 0, !.amount = 0, !.total = total]
        ELSE [r EXCEPT !.pc = "asking", !.at = Min(further),
                       !.amount = coins[keys[Min(further)]], !.total = total]
  BY DEF Continued
<1>3. CASE further = {}
  BY <1>2, <1>3 DEF Valuation
<1>4. CASE further # {}
  BY <1>1, <1>2, <1>4 DEF Valuation
<1> QED BY <1>3, <1>4

\* An order or a move of the market: no valuation advances, no key goes.
LEMMA RaisesKept ==
    ASSUME RaiseInv, TornInv', raised' = raised, Len(keys') \in Nat, Len(keys) \in Nat,
           Len(keys') >= Len(keys),
           \A v \in Valuations : val'[v].pc = val[v].pc /\ val'[v].size = val[v].size
    PROVE  RaiseInv'
<1>1. ASSUME NEW v \in Valuations, raised[v] > 0 PROVE raised[v] < Len(keys')
  BY <1>1 DEF RaiseInv
<1>2. ASSUME NEW v \in Valuations, val[v].pc = "asking"
      PROVE  raised[v] < val[v].size /\ val[v].size <= Len(keys')
  <2>1. val[v].size \in Nat /\ raised[v] \in Nat
    BY DEF RaiseInv, TornInv, Valuation
  <2> QED BY <1>2, <2>1 DEF RaiseInv
<1> QED BY <1>1, <1>2 DEF RaiseInv

LEMMA RaiseStep == RaiseInv /\ [Next]_vars => RaiseInv'
<1> SUFFICES ASSUME RaiseInv, [Next]_vars PROVE RaiseInv'
  OBVIOUS
<1>0. /\ TornInv /\ TornInv' /\ AccountType /\ AccountType'
      /\ val \in [Valuations -> Valuation] /\ raised \in [Valuations -> Nat]
      /\ Len(keys) \in Nat /\ Len(keys') \in Nat
  <2>1. TornInv'
    BY TornStep DEF RaiseInv
  <2>2. keys \in Seq(Assets) /\ keys' \in Seq(Assets)
    BY <2>1 DEF RaiseInv, TornInv, AccountInv, AccountType
  <2> QED BY <2>1, <2>2, LenProperties DEF RaiseInv, TornInv, AccountInv
\* One valuation moves to c, and has raised n times.
<1>1. ASSUME NEW v \in Valuations, NEW c \in Valuation, NEW n \in Nat,
             val' = [val EXCEPT ![v] = c], raised' = [raised EXCEPT ![v] = n], keys' = keys,
             n > 0 => n < Len(keys),
             c.pc = "asking" => n < c.size /\ c.size <= Len(keys)
      PROVE  RaiseInv'
  <2>1. ASSUME NEW w \in Valuations
        PROVE  /\ raised'[w] > 0 => raised'[w] < Len(keys)
               /\ val'[w].pc = "asking" => raised'[w] < val'[w].size /\ val'[w].size <= Len(keys)
    <3>1. CASE w = v
      BY <1>0, <1>1, <3>1
    <3>2. CASE w # v
      BY <1>0, <1>1, <3>2 DEF RaiseInv
    <3> QED BY <3>1, <3>2
  <2>2. raised' \in [Valuations -> Nat]
    BY <1>0, <1>1
  <2> QED BY <1>0, <1>1, <2>1, <2>2 DEF RaiseInv
<1>2. ASSUME NEW a \in Assets, NEW amount \in Amounts, Buy(a, amount) \/ Sell(a, amount)
      PROVE  RaiseInv'
  <2>1. PICK w, c : /\ val' = Witnessed(w, c, FALSE) /\ c = Cost(a, amount)
                    /\ w = WorthOf(cash', coins', price) /\ price' = price /\ raised' = raised
    BY <1>2 DEF Buy, Sell
  <2>2. w \in Int /\ c \in Nat
    BY <1>0, <2>1, CostAndFee, WorthInt DEF AccountType
  <2>3. \A v \in Valuations : val'[v].pc = val[v].pc /\ val'[v].size = val[v].size
    <3>1. \A v \in Valuations : Marked(val[v], val'[v], c, FALSE)
      BY <1>0, <2>1, <2>2, WitnessedIs
    <3> QED BY <3>1 DEF Marked
  <2>4. Len(keys') >= Len(keys)
    <3>1. keys' = keys \/ keys' = Append(keys, a)
      BY <1>2 DEF Buy, Sell
    <3>2. Len(Append(keys, a)) = Len(keys) + 1
      BY <1>0, AppendProperties DEF AccountType
    <3> QED BY <1>0, <3>1, <3>2
  <2> QED BY <1>0, <2>1, <2>3, <2>4, RaisesKept
<1>3. CASE MarketMoves
  <2>1. PICK w : val' = Witnessed(w, 0, TRUE) /\ w = WorthOf(cash, coins, price')
    BY <1>3 DEF MarketMoves
  <2>2. w \in Int /\ raised' = raised /\ keys' = keys
    BY <1>0, <1>3, <2>1, WorthInt DEF MarketMoves, AccountType
  <2>3. \A v \in Valuations : val'[v].pc = val[v].pc /\ val'[v].size = val[v].size
    <3>1. \A v \in Valuations : Marked(val[v], val'[v], 0, TRUE)
      BY <1>0, <2>1, <2>2, WitnessedIs
    <3> QED BY <3>1 DEF Marked
  <2> QED BY <1>0, <2>2, <2>3, RaisesKept
<1>4. ASSUME NEW v \in Valuations, StartValue(v) PROVE RaiseInv'
  <2>1. PICK r : r = [NoValuation EXCEPT !.size = Len(keys), !.lo = Worth, !.hi = Worth]
    OBVIOUS
  <2>2. Worth \in Int /\ cash \in Int
    BY <1>0, WorthInt DEF Worth, AccountType
  <2>3. r \in Valuation /\ r.size = Len(keys)
    <3>1. r = [pc |-> "idle", at |-> 0, amount |-> 0, total |-> 0, size |-> Len(keys),
               lo |-> Worth, hi |-> Worth, traded |-> 0, steady |-> TRUE, whole |-> TRUE]
      BY <2>1 DEF NoValuation
    <3> QED BY <1>0, <2>2, <3>1 DEF Valuation
  <2>4. PICK c : c = Continued(r, 0, cash) /\ val' = [val EXCEPT ![v] = c]
    BY <1>4, <2>1 DEF StartValue
  <2>5. c.size = Len(keys) /\ (c.pc = "asking" => Len(keys) > 0)
    BY <1>0, <2>2, <2>3, <2>4, LoopHasKeys
  <2>6. c \in Valuation
    <3>1. val'[v] = c
      BY <1>0, <2>4
    <3> QED BY <1>0, <3>1 DEF TornInv
  <2>7. raised[v] \in Nat /\ raised' = [raised EXCEPT ![v] = raised[v]] /\ keys' = keys
    BY <1>0, <1>4 DEF StartValue
  <2>8. raised[v] > 0 => raised[v] < Len(keys)
    BY DEF RaiseInv
  <2>9. c.pc = "asking" => raised[v] < c.size /\ c.size <= Len(keys)
    BY <1>0, <2>5, <2>7, <2>8
  <2> QED BY <1>1, <2>4, <2>6, <2>7, <2>8, <2>9
<1>5. ASSUME NEW v \in Valuations, Priced(v) \/ Skipped(v) PROVE RaiseInv'
  <2>1. PICK r, total : /\ val' = [val EXCEPT ![v] = Continued(r, val[v].at, total)]
                        /\ r = val[v] \/ r = [val[v] EXCEPT !.whole = FALSE]
                        /\ total = val[v].total
                           \/ total = val[v].total + 1000 * val[v].amount * price[keys[val[v].at]]
    BY <1>5 DEF Priced, Skipped
  <2>2. r \in Valuation /\ r.size = val[v].size /\ val[v].at \in Nat
    BY <1>0, <2>1 DEF Valuation
  <2>3. PICK c : c = Continued(r, val[v].at, total) /\ val' = [val EXCEPT ![v] = c]
    BY <2>1
  <2>4. c.size = r.size
    <3>1. total \in Int
      <4>1. val'[v] \in Valuation /\ val'[v] = c
        BY <1>0, <2>3 DEF TornInv
      <4>2. c.total = total
        BY <2>2, <2>3 DEF Continued, Valuation
      <4> QED BY <4>1, <4>2 DEF Valuation
    <3> QED BY <1>0, <2>2, <2>3, <3>1, LoopHasKeys
  <2>5. c \in Valuation
    <3>1. val'[v] = c
      BY <1>0, <2>3
    <3> QED BY <1>0, <3>1 DEF TornInv
  <2>6. raised[v] \in Nat /\ raised' = [raised EXCEPT ![v] = raised[v]] /\ keys' = keys
    BY <1>0, <1>5 DEF Priced, Skipped
  <2>7. /\ raised[v] > 0 => raised[v] < Len(keys)
        /\ raised[v] < val[v].size /\ val[v].size <= Len(keys)
    BY <1>5 DEF RaiseInv, Priced, Skipped
  <2> QED BY <1>1, <2>2, <2>3, <2>4, <2>5, <2>6, <2>7
<1>6. ASSUME NEW v \in Valuations, ValueRaises(v) PROVE RaiseInv'
  <2>1. /\ raised[v] < val[v].size /\ val[v].size <= Len(keys) /\ val[v].size # Len(keys)
        /\ raised[v] \in Nat /\ val[v].size \in Nat
    BY <1>0, <1>6 DEF RaiseInv, ValueRaises, Valuation
  <2>2. PICK n \in Nat : n = raised[v] + 1 /\ n < Len(keys)
    BY <1>0, <2>1
  <2>3. /\ val' = [val EXCEPT ![v] = NoValuation] /\ raised' = [raised EXCEPT ![v] = n]
        /\ keys' = keys
    BY <1>6, <2>2 DEF ValueRaises
  <2>4. NoValuation \in Valuation /\ NoValuation.pc # "asking"
    BY NoValuationIs DEF NoValuation
  <2> QED BY <1>1, <2>2, <2>3, <2>4
<1>7. ASSUME NEW v \in Valuations, Returned(v) PROVE RaiseInv'
  <2>1. /\ val' = [val EXCEPT ![v] = NoValuation] /\ raised' = [raised EXCEPT ![v] = raised[v]]
        /\ keys' = keys /\ raised[v] \in Nat
    BY <1>0, <1>7 DEF Returned
  <2>2. raised[v] > 0 => raised[v] < Len(keys)
    BY DEF RaiseInv
  <2>3. NoValuation \in Valuation /\ NoValuation.pc # "asking"
    BY NoValuationIs DEF NoValuation
  <2> QED BY <1>1, <2>1, <2>2, <2>3
<1>8. CASE UNCHANGED vars
  BY <1>0, <1>8 DEF vars, RaiseInv
<1> QED BY <1>2, <1>3, <1>4, <1>5, <1>6, <1>7, <1>8 DEF Next, OrderStep

LEMMA RaiseInvariance == Spec => []RaiseInv
<1>1. Init => RaiseInv
  <2> SUFFICES ASSUME Init PROVE RaiseInv
    OBVIOUS
  <2>1. TornInv
    BY TornInitial
  <2>2. \A v \in Valuations : raised[v] = 0 /\ val[v].pc = "idle"
    BY DEF Init, NoValuation
  <2>3. raised \in [Valuations -> Nat]
    BY DEF Init
  <2> QED BY <2>1, <2>2, <2>3 DEF RaiseInv
<1> QED BY <1>1, RaiseStep, PTL DEF Spec

(***************************************************************************)
(* The types of the account and of the valuations in flight.               *)
(***************************************************************************)
THEOREM TypeCorrect == Spec => []TypeOK
<1>1. RaiseInv => TypeOK
  BY DEF RaiseInv, TornInv, AccountInv, AccountType, TypeOK
<1> QED BY <1>1, RaiseInvariance, PTL

(***************************************************************************)
(* A caller loses fewer valuations to a dict that grows under its loop     *)
(* than there are assets (paper.py:81, 101): keys are never dropped, and   *)
(* distinct, so there are no more of them than assets.                     *)
(***************************************************************************)
THEOREM RaisesBounded == Spec => []RaisesAreFew
<1>1. RaiseInv => RaisesAreFew
  <2> SUFFICES ASSUME RaiseInv, NEW v \in Valuations, raised[v] > 0
               PROVE  raised[v] < Cardinality(Assets)
    BY DEF RaisesAreFew
  <2>1. /\ Len(keys) \in Nat /\ DOMAIN keys = 1 .. Len(keys)
        /\ \A j \in DOMAIN keys : keys[j] \in Assets
        /\ keys \in Seq(Assets)
    BY KeysAre DEF RaiseInv, TornInv, AccountInv, AccountType
  <2>2. keys \in [1 .. Len(keys) -> Assets]
    BY <2>1
  <2>3. \A i, j \in 1 .. Len(keys) : keys[i] = keys[j] => i = j
    BY <2>1 DEF RaiseInv, TornInv, AccountInv, KeysCoverCoins
  <2>4. keys \in Injection(1 .. Len(keys), Assets)
    BY <2>2, <2>3 DEF Injection, IsInjective
  <2>5. Cardinality(1 .. Len(keys)) <= Cardinality(Assets)
    BY <2>4, PaperAssumption, FS_Injection
  <2>6. Cardinality(1 .. Len(keys)) = Len(keys) /\ Cardinality(Assets) \in Nat
    <3> PICK n \in Nat : n = Len(keys)
      BY <2>1
    <3>1. 1 \in Int /\ n \in Int /\ (IF 1 > n THEN 0 ELSE n - 1 + 1) = n
      OBVIOUS
    <3>2. Cardinality(1 .. n) = n
      BY <3>1, FS_Interval, Zenon
    <3>3. Cardinality(Assets) \in Nat
      BY PaperAssumption, FS_CardinalityType
    <3> QED BY <3>2, <3>3
  <2> QED BY <2>1, <2>5, <2>6 DEF RaiseInv
<1> QED BY <1>1, RaiseInvariance, PTL
=============================================================================

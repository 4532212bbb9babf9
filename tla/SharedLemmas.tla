---------------------------- MODULE SharedLemmas ----------------------------
(***************************************************************************)
(* Facts that the proofs of several components rest on: the decision rules *)
(* of RiskRules, wherever a manager is driven (on its own, by the strategy *)
(* runner, in a backtest), and sums over finite sets, wherever accounts    *)
(* are added up (the ledgers, the paper account, a backtest's report).     *)
(*                                                                         *)
(* A sum is a fold, which recurs over sets.  Induction over them is by     *)
(* smallest counterexample: among the subsets of a finite set for which a  *)
(* statement fails there is one all of whose proper subsets satisfy it.    *)
(***************************************************************************)
EXTENDS RiskRules, FiniteSetTheorems, TLAPS

\* What check_drawdown makes of a well-typed manager.
LEMMA CheckDrawdownType ==
    ASSUME NEW r \in RiskState, NEW d \in Nat, NEW e \in Nat
    PROVE  CheckDrawdown(r, d, e) \in RiskState
<1>1. RollDay(r, d, e) \in RiskState
  BY DEF RollDay, RiskState
<1> QED BY <1>1 DEF CheckDrawdown, RiskState

\* Every verdict of evaluate is well typed; none is approved while halted,
\* and an approved BUY is sized within the position limit.
LEMMA EvaluateVerdicts ==
    ASSUME NEW r \in RiskState, NEW sig \in Signals, NEW eq \in Nat,
           NEW price \in Nat, NEW entry \in Nat,
           NEW v \in Evaluate(r, sig, eq, price, entry)
    PROVE  /\ v \in Verdicts
           /\ v.approved => ~r.halted
           /\ v.approved /\ sig = "buy" =>
                 /\ v.amount > 0
                 /\ v.amount * price * 100 <= eq * MaxPositionPct
<1>1. CASE r.halted
  <2>1. v = Veto("halted")
    BY <1>1 DEF Evaluate
  <2> QED BY <2>1 DEF Veto, Verdicts
<1>2. CASE ~r.halted /\ sig = "hold"
  <2>1. v = Veto("hold")
    BY <1>2 DEF Evaluate
  <2> QED BY <2>1 DEF Veto, Verdicts
<1>3. CASE ~r.halted /\ sig = "sell"
  <2>1. PICK why \in {"strategy", "stop_loss", "take_profit"} : v = Approve(why, 0)
    BY <1>3 DEF Evaluate, SellReason
  <2> QED BY <1>3, <2>1 DEF Approve, Verdicts
<1>4. CASE ~r.halted /\ sig = "buy"
  <2>1. CASE SizedAmounts(eq, price) = {}
    <3>1. v = Veto("zero")
      BY <1>4, <2>1 DEF Evaluate
    <3> QED BY <3>1 DEF Veto, Verdicts
  <2>2. CASE SizedAmounts(eq, price) # {}
    <3>1. PICK a \in SizedAmounts(eq, price) : v = Approve("strategy", a)
      BY <1>4, <2>2 DEF Evaluate
    <3>2. a \in Nat /\ a > 0 /\ a * price * 100 <= eq * MaxPositionPct
      BY RiskAssumption DEF SizedAmounts
    <3> QED BY <1>4, <3>1, <3>2 DEF Approve, Verdicts
  <2> QED BY <2>1, <2>2
<1> QED BY <1>1, <1>2, <1>3, <1>4 DEF Signals

\* A check belongs to the day it runs on, and a halt survives every later
\* check of that day.
LEMMA CheckDrawdownDay ==
    ASSUME NEW r \in RiskState, NEW d \in Nat, NEW e \in Nat
    PROVE  /\ CheckDrawdown(r, d, e).day = d
           /\ r.day = d /\ r.halted => CheckDrawdown(r, d, e).halted
<1>1. /\ RollDay(r, d, e) \in RiskState
      /\ RollDay(r, d, e).day = d
      /\ r.day = d => RollDay(r, d, e) = r
  BY DEF RollDay, RiskState
<1> PICK x \in RiskState : x = RollDay(r, d, e)
  BY <1>1
<1>2. CheckDrawdown(r, d, e) = IF Breaches(x.start, e) THEN [x EXCEPT !.halted = TRUE] ELSE x
  BY DEF CheckDrawdown
<1> QED BY <1>1, <1>2 DEF RiskState

----------------------------------------------------------------------------
\* Of the subsets of a finite set with some property, one is the smallest.
LEMMA SmallestSet ==
    ASSUME NEW S, IsFiniteSet(S), NEW B \in SUBSET SUBSET S, B # {}
    PROVE  \E s \in B : \A t \in B : t \subseteq s => t = s
<1> DEFINE N == {n \in Nat : \E s \in B : Cardinality(s) = n}
           R == OpToRel(<, Nat)
<1>0. \A s \in SUBSET S : IsFiniteSet(s) /\ Cardinality(s) \in Nat
  BY FS_Subset, FS_CardinalityType
<1>1. N # {} /\ N \subseteq Nat
  BY <1>0
<1>2. PICK n \in N : \A m \in N : ~(<<m, n>> \in R)
  <2>1. IsWellFoundedOn(R, Nat)
    BY NatLessThanWellFounded
  <2> HIDE DEF N, R
  <2> QED BY <1>1, <2>1, WFMin
<1>3. \A m \in N : ~(m < n)
  BY <1>2 DEF OpToRel
<1>4. PICK s \in B : Cardinality(s) = n
  OBVIOUS
<1>5. ASSUME NEW t \in B, t \subseteq s PROVE t = s
  <2>1. Cardinality(t) \in N
    BY <1>0
  <2>2. Cardinality(t) <= Cardinality(s)
    BY <1>0, <1>5, FS_Subset
  <2>3. Cardinality(s) = Cardinality(t)
    BY <1>0, <1>3, <1>4, <2>1, <2>2
  <2> QED BY <1>0, <1>5, <2>3, FS_Subset
<1> QED BY <1>5

\* The element that the folds of the library take out first.
Any(s) == CHOOSE x \in s : TRUE

\* g is the table of the sums of f over the subsets of S.
SumsOver(f, S, g) ==
    g = [s \in SUBSET S |-> IF s = {} THEN 0 ELSE f[Any(s)] + g[s \ {Any(s)}]]

SumTable(f, S) == CHOOSE g : SumsOver(f, S, g)

\* SumFunctionOnSet looks its set up in such a table.
LEMMA SumUnfolds ==
    ASSUME NEW f, NEW S
    PROVE  SumFunctionOnSet(f, S) = SumTable(f, S)[S]
  BY DEF SumTable, SumFunctionOnSet, FoldFunctionOnSet, MapThenFoldSet, SumsOver, Any

\* Two tables agree where both are defined.
LEMMA SumsAgree ==
    ASSUME NEW f, NEW S, IsFiniteSet(S), NEW T, NEW g, NEW h,
           SumsOver(f, S, g), SumsOver(f, T, h),
           NEW s \in SUBSET S, s \subseteq T
    PROVE  g[s] = h[s]
<1> DEFINE B == {t \in SUBSET S : t \subseteq T /\ g[t] # h[t]}
<1> SUFFICES ASSUME B # {} PROVE FALSE
  OBVIOUS
<1>1. PICK t \in B : \A u \in B : u \subseteq t => u = t
  <2>1. B \in SUBSET SUBSET S
    OBVIOUS
  <2> HIDE DEF B
  <2> QED BY <2>1, SmallestSet
<1>2. t # {}
  BY DEF SumsOver
<1>3. Any(t) \in t
  BY <1>2 DEF Any
<1>4. g[t \ {Any(t)}] = h[t \ {Any(t)}]
  BY <1>1, <1>3
<1>5. g[t] = f[Any(t)] + g[t \ {Any(t)}] /\ h[t] = f[Any(t)] + h[t \ {Any(t)}]
  BY <1>2 DEF SumsOver
<1> QED BY <1>4, <1>5

\* Where there is a table, it gives the sums of the subsets, too.
LEMMA SumsFromTable ==
    ASSUME NEW f, NEW S, IsFiniteSet(S),
           \A t \in SUBSET S : SumsOver(f, t, SumTable(f, t)),
           NEW s \in SUBSET S, s # {}
    PROVE  SumFunctionOnSet(f, s) = f[Any(s)] + SumFunctionOnSet(f, s \ {Any(s)})
<1> DEFINE r == s \ {Any(s)}
<1>1. r \in SUBSET S /\ r \in SUBSET s
  OBVIOUS
<1>2. SumsOver(f, s, SumTable(f, s)) /\ SumsOver(f, r, SumTable(f, r))
  BY <1>1
<1>3. SumTable(f, s)[s] = f[Any(s)] + SumTable(f, s)[r]
  BY <1>2 DEF SumsOver
<1>4. SumTable(f, s)[r] = SumTable(f, r)[r]
  <2>1. IsFiniteSet(s)
    BY FS_Subset
  <2> HIDE DEF r
  <2> QED BY <1>1, <1>2, <2>1, SumsAgree
<1> QED BY <1>3, <1>4, SumUnfolds DEF SumTable

\* There is a table: the one of the sums themselves.
LEMMA TablesExist ==
    ASSUME NEW f, NEW S, IsFiniteSet(S)
    PROVE  SumsOver(f, S, SumTable(f, S))
<1> DEFINE B == {t \in SUBSET S : ~SumsOver(f, t, SumTable(f, t))}
<1> SUFFICES ASSUME B # {} PROVE FALSE
  OBVIOUS
<1>1. PICK t \in B : \A u \in B : u \subseteq t => u = t
  <2>1. B \in SUBSET SUBSET S
    OBVIOUS
  <2> HIDE DEF B
  <2> QED BY <2>1, SmallestSet
<1>2. \A u \in SUBSET t : u # t => SumsOver(f, u, SumTable(f, u))
  BY <1>1
<1> DEFINE g == [s \in SUBSET t |->
                  IF s = {} THEN 0 ELSE f[Any(s)] + SumFunctionOnSet(f, s \ {Any(s)})]
<1>3. ASSUME NEW s \in SUBSET t, s # t PROVE g[s] = SumFunctionOnSet(f, s)
  <2>1. CASE s = {}
    <3>1. SumsOver(f, {}, SumTable(f, {}))
      BY <1>2, <1>3, <2>1
    <3>2. SumTable(f, {})[{}] = 0
      BY <3>1 DEF SumsOver
    <3> QED BY <2>1, <3>2, SumUnfolds DEF SumTable
  <2>2. CASE s # {}
    <3>1. IsFiniteSet(s)
      BY FS_Subset
    <3>2. \A u \in SUBSET s : SumsOver(f, u, SumTable(f, u))
      BY <1>2, <1>3
    <3> HIDE DEF g
    <3>3. SumFunctionOnSet(f, s) = f[Any(s)] + SumFunctionOnSet(f, s \ {Any(s)})
      BY <2>2, <3>1, <3>2, SumsFromTable
    <3> QED BY <2>2, <3>3 DEF g
  <2> QED BY <2>1, <2>2
<1>4. SumsOver(f, t, g)
  <2>1. ASSUME NEW s \in SUBSET t, s # {}
        PROVE  g[s] = f[Any(s)] + g[s \ {Any(s)}]
    <3>1. Any(s) \in s
      BY <2>1 DEF Any
    <3>2. s \ {Any(s)} \in SUBSET t /\ s \ {Any(s)} # t
      BY <3>1
    <3>3. g[s \ {Any(s)}] = SumFunctionOnSet(f, s \ {Any(s)})
      BY <1>3, <3>2
    <3> QED BY <2>1, <3>3
  <2>2. g = [s \in SUBSET t |-> IF s = {} THEN 0 ELSE f[Any(s)] + g[s \ {Any(s)}]]
    BY <2>1
  <2> QED BY <2>2 DEF SumsOver
<1>5. SumsOver(f, t, SumTable(f, t))
  <2> HIDE DEF g
  <2> QED BY <1>4 DEF SumTable
<1> QED BY <1>5

\* The sum over a finite set, element by element.
LEMMA SumOneByOne ==
    ASSUME NEW f, NEW S, IsFiniteSet(S)
    PROVE  SumFunctionOnSet(f, S) =
              IF S = {} THEN 0 ELSE f[Any(S)] + SumFunctionOnSet(f, S \ {Any(S)})
<1>1. \A t \in SUBSET S : SumsOver(f, t, SumTable(f, t))
  BY FS_Subset, TablesExist
<1>2. CASE S = {}
  <2>1. SumTable(f, S)[S] = 0
    BY <1>1, <1>2 DEF SumsOver
  <2> QED BY <1>2, <2>1, SumUnfolds DEF SumTable
<1>3. CASE S # {}
  BY <1>1, <1>3, SumsFromTable
<1> QED BY <1>2, <1>3

\* A sum of integers is one.
LEMMA SumInt ==
    ASSUME NEW f, NEW S, IsFiniteSet(S), \A x \in S : f[x] \in Int
    PROVE  SumFunctionOnSet(f, S) \in Int
<1> DEFINE B == {t \in SUBSET S : SumFunctionOnSet(f, t) \notin Int}
<1> SUFFICES ASSUME B # {} PROVE FALSE
  OBVIOUS
<1>1. PICK t \in B : \A u \in B : u \subseteq t => u = t
  <2>1. B \in SUBSET SUBSET S
    OBVIOUS
  <2> HIDE DEF B
  <2> QED BY <2>1, SmallestSet
<1>2. SumFunctionOnSet(f, t) =
        IF t = {} THEN 0 ELSE f[Any(t)] + SumFunctionOnSet(f, t \ {Any(t)})
  <2>1. IsFiniteSet(t)
    BY FS_Subset
  <2> QED BY <2>1, SumOneByOne
<1>3. t # {}
  BY <1>2
<1>4. Any(t) \in t
  BY <1>3 DEF Any
<1>5. SumFunctionOnSet(f, t \ {Any(t)}) \in Int
  BY <1>1, <1>4
<1> QED BY <1>2, <1>3, <1>4, <1>5

\* Any element may be taken out first.
LEMMA SumWithout ==
    ASSUME NEW f, NEW S, IsFiniteSet(S), \A x \in S : f[x] \in Int, NEW x \in S
    PROVE  SumFunctionOnSet(f, S) = f[x] + SumFunctionOnSet(f, S \ {x})
<1> DEFINE Sum(t) == SumFunctionOnSet(f, t)
           B == {t \in SUBSET S : \E y \in t : Sum(t) # f[y] + Sum(t \ {y})}
<1> SUFFICES ASSUME B # {} PROVE FALSE
  OBVIOUS
<1>0. \A t \in SUBSET S :
        /\ Sum(t) \in Int
        /\ t # {} => Any(t) \in t /\ Sum(t) = f[Any(t)] + Sum(t \ {Any(t)})
  <2> SUFFICES ASSUME NEW t \in SUBSET S
               PROVE  /\ Sum(t) \in Int
                      /\ t # {} => Any(t) \in t /\ Sum(t) = f[Any(t)] + Sum(t \ {Any(t)})
    OBVIOUS
  <2>1. IsFiniteSet(t)
    BY FS_Subset
  <2>2. t # {} => Any(t) \in t
    BY DEF Any
  <2>3. Sum(t) \in Int
    BY <2>1, SumInt
  <2> QED BY <2>1, <2>2, <2>3, SumOneByOne
<1>1. PICK t \in B : \A u \in B : u \subseteq t => u = t
  <2>1. B \in SUBSET SUBSET S
    OBVIOUS
  <2> HIDE DEF B
  <2> QED BY <2>1, SmallestSet
<1>2. PICK y \in t : Sum(t) # f[y] + Sum(t \ {y})
  OBVIOUS
<1> DEFINE a == Any(t)
           r == t \ {a, y}
<1>3. a \in t /\ Sum(t) = f[a] + Sum(t \ {a})
  BY <1>0, <1>2
<1>4. y # a
  BY <1>2, <1>3
<1>5. Sum(t \ {a}) = f[y] + Sum(r)
  <2>1. t \ {a} \notin B /\ y \in t \ {a} /\ (t \ {a}) \ {y} = r
    BY <1>1, <1>3, <1>4
  <2> HIDE DEF a, r, Sum
  <2> QED BY <2>1
<1>6. Sum(t \ {y}) = f[a] + Sum(r)
  <2>1. t \ {y} \notin B /\ a \in t \ {y} /\ (t \ {y}) \ {a} = r
    BY <1>1, <1>2, <1>3, <1>4
  <2> HIDE DEF a, r, Sum
  <2> QED BY <2>1
<1>7. f[a] \in Int /\ f[y] \in Int /\ Sum(r) \in Int
  BY <1>0, <1>3
<1> HIDE DEF a, r, Sum
<1> QED BY <1>2, <1>3, <1>5, <1>6, <1>7

\* Only the values on the set count.
LEMMA SumSame ==
    ASSUME NEW f, NEW g, NEW S, IsFiniteSet(S), \A x \in S : f[x] = g[x]
    PROVE  SumFunctionOnSet(f, S) = SumFunctionOnSet(g, S)
<1> DEFINE B == {t \in SUBSET S : SumFunctionOnSet(f, t) # SumFunctionOnSet(g, t)}
<1> SUFFICES ASSUME B # {} PROVE FALSE
  OBVIOUS
<1>1. PICK t \in B : \A u \in B : u \subseteq t => u = t
  <2>1. B \in SUBSET SUBSET S
    OBVIOUS
  <2> HIDE DEF B
  <2> QED BY <2>1, SmallestSet
<1>2. IsFiniteSet(t)
  BY FS_Subset
<1>3. /\ SumFunctionOnSet(f, t) =
           IF t = {} THEN 0 ELSE f[Any(t)] + SumFunctionOnSet(f, t \ {Any(t)})
      /\ SumFunctionOnSet(g, t) =
           IF t = {} THEN 0 ELSE g[Any(t)] + SumFunctionOnSet(g, t \ {Any(t)})
  BY <1>2, SumOneByOne
<1>4. t # {}
  BY <1>3
<1>5. Any(t) \in t
  BY <1>4 DEF Any
<1>6. SumFunctionOnSet(f, t \ {Any(t)}) = SumFunctionOnSet(g, t \ {Any(t)})
  BY <1>1, <1>5
<1> QED BY <1>3, <1>4, <1>5, <1>6

\* The sum moves with one of its terms.
LEMMA SumMoves ==
    ASSUME NEW f, NEW g, NEW S, IsFiniteSet(S), NEW x \in S,
           \A y \in S : f[y] \in Int /\ g[y] \in Int,
           \A y \in S : y # x => g[y] = f[y]
    PROVE  SumFunctionOnSet(g, S) = SumFunctionOnSet(f, S) + g[x] - f[x]
<1>1. IsFiniteSet(S \ {x})
  BY FS_Subset
<1>2. SumFunctionOnSet(g, S \ {x}) = SumFunctionOnSet(f, S \ {x})
  BY <1>1, SumSame
<1>3. SumFunctionOnSet(f, S \ {x}) \in Int
  BY <1>1, SumInt
<1>4. /\ SumFunctionOnSet(f, S) = f[x] + SumFunctionOnSet(f, S \ {x})
      /\ SumFunctionOnSet(g, S) = g[x] + SumFunctionOnSet(g, S \ {x})
  BY SumWithout
<1> QED BY <1>2, <1>3, <1>4

\* A new element adds its term.
LEMMA SumWith ==
    ASSUME NEW f, NEW S, IsFiniteSet(S), NEW x, x \notin S,
           \A y \in S \cup {x} : f[y] \in Int
    PROVE  SumFunctionOnSet(f, S \cup {x}) = SumFunctionOnSet(f, S) + f[x]
<1> DEFINE T == S \cup {x}
<1>1. IsFiniteSet(T) /\ x \in T /\ T \ {x} = S
  BY FS_AddElement
<1>2. SumFunctionOnSet(f, T) = f[x] + SumFunctionOnSet(f, S)
  <2> HIDE DEF T
  <2>1. SumFunctionOnSet(f, T) = f[x] + SumFunctionOnSet(f, T \ {x})
    BY <1>1, SumWithout DEF T
  <2> QED BY <1>1, <2>1
<1>3. SumFunctionOnSet(f, S) \in Int
  BY SumInt
<1> QED BY <1>2, <1>3

\* Terms that are all 0 add up to 0.
LEMMA SumZero ==
    ASSUME NEW f, NEW S, IsFiniteSet(S), \A x \in S : f[x] = 0
    PROVE  SumFunctionOnSet(f, S) = 0
<1> DEFINE B == {t \in SUBSET S : SumFunctionOnSet(f, t) # 0}
<1> SUFFICES ASSUME B # {} PROVE FALSE
  OBVIOUS
<1>1. PICK t \in B : \A u \in B : u \subseteq t => u = t
  <2>1. B \in SUBSET SUBSET S
    OBVIOUS
  <2> HIDE DEF B
  <2> QED BY <2>1, SmallestSet
<1>2. SumFunctionOnSet(f, t) =
        IF t = {} THEN 0 ELSE f[Any(t)] + SumFunctionOnSet(f, t \ {Any(t)})
  <2>1. IsFiniteSet(t)
    BY FS_Subset
  <2> QED BY <2>1, SumOneByOne
<1>3. t # {}
  BY <1>2
<1>4. Any(t) \in t
  BY <1>3 DEF Any
<1>5. SumFunctionOnSet(f, t \ {Any(t)}) = 0
  BY <1>1, <1>4
<1> QED BY <1>2, <1>3, <1>4, <1>5
=============================================================================

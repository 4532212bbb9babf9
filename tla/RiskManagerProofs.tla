------------------------- MODULE RiskManagerProofs -------------------------
(***************************************************************************)
(* Proofs about RiskManager for every limit, every set of equities and     *)
(* prices and every bound: its types, that the breaker is tripped exactly  *)
(* when the day's readings lost the limit, and that no decision is         *)
(* approved outside the limits.                                            *)
(*                                                                         *)
(* HaltExactly is not inductive: it says nothing of the baseline the next  *)
(* check is compared with.  Baseline ties the manager's fields to the      *)
(* history -- its day is that of the latest reading, its start the equity  *)
(* of that day's first reading -- and Chronological says that no reading   *)
(* is later than today or than a reading that follows it, so the first     *)
(* check after midnight is the first of its day.                           *)
(***************************************************************************)
EXTENDS RiskManager, SharedLemmas

Chronological ==
    \A i \in DOMAIN readings :
        /\ readings[i].day <= today
        /\ readings[i].day >= 1
        /\ \A j \in DOMAIN readings : i <= j => readings[i].day <= readings[j].day

Baseline ==
    IF readings = <<>>
    THEN risk = NewRisk
    ELSE /\ risk.day = readings[Len(readings)].day
         /\ \E i \in DOMAIN readings :
               IsFirstOfDay(i) /\ risk.start = readings[i].equity

IInv ==
    /\ TypeOK
    /\ Chronological
    /\ Baseline
    /\ HaltExactly
    /\ ApprovedWithinLimits

\* The code's division, cross-multiplied, is the loss the properties speak of.
LEMMA BreachIsLoss ==
    ASSUME NEW s \in Nat, NEW e \in Nat
    PROVE  Breaches(s, e) <=> LosesTheLimit(s, e)
<1>1. MaxDailyDrawdownPct * s \in Int
  BY RiskAssumption
<1>2. (s - e) * 100 = 100 * (s - e)
  OBVIOUS
<1> QED BY <1>1, <1>2 DEF Breaches, LosesTheLimit

LEMMA InitIInv == Init => IInv
<1> SUFFICES ASSUME Init PROVE IInv
  OBVIOUS
<1>1. risk \in RiskState /\ asked \in Question /\ verdict \in Verdicts
  BY DEF Init, NewRisk, RiskState, NotAsked, Question, Signals, Unasked, Veto, Verdicts
<1>2. ~LostTheLimit
  BY DEF Init, LostTheLimit
<1> QED BY <1>1, <1>2 DEF Init, IInv, TypeOK, Chronological, Baseline, HaltExactly,
           ApprovedWithinLimits, NewRisk, Unasked, Veto

(***************************************************************************)
(* A check keeps the history of the breaker exact.  The first check of a   *)
(* day starts the day over; a later one adds one reading to the day.       *)
(***************************************************************************)
LEMMA CheckIInv ==
    ASSUME IInv, NEW equity \in Equities, Check(equity)
    PROVE  IInv'
<1> USE DEF IInv
<1>0. /\ equity \in Nat
      /\ risk' = CheckDrawdown(risk, today, equity)
      /\ readings' = Append(readings, [day |-> today, equity |-> equity])
      /\ asked' = NotAsked /\ verdict' = Unasked /\ today' = today
  BY ManagerAssumption DEF Check
<1>1. /\ readings \in Seq(Reading) /\ today \in Nat \ {0} /\ risk \in RiskState
      /\ Len(readings) \in Nat
  BY DEF TypeOK
<1> PICK new \in Nat \ {0} : new = Len(readings) + 1
  BY <1>1
<1> PICK r \in Reading : r = [day |-> today, equity |-> equity]
  BY <1>0, <1>1 DEF Reading
<1>2. /\ DOMAIN readings = 1 .. Len(readings)
      /\ DOMAIN readings' = 1 .. new
      /\ readings'[new] = [day |-> today, equity |-> equity]
      /\ \A i \in 1 .. Len(readings) : readings'[i] = readings[i]
      /\ readings' \in Seq(Reading)
      /\ Len(readings') = new
      /\ \A i \in 1 .. Len(readings) : readings[i] \in Reading
  <2>1. readings' = Append(readings, r)
    BY <1>0
  <2> QED BY <1>1, <2>1
<1>3. risk' \in RiskState
  BY <1>0, <1>1, CheckDrawdownType
<1>4. TypeOK'
  BY <1>0, <1>1, <1>2, <1>3 DEF TypeOK, NotAsked, Question, Signals, Unasked, Veto, Verdicts
<1>5. Chronological'
  <2> SUFFICES ASSUME NEW i \in 1 .. new
               PROVE  /\ readings'[i].day <= today /\ readings'[i].day >= 1
                      /\ \A j \in 1 .. new :
                            i <= j => readings'[i].day <= readings'[j].day
    BY <1>0, <1>2 DEF Chronological
  <2>a. readings'[new].day = today /\ \A j \in 1 .. new : i = new /\ i <= j => j = new
    BY <1>1, <1>2
  <2>1. CASE i = new
    BY <1>1, <2>1, <2>a
  <2>2. CASE i \in 1 .. Len(readings)
    <3>1. readings[i].day <= today /\ readings[i].day >= 1
      BY <1>2, <2>2 DEF Chronological
    <3>2. ASSUME NEW j \in 1 .. new, i <= j PROVE readings'[i].day <= readings'[j].day
      BY <1>1, <1>2, <2>2, <2>a, <3>1, <3>2 DEF Chronological
    <3> QED BY <1>2, <2>2, <3>1, <3>2
  <2> QED BY <1>1, <2>1, <2>2
<1>6. readings' # <<>>
  BY <1>1, <1>2
<1>7. CASE risk.day = today
  <2>1. RollDay(risk, today, equity) = risk
    BY <1>7 DEF RollDay
  <2>2. /\ risk'.day = today /\ risk'.start = risk.start
        /\ risk'.halted <=> (risk.halted \/ Breaches(risk.start, equity))
    BY <1>0, <1>1, <1>7, <2>1 DEF CheckDrawdown, RiskState
  <2>3. readings # <<>>
    BY <1>1, <1>7 DEF Baseline, NewRisk
  <2>4. PICK f \in 1 .. Len(readings) : IsFirstOfDay(f) /\ risk.start = readings[f].equity
    BY <1>2, <2>3 DEF Baseline
  <2>5. \A i \in 1 .. Len(readings) : IsFirstOfDay(i)' <=> IsFirstOfDay(i)
    BY <1>1, <1>2, <1>7, <2>2 DEF IsFirstOfDay
  <2>6. ~IsFirstOfDay(new)'
    BY <1>1, <1>2, <1>7, <2>2, <2>4 DEF IsFirstOfDay
  <2>7. \A i \in 1 .. Len(readings) : IsFirstOfDay(i) => i = f
    BY <1>1, <2>4 DEF IsFirstOfDay
  <2>8. Baseline'
    BY <1>2, <1>6, <2>2, <2>4, <2>5 DEF Baseline
  <2>9. LostTheLimit' <=> LostTheLimit \/ LosesTheLimit(risk.start, equity)
    <3>1. ASSUME LostTheLimit' PROVE LostTheLimit \/ LosesTheLimit(risk.start, equity)
      <4>1. PICK i \in 1 .. new, j \in 1 .. new :
                /\ i <= j
                /\ IsFirstOfDay(i)'
                /\ readings'[j].day = risk'.day
                /\ LosesTheLimit(readings'[i].equity, readings'[j].equity)
        BY <1>2, <3>1 DEF LostTheLimit, LosesTheLimit
      <4>2. i \in 1 .. Len(readings) /\ i = f
        BY <1>1, <2>5, <2>6, <2>7, <4>1
      <4>3. CASE j = new
        BY <1>2, <2>4, <4>1, <4>2, <4>3
      <4>4. CASE j \in 1 .. Len(readings)
        BY <1>2, <1>7, <2>2, <2>5, <4>1, <4>2, <4>4 DEF LostTheLimit
      <4> QED BY <1>1, <4>1, <4>3, <4>4
    <3>2. ASSUME LostTheLimit PROVE LostTheLimit'
      <4>1. PICK i \in 1 .. Len(readings), j \in 1 .. Len(readings) :
                /\ i <= j
                /\ IsFirstOfDay(i)
                /\ readings[j].day = risk.day
                /\ LosesTheLimit(readings[i].equity, readings[j].equity)
        BY <1>2, <3>2 DEF LostTheLimit
      <4>2. /\ i \in DOMAIN readings' /\ j \in DOMAIN readings'
            /\ IsFirstOfDay(i)'
            /\ readings'[j].day = risk'.day
            /\ LosesTheLimit(readings'[i].equity, readings'[j].equity)
        BY <1>1, <1>2, <1>7, <2>2, <2>5, <4>1
      <4> QED BY <4>1, <4>2 DEF LostTheLimit, LosesTheLimit
    <3>3. ASSUME LosesTheLimit(risk.start, equity) PROVE LostTheLimit'
      <4>1. /\ f \in DOMAIN readings' /\ new \in DOMAIN readings' /\ f <= new
            /\ IsFirstOfDay(f)'
            /\ readings'[new].day = risk'.day
            /\ LosesTheLimit(readings'[f].equity, readings'[new].equity)
        BY <1>1, <1>2, <1>7, <2>2, <2>4, <2>5, <3>3
      <4> QED BY <4>1 DEF LostTheLimit, LosesTheLimit
    <3> QED BY <3>1, <3>2, <3>3
  <2>10. Breaches(risk.start, equity) <=> LosesTheLimit(risk.start, equity)
    BY <1>0, <1>1, BreachIsLoss DEF RiskState
  <2>11. HaltExactly'
    BY <2>2, <2>9, <2>10 DEF HaltExactly
  <2> QED BY <1>0, <1>4, <1>5, <2>8, <2>11 DEF ApprovedWithinLimits, Unasked, Veto
<1>8. CASE risk.day # today
  <2>1. RollDay(risk, today, equity) = [day |-> today, start |-> equity, halted |-> FALSE]
    BY <1>8 DEF RollDay
  <2>2. /\ risk'.day = today /\ risk'.start = equity
        /\ risk'.halted <=> Breaches(equity, equity)
    BY <1>0, <2>1 DEF CheckDrawdown
  <2>3. ASSUME NEW i \in 1 .. Len(readings) PROVE readings[i].day # today
    <3>1. /\ Len(readings) \in DOMAIN readings /\ i \in DOMAIN readings /\ i <= Len(readings)
          /\ readings # <<>>
      BY <1>1, <1>2
    <3>2. risk.day = readings[Len(readings)].day
      BY <3>1 DEF Baseline
    <3>3. readings[i].day <= risk.day /\ risk.day <= today
      BY <3>1, <3>2 DEF Chronological
    <3> QED BY <1>1, <1>2, <1>8, <3>3 DEF Reading, RiskState
  <2>4. IsFirstOfDay(new)' /\ \A i \in 1 .. Len(readings) : readings'[i].day # risk'.day
    BY <1>1, <1>2, <2>2, <2>3 DEF IsFirstOfDay
  <2>5. Baseline'
    BY <1>1, <1>2, <1>6, <2>2, <2>4 DEF Baseline
  <2>6. LostTheLimit' <=> LosesTheLimit(equity, equity)
    BY <1>1, <1>2, <2>2, <2>4 DEF LostTheLimit, IsFirstOfDay, LosesTheLimit
  <2>7. HaltExactly'
    BY <1>0, <2>2, <2>6, BreachIsLoss DEF HaltExactly
  <2> QED BY <1>0, <1>4, <1>5, <2>5, <2>7 DEF ApprovedWithinLimits, Unasked, Veto
<1> QED BY <1>7, <1>8

LEMMA AskIInv ==
    ASSUME IInv, NEW signal \in Signals, NEW price \in Prices,
           NEW entry \in Prices \cup {0}, Ask(signal, price, entry)
    PROVE  IInv'
<1> DEFINE equity == readings[Len(readings)].equity
<1>1. /\ asked' = [signal |-> signal, equity |-> equity, price |-> price, entry |-> entry]
      /\ verdict' \in Evaluate(risk, signal, equity, price, entry)
      /\ readings # <<>>
      /\ today' = today /\ risk' = risk /\ readings' = readings
  BY DEF Ask, Last
<1>2. TypeOK /\ Chronological /\ Baseline /\ HaltExactly
  BY DEF IInv
<1>3. equity \in Nat /\ price \in Nat /\ entry \in Nat /\ risk \in RiskState
  <2>1. readings \in Seq(Reading) /\ Len(readings) \in 1 .. Len(readings)
    BY <1>1, <1>2 DEF TypeOK
  <2>2. readings[Len(readings)] \in Reading
    BY <2>1
  <2> QED BY <1>2, <2>2, ManagerAssumption DEF TypeOK, Reading
<1> HIDE DEF equity
<1>4. /\ verdict' \in Verdicts
      /\ verdict'.approved => ~risk.halted
      /\ verdict'.approved /\ signal = "buy" =>
            /\ verdict'.amount > 0
            /\ verdict'.amount * price * 100 <= equity * MaxPositionPct
  BY <1>1, <1>3, EvaluateVerdicts
<1>5. TypeOK'
  BY <1>1, <1>2, <1>3, <1>4 DEF TypeOK, Question
<1>6. /\ Chronological' /\ Baseline' /\ HaltExactly'
      /\ LostTheLimit' <=> LostTheLimit
  BY <1>1, <1>2 DEF Chronological, Baseline, HaltExactly, LostTheLimit, IsFirstOfDay
<1>7. /\ asked'.signal = signal /\ asked'.price = price /\ asked'.equity = equity
  BY <1>1
<1>8. ApprovedWithinLimits'
  BY <1>2, <1>4, <1>6, <1>7 DEF ApprovedWithinLimits, HaltExactly
<1> QED BY <1>5, <1>6, <1>8 DEF IInv

LEMMA NextDayIInv ==
    ASSUME IInv, NextDay
    PROVE  IInv'
<1>1. today' = today + 1 /\ UNCHANGED <<risk, asked, verdict, readings>> /\ today \in Nat
  BY DEF NextDay, IInv, TypeOK
<1>2. TypeOK'
  BY <1>1 DEF IInv, TypeOK
<1>3. Chronological'
  <2>1. readings \in Seq(Reading) /\ Chronological
    BY DEF IInv, TypeOK
  <2> SUFFICES ASSUME NEW i \in DOMAIN readings PROVE readings[i].day <= today + 1
    BY <1>1, <2>1 DEF Chronological
  <2>2. readings[i] \in Reading /\ readings[i].day <= today
    BY <2>1 DEF Chronological
  <2> QED BY <1>1, <2>2 DEF Reading
<1>4. Baseline' /\ HaltExactly' /\ ApprovedWithinLimits'
  BY <1>1 DEF IInv, Baseline, HaltExactly, ApprovedWithinLimits, LostTheLimit, IsFirstOfDay
<1> QED BY <1>2, <1>3, <1>4 DEF IInv

THEOREM Invariance == Spec => []IInv
<1>1. Init => IInv
  BY InitIInv
<1>2. IInv /\ [Next]_vars => IInv'
  <2> SUFFICES ASSUME IInv, [Next]_vars PROVE IInv'
    OBVIOUS
  <2>1. CASE CheckSome
    BY <2>1, CheckIInv DEF CheckSome
  <2>2. CASE AskSome
    BY <2>2, AskIInv DEF AskSome
  <2>3. CASE NextDay
    BY <2>3, NextDayIInv
  <2>4. CASE UNCHANGED vars
    BY <2>4 DEF vars, IInv, TypeOK, Chronological, Baseline, HaltExactly,
                ApprovedWithinLimits, LostTheLimit, IsFirstOfDay
  <2> QED BY <2>1, <2>2, <2>3, <2>4 DEF Next
<1> QED BY <1>1, <1>2, PTL DEF Spec

(***************************************************************************)
(* Type correctness: whatever the limits and the readings, the manager's   *)
(* fields keep the shape risk.py:29-32 declares.                           *)
(***************************************************************************)
THEOREM TypeCorrect == Spec => []TypeOK
<1>1. IInv => TypeOK
  BY DEF IInv
<1> QED BY <1>1, Invariance, PTL

(***************************************************************************)
(* The breaker is halted if and only if some reading of its day lost the   *)
(* daily limit against the day's first reading (risk.py:34-53).            *)
(***************************************************************************)
THEOREM BreakerExact == Spec => []HaltExactly
<1>1. IInv => HaltExactly
  BY DEF IInv
<1> QED BY <1>1, Invariance, PTL

(***************************************************************************)
(* Nothing is approved on a day that has lost the limit, and no approved   *)
(* BUY exceeds the position limit (risk.py:70-90).                         *)
(***************************************************************************)
THEOREM ApprovalsWithinLimits == Spec => []ApprovedWithinLimits
<1>1. IInv => ApprovedWithinLimits
  BY DEF IInv
<1> QED BY <1>1, Invariance, PTL
============================================================================

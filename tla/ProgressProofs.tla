--------------------------- MODULE ProgressProofs ---------------------------
(***************************************************************************)
(* Proofs about Progress for any threads, any number of steps and any      *)
(* scale.                                                                  *)
(***************************************************************************)
EXTENDS Progress, TLAPS

-----------------------------------------------------------------------------
(* The percentage as a function of the number of steps. *)

LEMMA DivisionMonotone ==
    ASSUME NEW a \in Nat, NEW b \in Nat, NEW s \in Nat \ {0}, a <= b
    PROVE  a \div s <= b \div s
<1> DEFINE p == a \div s  q == b \div s
<1>1. p \in Int /\ q \in Int /\ s * p <= a /\ b < s * q + s
  BY SMT
<1>2. SUFFICES ASSUME q + 1 <= p PROVE FALSE
  BY <1>1
<1>3. s * (q + 1) <= s * p
  BY <1>1, <1>2, SMT
<1>4. s * (q + 1) = s * q + s
  BY <1>1, SMT
<1> HIDE DEF p, q
<1> QED
  BY <1>1, <1>3, <1>4

LEMMA ProductMonotone ==
    ASSUME NEW h \in Nat, NEW m \in Nat, NEW n \in Nat, m <= n
    PROVE  h * m \in Nat /\ h * n \in Nat /\ h * m <= h * n
  BY SMT

LEMMA ExactDivision ==
    ASSUME NEW h \in Nat, NEW s \in Nat \ {0}
    PROVE  (h * s) \div s = h
<1> DEFINE q == (h * s) \div s
<1>1. q \in Int /\ s * q <= h * s /\ h * s < s * q + s
  BY SMT
<1>2. q <= h
  <2>1. SUFFICES ASSUME h + 1 <= q PROVE FALSE
    BY <1>1
  <2>2. s * (h + 1) <= s * q
    BY <1>1, <2>1, SMT
  <2> QED
    BY <1>1, <2>2, SMT
<1>3. h <= q
  <2>1. SUFFICES ASSUME q + 1 <= h PROVE FALSE
    BY <1>1
  <2>2. s * (q + 1) <= s * h
    BY <1>1, <2>1, SMT
  <2> QED
    BY <1>1, <2>2, SMT
<1> QED
  BY <1>1, <1>2, <1>3

\* More steps never make a smaller percentage, and all steps make Hundred.
LEMMA PercentMonotone ==
    ASSUME NEW m \in Nat, NEW n \in 0 .. StepCount, m <= n
    PROVE  /\ Percent(m) \in Percentages /\ Percent(n) \in Percentages
           /\ Percent(m) <= Percent(n)
<1> USE StepCountAssumption, HundredAssumption
<1>1. Hundred * m <= Hundred * n /\ Hundred * n <= Hundred * StepCount
  BY ProductMonotone
<1>2. /\ Hundred * m \in Nat /\ Hundred * n \in Nat /\ Hundred * StepCount \in Nat
      /\ 0 <= Hundred * m
  BY ProductMonotone
<1>3. /\ Percent(m) <= Percent(n) /\ Percent(n) <= Percent(StepCount)
      /\ 0 \div StepCount <= Percent(m)
  BY <1>1, <1>2, DivisionMonotone DEF Percent
<1>4. Percent(StepCount) = Hundred
  BY ExactDivision DEF Percent
<1>5. 0 \div StepCount = 0 /\ Percent(m) \in Int /\ Percent(n) \in Int
  BY <1>2, SMT DEF Percent
<1> QED
  BY <1>3, <1>4, <1>5 DEF Percentages

LEMMA PercentOfNothing == Percent(0) = 0 /\ 0 \in Percentages
  BY StepCountAssumption, HundredAssumption, SMT DEF Percent, Percentages
-----------------------------------------------------------------------------
(* The inductive invariant. *)

\* No thread is ahead of the steps reported, and what a thread has loaded is
\* not ahead of the percentage.
Bounded ==
    /\ percentage <= Percent(currentStep)
    /\ \A w \in Workers : new[w] <= Percent(currentStep)
    /\ \A w \in Workers : pc[w] = "exchange" => old[w] <= percentage

\* Either the percentage is that of the steps reported, or a thread is on its
\* way that will raise it.
UnderWay ==
    percentage = Percent(currentStep) \/
        \E w \in Workers : pc[w] \in {"load", "exchange"} /\ new[w] = Percent(currentStep)

\* A value has been emitted, or is to be emitted by one thread, or neither;
\* the latter holds for every value above the percentage.
Emission ==
    /\ \A v \in Percentages : emitted[v] <= 1
    /\ \A v \in Percentages : emitted[v] # 0 => v <= percentage
    /\ \A w \in Workers : pc[w] = "emit" => new[w] <= percentage /\ emitted[new[w]] = 0
    /\ \A w, x \in Workers : pc[w] = "emit" /\ pc[x] = "emit" /\ new[w] = new[x] => w = x

\* The value of the percentage itself has been emitted or will be.
Announced ==
    percentage > 0 => emitted[percentage] = 1 \/
        \E w \in Workers : pc[w] = "emit" /\ new[w] = percentage

IInv == TypeOK /\ Bounded /\ UnderWay /\ Emission /\ Announced

LEMMA Initially == Init => IInv
<1> USE DEF Init, IInv, TypeOK
<1>1. ASSUME Init PROVE TypeOK /\ Bounded /\ UnderWay /\ Emission /\ Announced
  BY <1>1, PercentOfNothing, StepCountAssumption, HundredAssumption
     DEF Bounded, UnderWay, Emission, Announced
<1> QED
  BY <1>1

LEMMA FetchAddKeeps ==
    ASSUME IInv, NEW w \in Workers, FetchAdd(w)
    PROVE  IInv'
<1> DEFINE p == Percent(currentStep)  n == Percent(currentStep + 1)
<1> USE DEF IInv, TypeOK, FetchAdd, Goto
<1>1. currentStep \in Nat /\ currentStep + 1 \in 0 .. StepCount
  BY StepCountAssumption
<1>2. p \in Percentages /\ n \in Percentages /\ p <= n
  BY <1>1, PercentMonotone
<1>3. p \in Int /\ n \in Int
  BY <1>2, HundredAssumption DEF Percentages
<1>4. new' = [new EXCEPT ![w] = n] /\ Percent(currentStep)' = n /\ pc[w] = "idle"
  BY DEF Percent
<1> HIDE DEF p, n
<1>5. TypeOK'
  BY <1>1, <1>2, <1>4
<1>6. Bounded'
  BY <1>2, <1>3, <1>4, HundredAssumption DEF Bounded, Percentages, p
<1>7. UnderWay'
  BY <1>4, <1>5 DEF UnderWay
<1>8. Emission' /\ Announced'
  BY <1>4 DEF Emission, Announced
<1> QED
  BY <1>5, <1>6, <1>7, <1>8

LEMMA LoadKeeps ==
    ASSUME IInv, NEW w \in Workers, Load(w)
    PROVE  IInv'
<1> USE DEF IInv, TypeOK, Load, Goto
<1>1. TypeOK'
  OBVIOUS
<1>2. Percent(currentStep)' = Percent(currentStep)
  BY DEF Percent
<1>3. Bounded'
  BY <1>2, HundredAssumption DEF Bounded, Percentages
<1>4. UnderWay'
  BY <1>2 DEF UnderWay
<1>5. Emission' /\ Announced'
  BY DEF Emission, Announced
<1> QED
  BY <1>1, <1>3, <1>4, <1>5

LEMMA SkipKeeps ==
    ASSUME IInv, NEW w \in Workers, Skip(w)
    PROVE  IInv'
<1> USE DEF IInv, TypeOK, Skip, Goto
<1>1. TypeOK'
  OBVIOUS
<1>2. Percent(currentStep)' = Percent(currentStep)
  BY DEF Percent
<1>3. Bounded'
  BY <1>2 DEF Bounded
\* If the thread that gives up was the one on its way, another was faster.
<1>4. percentage \in Int /\ new[w] \in Int /\ old[w] \in Int /\ Percent(currentStep) \in Int
  BY PercentMonotone, StepCountAssumption, HundredAssumption DEF Percentages
<1>5. new[w] = Percent(currentStep) => percentage = Percent(currentStep)
  BY <1>4 DEF Bounded
<1>6. UnderWay'
  BY <1>2, <1>5 DEF UnderWay
<1>7. Emission' /\ Announced'
  BY DEF Emission, Announced
<1> QED
  BY <1>1, <1>3, <1>6, <1>7

LEMMA ExchangeKeeps ==
    ASSUME IInv, NEW w \in Workers, Exchange(w)
    PROVE  IInv'
<1> USE DEF IInv, TypeOK, Exchange, ExchangeMatches, Goto
<1>1. TypeOK'
  OBVIOUS
<1>2. Percent(currentStep)' = Percent(currentStep)
  BY DEF Percent
<1>3. /\ percentage \in Int /\ Percent(currentStep) \in Int
      /\ \A x \in Workers : new[x] \in Int /\ old[x] \in Int
  BY PercentMonotone, StepCountAssumption, HundredAssumption DEF Percentages
<1>4. percentage < new[w] /\ percentage' = new[w] /\ new[w] <= Percent(currentStep)
  BY DEF Bounded
<1>5. Bounded'
  BY <1>2, <1>3, <1>4 DEF Bounded
\* Whoever else is under way stays so; the thread itself has arrived.
<1>6. UnderWay'
  BY <1>2, <1>3, <1>4 DEF UnderWay, Bounded
<1>7. new[w] \in Percentages /\ emitted[new[w]] = 0 /\ \A x \in Workers : pc[x] = "emit" => new[x] # new[w]
  BY <1>3, <1>4 DEF Emission
<1>8. Emission'
  <2>1. \A v \in Percentages : emitted[v] <= 1
    BY DEF Emission
  <2>2. \A v \in Percentages : emitted[v] # 0 => v <= new[w]
    BY <1>3, <1>4, HundredAssumption DEF Emission, Percentages
  <2>3. \A x \in Workers : pc'[x] = "emit" => new[x] <= new[w] /\ emitted[new[x]] = 0
    BY <1>3, <1>4, <1>7 DEF Emission
  <2>4. \A x, y \in Workers : pc'[x] = "emit" /\ pc'[y] = "emit" /\ new[x] = new[y] => x = y
    BY <1>7 DEF Emission
  <2> QED
    BY <1>4, <2>1, <2>2, <2>3, <2>4 DEF Emission
<1>9. Announced'
  BY <1>4 DEF Announced
<1> QED
  BY <1>1, <1>5, <1>6, <1>8, <1>9

LEMMA ExchangeFailsKeeps ==
    ASSUME IInv, NEW w \in Workers, ExchangeFails(w)
    PROVE  IInv'
<1> USE DEF IInv, TypeOK, ExchangeFails, Again, Goto
<1>1. TypeOK'
  OBVIOUS
<1>2. Percent(currentStep)' = Percent(currentStep)
  BY DEF Percent
<1>3. Bounded'
  BY <1>2, HundredAssumption DEF Bounded, Percentages
<1>4. UnderWay'
  BY <1>2 DEF UnderWay
<1>5. Emission' /\ Announced'
  BY DEF Emission, Announced
<1> QED
  BY <1>1, <1>3, <1>4, <1>5

LEMMA EmitKeeps ==
    ASSUME IInv, NEW w \in Workers, Emit(w)
    PROVE  IInv'
<1> USE DEF IInv, TypeOK, Emit, Goto
<1>1. /\ new[w] \in Percentages /\ emitted[new[w]] = 0
      /\ emitted' = [emitted EXCEPT ![new[w]] = 1]
  <2>1. new[w] \in Percentages /\ emitted[new[w]] = 0 /\ pc[w] = "emit"
    BY DEF Emission
  <2>2. emitted[new[w]] + 1 = 1
    BY <2>1
  <2> QED
    BY <2>1, <2>2
<1>2. TypeOK'
  BY <1>1
<1>3. Percent(currentStep)' = Percent(currentStep)
  BY DEF Percent
<1>4. Bounded'
  BY <1>3 DEF Bounded
<1>5. UnderWay'
  BY <1>3 DEF UnderWay
<1>6. Emission'
  BY <1>1 DEF Emission
<1>7. Announced'
  BY <1>1 DEF Announced
<1> QED
  BY <1>2, <1>4, <1>5, <1>6, <1>7

LEMMA StepKeeps == IInv /\ [Next]_vars => IInv'
<1> SUFFICES ASSUME IInv, [Next]_vars PROVE IInv'
  OBVIOUS
<1>1. CASE \E w \in Workers : FetchAdd(w)
  BY <1>1, FetchAddKeeps
<1>2. CASE \E w \in Workers : Continue(w)
  <2>1. PICK w \in Workers : Continue(w)
    BY <1>2
  <2> QED
    BY <2>1, LoadKeeps, SkipKeeps, ExchangeKeeps, ExchangeFailsKeeps, EmitKeeps DEF Continue
<1>3. CASE UNCHANGED vars
  BY <1>3 DEF vars, IInv, TypeOK, Bounded, UnderWay, Emission, Announced, Percent
<1> QED
  BY <1>1, <1>2, <1>3 DEF Next

-----------------------------------------------------------------------------
(* Theorems. *)

\* The invariant holds in every state.
THEOREM Invariance == Spec => []IInv
  BY Initially, StepKeeps, PTL DEF Spec

\* Members and locals of step() have their types: the percentage never
\* exceeds its scale, however many threads report at once.
THEOREM TypeCorrect == Spec => []TypeOK
<1>1. IInv => TypeOK
  BY DEF IInv
<1> QED
  BY <1>1, Invariance, PTL

\* The compare-and-exchange has one winner per value: no value is emitted
\* twice.
THEOREM OneWinner == Spec => []EmittedOnce
<1>1. IInv => EmittedOnce
  BY DEF IInv, Emission, EmittedOnce
<1> QED
  BY <1>1, Invariance, PTL

\* When no call is under way the percentage is that of all steps reported and
\* it was emitted: no thread's update is lost.
THEOREM NoLostUpdate == Spec => []NothingLost
<1>1. IInv => TypeOK
  BY DEF IInv
<1>2. ASSUME IInv, \A w \in Workers : pc[w] = "idle"
      PROVE  percentage = Percent(currentStep) /\ (percentage > 0 => emitted[percentage] = 1)
  BY <1>2 DEF IInv, UnderWay, Announced
<1>3. IInv => NothingLost
  BY <1>1, <1>2 DEF NothingLost
<1> QED
  BY <1>3, Invariance, PTL

\* The percentage never falls.
THEOREM NeverFalls == Spec => Monotone
<1>1. IInv /\ [Next]_vars => [percentage <= percentage']_vars
  <2> SUFFICES ASSUME IInv, Next PROVE percentage <= percentage'
    OBVIOUS
  <2>1. percentage \in Int /\ \A w \in Workers : old[w] \in Int /\ new[w] \in Int
    BY HundredAssumption DEF IInv, TypeOK, Percentages
  <2>2. PICK w \in Workers : FetchAdd(w) \/ Continue(w)
    BY DEF Next
  <2> QED
    BY <2>1, <2>2 DEF FetchAdd, Continue, Load, Skip, Exchange, ExchangeMatches, ExchangeFails, Emit
<1> QED
  BY <1>1, Invariance, PTL DEF Spec, Monotone
=============================================================================

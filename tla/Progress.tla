------------------------------ MODULE Progress ------------------------------
(***************************************************************************)
(* PDFProgress (pdfprogress.h/.cpp): threads report finished steps, the    *)
(* percentage is raised with a compare-and-exchange loop, and the thread   *)
(* that raised it emits progressStep.                                      *)
(*                                                                         *)
(* Each access to an atomic is a step of its own.  A spurious failure of   *)
(* compare_exchange_weak reloads the same value: it is a stuttering step.  *)
(***************************************************************************)
EXTENDS Integers

CONSTANTS
    Workers,     \* threads that call step()
    StepCount,   \* m_stepCount
    Hundred      \* 100 in the code; instances may have a coarser scale, so
                 \* that few steps suffice for several to share a percentage

ASSUME StepCountAssumption == StepCount \in Nat \ {0}
ASSUME HundredAssumption == Hundred \in Nat \ {0}

VARIABLES
    currentStep, \* m_currentStep
    percentage,  \* m_percentage
    pc,          \* worker -> where it is in step()
    new,         \* worker -> newPercentage
    old,         \* worker -> oldPercentage
    emitted      \* value -> how often progressStep was emitted with it

vars == <<currentStep, percentage, pc, new, old, emitted>>

Percentages == 0 .. Hundred
Percent(n) == (Hundred * n) \div StepCount

\* start(): the members are reset, progressStarted is emitted.
Init ==
    /\ currentStep = 0 /\ percentage = 0
    /\ pc = [w \in Workers |-> "idle"]
    /\ new = [w \in Workers |-> 0] /\ old = [w \in Workers |-> 0]
    /\ emitted = [v \in Percentages |-> 0]

Goto(w, from, to) == pc[w] = from /\ pc' = [pc EXCEPT ![w] = to]

\* fetch_add(1) + 1; the caller reports at most StepCount steps.
FetchAdd(w) ==
    /\ currentStep < StepCount
    /\ Goto(w, "idle", "load")
    /\ currentStep' = currentStep + 1
    /\ new' = [new EXCEPT ![w] = Percent(currentStep + 1)]
    /\ UNCHANGED <<percentage, old, emitted>>

Load(w) ==
    /\ Goto(w, "load", "exchange")
    /\ old' = [old EXCEPT ![w] = percentage]
    /\ UNCHANGED <<currentStep, percentage, new, emitted>>

\* The loop gives up: another thread has raised the percentage further.
Skip(w) ==
    /\ old[w] >= new[w]
    /\ Goto(w, "exchange", "idle")
    /\ UNCHANGED <<currentStep, percentage, new, old, emitted>>

ExchangeBlind(w) == TRUE              \* mutant: a plain store
ExchangeMatches(w) == percentage = old[w]

Exchange(w) ==
    /\ old[w] < new[w] /\ ExchangeMatches(w)
    /\ Goto(w, "exchange", "emit")
    /\ percentage' = new[w]
    /\ UNCHANGED <<currentStep, new, old, emitted>>

\* mutant: a failed exchange is not repeated
GiveUp == "idle"
Again == "exchange"

ExchangeFails(w) ==
    /\ old[w] < new[w] /\ percentage # old[w]
    /\ Goto(w, "exchange", Again)
    /\ old' = [old EXCEPT ![w] = percentage]
    /\ UNCHANGED <<currentStep, percentage, new, emitted>>

Emit(w) ==
    /\ Goto(w, "emit", "idle")
    /\ emitted' = [emitted EXCEPT ![new[w]] = @ + 1]
    /\ UNCHANGED <<currentStep, percentage, new, old>>

\* step() after its first access.
Continue(w) == Load(w) \/ Skip(w) \/ Exchange(w) \/ ExchangeFails(w) \/ Emit(w)

Next == \E w \in Workers : FetchAdd(w) \/ Continue(w)

Spec == Init /\ [][Next]_vars

-----------------------------------------------------------------------------
(* Properties. *)

\* Type invariant of PDFProgress and of the locals of step(): no thread takes
\* the percentage beyond its scale.
TypeOK ==
    /\ currentStep \in 0 .. StepCount /\ percentage \in Percentages
    /\ pc \in [Workers -> {"idle", "load", "exchange", "emit"}]
    /\ new \in [Workers -> Percentages] /\ old \in [Workers -> Percentages]
    /\ emitted \in [Percentages -> Nat]

\* No value of the percentage is emitted twice, however many threads reach
\* it together: the compare-and-exchange has one winner per value.
EmittedOnce == \A v \in Percentages : emitted[v] <= 1

\* No update is lost: once the calls under way have returned, the percentage
\* is that of the steps reported, and it has been emitted.
NothingLost ==
    /\ TypeOK
    /\ (\A w \in Workers : pc[w] = "idle") =>
           /\ percentage = Percent(currentStep)
           /\ percentage > 0 => emitted[percentage] = 1

\* The percentage never falls.
Monotone == [][percentage <= percentage']_vars
=============================================================================

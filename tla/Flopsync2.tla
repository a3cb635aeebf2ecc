------------------------------ MODULE Flopsync2 ------------------------------
(***************************************************************************)
(* The controller of the clock of a node: from the errors measured at the  *)
(* timesyncs it works out the correction for the next period and how large *)
(* a receiver window would cover the errors.  Times are in nanoseconds; u  *)
(* is kept multiplied by 512, errors are divided to prevent overflows, and *)
(* divisions are those of C.                                               *)
(*                                                                         *)
(* A controller is a record: init (the step of the first convergence), eo, *)
(* eoo, uo, uoo (the last two errors and corrections), sum, squareSum and  *)
(* count (samples for the variance) and dw (the window).                   *)
(***************************************************************************)
EXTENDS Integers

LOCAL Least(a, b) == IF a < b THEN a ELSE b
LOCAL Most(a, b) == IF a > b THEN a ELSE b

wMin == 50000
wMax == 6000000
numSamples == 5
controllerScaleFactor == 6
varianceScaleFactor == 300

\* Integer division of C, towards zero, by a positive number.
Quotient(a, b) == IF a >= 0 THEN a \div b ELSE -((-a) \div b)

Clamped(w) == Most(Least(w, wMax), wMin)

\* u out of its 512ths, to the nearest.
Quantized(u) ==
    Quotient(u + (IF u >= 0 THEN 256 ELSE -256), 512) * controllerScaleFactor

\* Flopsync2::reset
ResetController ==
    [init |-> 0, eo |-> 0, eoo |-> 0, uo |-> 0, uoo |-> 0,
     sum |-> 0, squareSum |-> 0, count |-> 0, dw |-> wMax]

\* Three steps of the Babylonian method.
StdDev(var) ==
    LET Step(s) == IF s > 0 THEN (s + var \div s) \div 2 ELSE s
    IN  Step(Step(Step(Quotient(var, 7))))

\* The first error measured: one step of a deadbeat controller.
Deadbeat(k, e) ==
    [k EXCEPT !.init = 1, !.eo = e, !.uo = 2 * 512 * e, !.uoo = 512 * e]

\* Mutant: the correction goes on as it was.
AfterDeadbeatAsBefore(k) ==
    IF k.init = 1 THEN [k EXCEPT !.init = 2, !.eo = 0] ELSE k

\* The second one, or a loss instead: the deadbeat correction, which makes up for
\* two periods, is halved.
AfterDeadbeat(k) ==
    IF k.init = 1 THEN [k EXCEPT !.init = 2, !.eo = 0, !.uo = Quotient(@, 2)] ELSE k

FirstWindow(k, error) ==
    IF k.init = 1
    THEN [k EXCEPT !.dw = Clamped(30 * error), !.sum = 0, !.squareSum = 0, !.count = 0]
    ELSE k

\* The controller with alpha = 3/8.
Controlled(k, e) ==
    [k EXCEPT !.uoo = k.uo, !.eoo = k.eo, !.eo = e,
              !.uo = 2 * k.uo - k.uoo + 960 * e - 1320 * k.eo + 485 * k.eoo]

\* One more sample, and from every few of them a window of three deviations.
Sampled(k, e) ==
    LET sum == k.sum + e
        squareSum == k.squareSum + e * e
        average == Quotient(sum, numSamples)
        threeSigma == Most(1, 3 * StdDev(squareSum \div numSamples - average * average))
    IN  IF k.count + 1 < numSamples
        THEN [k EXCEPT !.sum = sum, !.squareSum = squareSum, !.count = @ + 1]
        ELSE [k EXCEPT !.sum = 0, !.squareSum = 0, !.count = 0,
                       !.dw = Clamped(threeSigma * varianceScaleFactor)]

\* computeCorrection: the controller after an error, and the correction it gives.
ComputeCorrection(k, error) ==
    LET e == Quotient(error, controllerScaleFactor)
    IN  IF k.init = 0 THEN Deadbeat(k, e)
        ELSE Sampled(Controlled(AfterDeadbeat(FirstWindow(k, error)), e),
                     Quotient(error, varianceScaleFactor))

\* lostPacket: the correction stays, the window grows (by 1.7, here without the
\* rounding of floats).
LostPacket(k) == [AfterDeadbeat(k) EXCEPT !.dw = Least((17 * @) \div 10, wMax)]

\* getClockCorrection; it is also what computeCorrection returns, 2 * e after a
\* deadbeat step.
ClockCorrection(k) == Quantized(k.uo)
=============================================================================

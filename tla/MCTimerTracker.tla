--------------------------- MODULE MCTimerTracker ---------------------------
(***************************************************************************)
(* The timer wrappers under the page's own timer traffic.  Delays 0 and    *)
(* 150 (the zero delay and the debounce delay), lateness 0 or 60 ms (a     *)
(* throttled timer), ten firings of an interval so that its tenth-firing   *)
(* entry is logged.                                                        *)
(***************************************************************************)
EXTENDS TimerTracker, Driver

vars == <<logVars, timerVars>>

Init == LogInit /\ TimerInit

Spec == Init /\ [][TimerNext]_vars

(* Every timeout entry in the capture is classified by the driver's drift  *)
(* filter the way the spec defines drift.                                  *)
DriftClassified ==
    \A i \in 1..Len(logs) :
        logs[i].msg = "setTimeout fired" =>
            (IsDriftEvent(logs[i]) <=> DriftReference(logs[i]))
=============================================================================

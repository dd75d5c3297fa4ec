---------------------------- MODULE TimerTracker ----------------------------
(***************************************************************************)
(* TimerTracker of src/web/js/safari-montage-debug.js: window.setTimeout   *)
(* and window.setInterval replaced by wrappers that forward to the         *)
(* originals, remember the timer in TimerTracker.timers / .intervals and   *)
(* log from inside the forwarded callback.  clearTimeout and clearInterval *)
(* are not wrapped.                                                        *)
(*                                                                         *)
(* pending is the browser's list of timers (kind says whose callback it    *)
(* is, count is the wrapper closure's `count` of an interval), tracked is  *)
(* DOMAIN TimerTracker.timers, intervals is DOMAIN TimerTracker.intervals  *)
(* and runs counts the calls of each page callback (callback.apply).       *)
(***************************************************************************)
EXTENDS EventLog, Integers, TLC

CONSTANTS
    Delays,     \* delays the page passes to setTimeout / setInterval
    Lateness,   \* how late the browser may run a due timeout (ms)
    MaxTimers,  \* bound on the number of timers created
    MaxRuns     \* bound on the firings of one interval

VARIABLES pending, tracked, intervals, nextId, runs,
          asked   \* the page's handles: returned id -> the delay it asked for

timerVars == <<pending, tracked, intervals, nextId, runs, asked>>

TimerInit ==
    /\ pending = <<>>
    /\ tracked = {}
    /\ intervals = {}
    /\ nextId = 1
    /\ runs = <<>>
    /\ asked = <<>>

NewTimer(kind, d, rep) ==
    nextId :> [kind |-> kind, delay |-> d, repeat |-> rep, count |-> 0]

Without(f, id) == Restrict(f, DOMAIN f \ {id})

(* Mutant: a wrapper that forgets `return timerId` hands back undefined    *)
(* (-1 here; 0 stands for null).                                           *)
TimerReturnUndefined == -1

(* `return timerId` of both wrappers: the id the original returned.        *)
TimerReturn == nextId

(* The wrapped setTimeout(callback, delay): originalSetTimeout, then       *)
(* TimerTracker.timers.set(timerId, ...).  base is the timer list the call *)
(* starts from (a handler may clear a timer just before).                  *)
SetTimeoutW(kind, d, base) ==
    /\ nextId <= MaxTimers
    /\ pending' = NewTimer(kind, d, FALSE) @@ base
    /\ tracked' = tracked \cup {nextId}
    /\ runs' = (nextId :> 0) @@ runs
    /\ nextId' = nextId + 1
    /\ UNCHANGED intervals

(* The wrapped setInterval(callback, delay).                               *)
SetIntervalW(kind, d) ==
    /\ nextId <= MaxTimers
    /\ pending' = NewTimer(kind, d, TRUE) @@ pending
    /\ intervals' = intervals \cup {nextId}
    /\ runs' = (nextId :> 0) @@ runs
    /\ nextId' = nextId + 1
    /\ UNCHANGED tracked

(* The entry the wrapped timeout callback logs when it runs actual ms      *)
(* after it was scheduled.                                                 *)
FiredEntry(id, actual) ==
    Entry("TIMER", "setTimeout fired", <<pending[id].delay, actual>>)

(* The forwarded one-shot callback: log, timers.delete(timerId), then      *)
(* callback.apply.  The browser drops the timer.  The entry is returned by *)
(* FiredEntry and appended by the caller with the callback's own entries. *)
TimeoutFired(id) ==
    /\ ~pending[id].repeat
    /\ pending' = Without(pending, id)
    /\ tracked' = tracked \ {id}
    /\ runs' = [runs EXCEPT ![id] = @ + 1]
    /\ UNCHANGED <<intervals, nextId, asked>>

(* The forwarded interval callback: count++, log on every tenth firing,    *)
(* then callback.apply.                                                    *)
IntervalFired(id) ==
    /\ pending[id].repeat
    /\ pending[id].count < MaxRuns
    /\ pending' = [pending EXCEPT ![id].count = @ + 1]
    /\ runs' = [runs EXCEPT ![id] = @ + 1]
    /\ UNCHANGED <<tracked, intervals, nextId, asked>>

IntervalEntries(id) ==
    LET n == pending[id].count + 1
    IN  IF n % 10 = 0
        THEN << Entry("TIMER", "setInterval fired", <<pending[id].delay, n>>) >>
        ELSE << >>

(***************************************************************************)
(* The page's own use of the timer primitives (montage.js and the rest of  *)
(* the page), through the wrappers once TimerTracker.init has run.         *)
(***************************************************************************)
PageSetTimeout ==
    \E d \in Delays :
        /\ SetTimeoutW("page", d, pending)
        /\ asked' = (TimerReturn :> d) @@ asked
        /\ UNCHANGED logVars

PageSetInterval ==
    \E d \in Delays :
        /\ SetIntervalW("page", d)
        /\ asked' = (TimerReturn :> d) @@ asked
        /\ UNCHANGED logVars

(* The native clearTimeout(handle), not wrapped, for a handle the page     *)
(* holds, fired or not: TimerTracker is not told.                          *)
PageClearTimer ==
    \E h \in DOMAIN asked :
        /\ pending' = Without(pending, h)
        /\ asked' = Without(asked, h)
        /\ UNCHANGED <<tracked, intervals, nextId, runs, logVars>>

PageTimeoutFires ==
    \E id \in DOMAIN pending, late \in Lateness :
        /\ pending[id].kind = "page"
        /\ TimeoutFired(id)
        /\ LogAll(<< FiredEntry(id, pending[id].delay + late) >>)

PageIntervalFires ==
    \E id \in DOMAIN pending :
        /\ pending[id].kind = "page"
        /\ IntervalFired(id)
        /\ LogAll(IntervalEntries(id))

TimerNext ==
    \/ PageSetTimeout \/ PageSetInterval \/ PageClearTimer
    \/ PageTimeoutFires \/ PageIntervalFires

TimerTypeOK ==
    /\ pending \in [DOMAIN pending -> [kind : STRING, delay : Nat,
                                       repeat : BOOLEAN, count : Nat]]
    /\ DOMAIN pending \subseteq 1..(nextId - 1)
    /\ tracked \subseteq 1..(nextId - 1)
    /\ intervals \subseteq 1..(nextId - 1)
    /\ runs \in [1..(nextId - 1) -> Nat]
    /\ asked \in [DOMAIN asked -> Nat]
    /\ DOMAIN asked \subseteq 1..(nextId - 1)

(***************************************************************************)
(* Transparency (spec 4.3 and section 8): seen through the wrappers, the   *)
(* timers behave as the unwrapped primitives promise.  The requested delay *)
(* reaches the browser, every firing runs the page's callback exactly      *)
(* once, a timeout is gone after it fired, and the ids returned are the    *)
(* browser's.  The wrapped timers refine BrowserTimers.                    *)
(***************************************************************************)
Unwrapped == INSTANCE BrowserTimers
    WITH timers <- [id \in DOMAIN pending |->
                      [delay |-> pending[id].delay, repeat |-> pending[id].repeat]]

TimersTransparent == Unwrapped!Spec
=============================================================================

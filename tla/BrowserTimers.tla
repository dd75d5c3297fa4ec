--------------------------- MODULE BrowserTimers ---------------------------
(***************************************************************************)
(* What window.setTimeout / setInterval / clearTimeout promise the page,   *)
(* unwrapped: a scheduled callback is pending until it fires or is         *)
(* cleared; a one-shot timer runs its callback once and is gone, a         *)
(* repeating one runs it on every firing.  This is the abstract            *)
(* specification the timer wrapper of the debug instrumentation has to     *)
(* implement if it is transparent.                                         *)
(***************************************************************************)
EXTENDS Naturals, Functions, TLC

CONSTANTS Delays, MaxTimers, MaxRuns

VARIABLES timers,   \* id -> [delay, repeat] of the callbacks still pending
          runs,     \* id -> number of times the page's callback has run
          nextId,   \* the id the next setTimeout/setInterval returns
          asked     \* the ids the page holds -> the delay it asked for

vars == <<timers, runs, nextId, asked>>

Init ==
    /\ timers = <<>>
    /\ runs = <<>>
    /\ nextId = 1
    /\ asked = <<>>

Schedule(d, rep) ==
    /\ nextId <= MaxTimers
    /\ timers' = (nextId :> [delay |-> d, repeat |-> rep]) @@ timers
    /\ runs' = (nextId :> 0) @@ runs
    /\ nextId' = nextId + 1
    /\ asked' = (nextId :> d) @@ asked

(* clearTimeout with a handle the page holds; a no-op once it has fired.   *)
Clear(id) ==
    /\ id \in DOMAIN asked
    /\ timers' = Restrict(timers, DOMAIN timers \ {id})
    /\ asked' = Restrict(asked, DOMAIN asked \ {id})
    /\ UNCHANGED <<runs, nextId>>

Fire(id) ==
    /\ id \in DOMAIN timers
    /\ runs[id] < MaxRuns
    /\ runs' = [runs EXCEPT ![id] = @ + 1]
    /\ timers' = IF timers[id].repeat THEN timers
                 ELSE Restrict(timers, DOMAIN timers \ {id})
    /\ UNCHANGED <<nextId, asked>>

Next ==
    \/ \E d \in Delays, rep \in BOOLEAN : Schedule(d, rep)
    \/ \E id \in DOMAIN asked : Clear(id)
    \/ \E id \in DOMAIN timers : Fire(id)

Spec == Init /\ [][Next]_vars
=============================================================================

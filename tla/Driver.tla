------------------------------- MODULE Driver -------------------------------
(***************************************************************************)
(* The analyses the Playwright driver (src/tests/e2e/                      *)
(* safari-montage-debug.spec.js) runs on a captured log before it writes   *)
(* the derived reports: pure operators over a sequence of entries of the   *)
(* EventLog shape [cat, msg, arg].                                         *)
(***************************************************************************)
EXTENDS Integers, Sequences, SequencesExt

(* JavaScript truthiness of a number read from an entry's data.            *)
Truthy(n) == n # 0

(***************************************************************************)
(* The timer-drift filter of the "Timer and event behavior" test: an entry *)
(* counts when data.delay and data.actualDelay are both truthy and         *)
(* actualDelay - delay > 50.  Only "setTimeout fired" entries carry an     *)
(* actualDelay; arg is <<delay, actualDelay>>.                             *)
(***************************************************************************)
IsDriftEvent(e) ==
    /\ e.cat = "TIMER"
    /\ e.msg = "setTimeout fired"
    /\ Truthy(e.arg[1]) /\ Truthy(e.arg[2])
    /\ e.arg[2] - e.arg[1] > 50

(* The definition the spec gives (section 4.5 step 5 and section 8):       *)
(* drift = actual - requested delay, a drift event when drift > 50, for    *)
(* every numeric input.                                                    *)
DriftReference(e) ==
    /\ e.cat = "TIMER"
    /\ e.msg = "setTimeout fired"
    /\ e.arg[2] - e.arg[1] > 50


(***************************************************************************)
(* The video wrappers log "Monitor ${this.id} starting" and "Monitor       *)
(* ${this.id} start completed"; an entry keeps the kind in msg and the id  *)
(* in arg[1].  Digits(n) is the decimal rendering of the id the template   *)
(* string produces.                                                        *)
(***************************************************************************)
RECURSIVE Digits(_)
Digits(n) == IF n < 10 THEN <<n>> ELSE Digits(n \div 10) \o <<n % 10>>

(* completeLog.message.includes(`Monitor ${monitorId}`): "Monitor " occurs *)
(* only at the start of the message and is followed by the id's digits and *)
(* a space, so it holds iff monitorId's digits are a prefix of the id's.   *)
MentionsMonitor(e, k) == IsPrefix(Digits(k), Digits(e.arg[1]))

IsStarting(e) == e.cat = "VIDEO" /\ e.msg = "starting"

IsCompleted(e) == e.cat = "VIDEO" /\ e.msg = "start completed"

(***************************************************************************)
(* stuckVideos of the "Video loading timing comparison" test: the starting *)
(* entries of the captured log for whose monitor id no completed entry     *)
(* mentions `Monitor ${id}`; here as the set of their monitor ids.         *)
(***************************************************************************)
StuckMonitors(ls) ==
    { ls[i].arg[1] : i \in { j \in 1..Len(ls) :
                               /\ IsStarting(ls[j])
                               /\ ~\E c \in 1..Len(ls) :
                                      IsCompleted(ls[c]) /\ MentionsMonitor(ls[c], ls[j].arg[1]) } }
=============================================================================

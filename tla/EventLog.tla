------------------------------ MODULE EventLog ------------------------------
(***************************************************************************)
(* The Event Log of the montage debug instrumentation: LogSystem in        *)
(* src/web/js/safari-montage-debug.js.  Every wrapper appends through      *)
(* LogSystem.log, which pushes the entry, drops the oldest entry once the  *)
(* array is longer than MAX_LOG_ENTRIES, and then re-exports the whole     *)
(* log to localStorage under one key; a failing setItem (quota, private    *)
(* browsing, a value JSON.stringify rejects) is caught and only reported   *)
(* on the console.                                                         *)
(*                                                                         *)
(* An entry is a record [cat, msg, arg]: the category, the message (a      *)
(* model value or a short string) and the numbers the analyses read from   *)
(* its data (a sequence of integers, <<>> when none is read).  Timestamps, *)
(* the user agent and the console output are left out.                     *)
(***************************************************************************)
EXTENDS Naturals, Sequences, SequencesExt

CONSTANTS
    MaxLogEntries,   \* DEBUG_CONFIG.MAX_LOG_ENTRIES
    NoCapture        \* localStorage holds no capture under the key

ASSUME MaxLogEntries \in Nat \ {0}

VARIABLES
    logs,      \* LogSystem.logs
    stored,    \* localStorage['zm_safari_debug_logs'].logs, or NoCapture
    history    \* ghost: every entry ever appended, in order

logVars == <<logs, stored, history>>

Categories == {"SCROLL", "VIDEO", "TIMER", "EVENT", "VIEWPORT",
               "BROWSER", "PERFORMANCE", "ERROR", "WARNING"}

Entry(c, m, a) == [cat |-> c, msg |-> m, arg |-> a]

LogInit ==
    /\ logs = <<>>
    /\ stored = NoCapture
    /\ history = <<>>

(* Mutant: the size check written with >=.                                *)
PushOffByOne(l, e) ==
    LET grown == Append(l, e)
    IN  IF Len(grown) >= MaxLogEntries THEN Tail(grown) ELSE grown

(* Mutant: the size check moved before the push.                          *)
PushShiftFirst(l, e) ==
    IF Len(l) > MaxLogEntries THEN Append(Tail(l), e) ELSE Append(l, e)

(* Mutant: a full log that drops the new entry instead of the oldest.     *)
PushDropNewest(l, e) ==
    IF Len(l) >= MaxLogEntries THEN l ELSE Append(l, e)

(* One this.logs.push(entry) followed by the size check and shift().       *)
Push(l, e) ==
    LET grown == Append(l, e)
    IN  IF Len(grown) > MaxLogEntries THEN Tail(grown) ELSE grown

(* The log after the first k of the appends es, one LogSystem.log each.    *)
LogAfter(es, k) == FoldLeft(Push, logs, SubSeq(es, 1, k))

(* Mutant: exportToStorage called between the push and the shift.         *)
LogAllExportBeforeShift(es) ==
    /\ logs' = LogAfter(es, Len(es))
    /\ history' = history \o es
    /\ \/ UNCHANGED stored
       \/ \E k \in 1..Len(es) : stored' = Append(LogAfter(es, k - 1), es[k])

(***************************************************************************)
(* LogSystem.log called once for each entry of es, in order, within one    *)
(* handler.  Each call ends with exportToStorage, which either stores a    *)
(* copy of the log as it is after that call or throws and is swallowed: so *)
(* the stored capture is left as it was or is the log after one of the    *)
(* calls.  This operator is the logging part of every handler's action.   *)
(***************************************************************************)
LogAll(es) ==
    /\ logs' = LogAfter(es, Len(es))
    /\ history' = history \o es
    /\ \/ UNCHANGED stored
       \/ \E k \in 1..Len(es) : stored' = LogAfter(es, k)

Log(e) == LogAll(<<e>>)

(* The entries the current step appended.                                  *)
Appended == SubSeq(history', Len(history) + 1, Len(history'))

(* The last n entries of a sequence s.                                     *)
LastN(s, n) == SubSeq(s, Len(s) - n + 1, Len(s))

Minimum(a, b) == IF a <= b THEN a ELSE b

EntryType == [cat : Categories, msg : STRING, arg : Seq(Int)]

LogTypeOK ==
    /\ logs \in Seq(EntryType)
    /\ stored \in Seq(EntryType) \cup {NoCapture}
    /\ history \in Seq(EntryType)
    /\ Len(logs) <= MaxLogEntries

(***************************************************************************)
(* Ring-buffer bound (spec section 8): after any sequence of appends the   *)
(* log holds exactly the min(n, MAX_LOG_ENTRIES) most recently appended    *)
(* entries, in order.  This is what the push/length-check/shift of         *)
(* LogSystem.log has to guarantee for every caller.                        *)
(***************************************************************************)
RetainsMostRecent ==
    logs = LastN(history, Minimum(Len(history), MaxLogEntries))

(***************************************************************************)
(* The capture getStoredLogs() returns is always exactly the in-memory log *)
(* as it was at the end of some earlier LogSystem.log call: a failed       *)
(* setItem leaves an older capture behind, never a torn or oversized one.  *)
(***************************************************************************)
StoredIsPastLog ==
    stored # NoCapture =>
        \E n \in 1..Len(history) :
            stored = LastN(SubSeq(history, 1, n), Minimum(n, MaxLogEntries))
=============================================================================

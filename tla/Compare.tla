------------------------------ MODULE Compare ------------------------------
(***************************************************************************)
(* The comparison engine of src/tests/e2e/compare-results.js as operators  *)
(* over the results directory it reads.  A file of browser b and kind k    *)
(* has status st[b][k]: "absent", "ok" or "corrupt" (not parsable).        *)
(* The content the engine reads from a parsed file is kept abstract to the *)
(* numbers its checks compare: the webkit/chromium scrollEndEvent feature, *)
(* the timing report's stats.average and the event report's timerDrift.    *)
(* Each section's verdict stands for the table and the message it prints.  *)
(***************************************************************************)
EXTENDS Integers

Browsers == {"chromium", "webkit"}

(* The fixed file names main() loads, and the BUG-REPORT files           *)
(* checkBugReports finds by name.                                          *)
Kinds == {"initial", "scroll", "timing", "events", "bug"}

(* loadJSON: null for a missing file and for one JSON.parse rejects.       *)
Loaded(st, b, k) == st[b][k] = "ok"

BothLoaded(st, k) == Loaded(st, "chromium", k) /\ Loaded(st, "webkit", k)

(* compareBrowserFeatures: 'Missing browser logs' unless both loaded.      *)
FeatureSection(st) == IF BothLoaded(st, "initial") THEN "compared" ELSE "missing"

(* main() calls compareEventLogs only when both scroll captures loaded;    *)
(* otherwise the section is not printed at all.                            *)
EventLogSection(st) == IF BothLoaded(st, "scroll") THEN "compared" ELSE "none"

(* compareTimingReports: webkit average > 2x chromium's is critical,       *)
(* > 1.5x a warning (2w > 3c is w > 1.5c over the integers).               *)
TimingSection(st, avg) ==
    IF ~BothLoaded(st, "timing") THEN "missing"
    ELSE IF avg["webkit"] > avg["chromium"] * 2 THEN "critical"
    ELSE IF 2 * avg["webkit"] > 3 * avg["chromium"] THEN "warning"
    ELSE "comparable"

EventReportSection(st) == IF BothLoaded(st, "events") THEN "compared" ELSE "missing"

(* checkBugReports: the BUG-REPORT files that loadJSON parses; none gives  *)
(* 'No bug reports found - tests passed!'.                                 *)
BugSection(st) ==
    IF \A b \in Browsers : ~Loaded(st, b, "bug") THEN "passed" ELSE "found"

(***************************************************************************)
(* `webkitTiming.stats.average / chromiumTiming.stats.average > 2` with    *)
(* JavaScript division: x / 0 is Infinity for x > 0 and NaN for x = 0, and *)
(* NaN > 2 is false.  For integer averages the floating-point quotient is *)
(* above 2 exactly when w > 2c (w = 2c divides to exactly 2).              *)
(***************************************************************************)
RatioAbove2(w, c) == IF c = 0 THEN w > 0 ELSE w > 2 * c

(* The summary's critical timing issue.                                    *)
TimingIssue(st, avg) ==
    BothLoaded(st, "timing") /\ RatioAbove2(avg["webkit"], avg["chromium"])

(* The issues of SUMMARY & RECOMMENDATIONS: webkit without scrollend       *)
(* (high), the critical timing ratio, more than 5 extra drift events       *)
(* (medium).                                                               *)
SummaryIssues(st, se, avg, dr) ==
    { i \in {"scrollend", "timing", "drift"} :
        \/ i = "scrollend" /\ Loaded(st, "webkit", "initial") /\ se["webkit"] = FALSE
        \/ i = "timing" /\ TimingIssue(st, avg)
        \/ i = "drift" /\ BothLoaded(st, "events") /\ dr["webkit"] - dr["chromium"] > 5 }
=============================================================================

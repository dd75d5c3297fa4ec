------------------------------ MODULE Results ------------------------------
(***************************************************************************)
(* The results directory between the Playwright driver (src/tests/e2e/     *)
(* safari-montage-debug.spec.js) and the comparison engine.  Each test of  *)
(* the driver, for one browser, overwrites its fixed-name file or leaves   *)
(* it alone: the capture files are written only when SafariDebug exists,   *)
(* the timing report only when some load time was parsed, the BUG-REPORT   *)
(* only when a monitor disappeared.  Nothing ever deletes a file, so the   *)
(* directory holds files of several driver runs.  A writeFileSync that     *)
(* fails part-way (disk full) leaves a file JSON.parse rejects.  Tests     *)
(* run one at a time (workers: 1) and may run again (retries, new runs).   *)
(***************************************************************************)
EXTENDS Compare

CONSTANTS
    Averages,   \* stats.average values a timing report may hold (ms)
    Drifts      \* events.timerDrift values an event report may hold

VARIABLES
    status,     \* [Browsers -> [Kinds -> {"absent", "ok", "corrupt"}]]
    scrollEnd,  \* Browsers -> browserInfo.features.scrollEndEvent of the capture
    average,    \* Browsers -> stats.average of the timing report
    drift       \* Browsers -> events.timerDrift of the event report

vars == <<status, scrollEnd, average, drift>>

Written == {"ok", "corrupt"}

ResultsInit ==
    /\ status = [b \in Browsers |-> [k \in Kinds |-> "absent"]]
    /\ scrollEnd = [b \in Browsers |-> TRUE]
    /\ average = [b \in Browsers |-> 0]
    /\ drift = [b \in Browsers |-> 0]

(* 'Initial page load': the capture with the descriptor.                  *)
InitialTest(b) ==
    \E s \in Written, f \in BOOLEAN :
        /\ status' = [status EXCEPT ![b]["initial"] = s]
        /\ scrollEnd' = [scrollEnd EXCEPT ![b] = f]
        /\ UNCHANGED <<average, drift>>

(* 'Scroll behavior': the capture if SafariDebug exists, then, whatever    *)
(* the capture, a BUG-REPORT if some initially visible monitor is missing. *)
ScrollTest(b) ==
    \E sl \in {"skip"} \cup Written, br \in {"skip"} \cup Written :
        /\ status' = [status EXCEPT ![b]["scroll"] = IF sl = "skip" THEN @ ELSE sl,
                                    ![b]["bug"] = IF br = "skip" THEN @ ELSE br]
        /\ UNCHANGED <<scrollEnd, average, drift>>

(* 'Video loading timing': the report only when loadingTimes is non-empty. *)
TimingTest(b) ==
    \E s \in Written, a \in Averages :
        /\ status' = [status EXCEPT ![b]["timing"] = s]
        /\ average' = [average EXCEPT ![b] = a]
        /\ UNCHANGED <<scrollEnd, drift>>

(* 'Timer and event behavior': the event report when SafariDebug exists.  *)
TimerTest(b) ==
    \E s \in Written, d \in Drifts :
        /\ status' = [status EXCEPT ![b]["events"] = s]
        /\ drift' = [drift EXCEPT ![b] = d]
        /\ UNCHANGED <<scrollEnd, average>>

Next ==
    \E b \in Browsers :
        InitialTest(b) \/ ScrollTest(b) \/ TimingTest(b) \/ TimerTest(b)

Spec == ResultsInit /\ [][Next]_vars

(* loadJSON gives null for an absent and for an unparsable file alike, so *)
(* only a BUG-REPORT's corruption is told apart (checkBugReports reads the *)
(* directory listing); no action reads the status it overwrites.           *)
ResultsView ==
    <<{f \in Browsers \X Kinds : status[f[1]][f[2]] = "ok"},
      {b \in Browsers : status[b]["bug"] = "corrupt"},
      scrollEnd, average, drift>>

(***************************************************************************)
(* Spec 7 and 8 (missing capture scenario): a section whose inputs are     *)
(* absent or unparsable is labelled as missing data, never omitted and     *)
(* never read as a clean result.  main() skips the event-log section when  *)
(* a scroll capture is missing, and an unparsable BUG-REPORT is dropped    *)
(* before 'No bug reports found - tests passed!'.                          *)
(***************************************************************************)
InsufficientDataLabelled ==
    /\ ~BothLoaded(status, "initial") => FeatureSection(status) = "missing"
    /\ ~BothLoaded(status, "scroll") => EventLogSection(status) = "missing"
    /\ ~BothLoaded(status, "timing") => TimingSection(status, average) = "missing"
    /\ ~BothLoaded(status, "events") => EventReportSection(status) = "missing"
    /\ (\E b \in Browsers : status[b]["bug"] = "corrupt") => BugSection(status) # "passed"
=============================================================================

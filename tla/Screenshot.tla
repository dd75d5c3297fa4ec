----------------------------- MODULE Screenshot -----------------------------
(***************************************************************************)
(* The headless screenshot utility src/docker/test-screenshot.js: one      *)
(* async script that launches a browser, opens the ZoneMinder page, saves  *)
(* a full-page screenshot, then listens for the page's JavaScript errors   *)
(* for two seconds and prints whether there were any.                      *)
(*                                                                         *)
(* pc is the await the script is at.  Each await may reject: the three    *)
(* before the try block reject the async function, which nobody catches,  *)
(* so Node ends the process with an unhandled rejection; the ones inside  *)
(* it go to the catch block, whose process.exit(1) ends the process        *)
(* before the finally block runs.  The page runs on its own and may throw *)
(* from the moment page.goto starts loading it, whatever await the script *)
(* is at.                                                                  *)
(* URLs, paths, titles and the printed page info are left out.            *)
(***************************************************************************)
EXTENDS Naturals

CONSTANT MaxPageErrors   \* bound on the errors the page throws

ASSUME MaxPageErrors \in Nat \ {0}

VARIABLES
    pc,          \* the await the script is at, or "done" once the process ended
    browser,     \* "none" before launch, then "open", "closed" after close()
    loaded,      \* page.goto has navigated to the page
    saved,       \* the screenshot file was written
    listening,   \* the 'pageerror' listener is registered
    pageErrors,  \* errors the page has thrown since navigation
    errors,      \* errors.length, the ones the listener collected
    reported,    \* what the script printed about errors: "none", "clean", "errors"
    exitCode     \* "running", or the process's exit code

vars == <<pc, browser, loaded, saved, listening,
          pageErrors, errors, reported, exitCode>>

(* The awaits before the try block, and the steps in it that can throw.   *)
Outside == {"launch", "newPage", "setViewport"}
Inside  == {"goto", "mkdir", "screenshot", "title", "wait", "evaluate"}

Init ==
    /\ pc = "launch"
    /\ browser = "none"
    /\ loaded = FALSE
    /\ saved = FALSE
    /\ listening = FALSE
    /\ pageErrors = 0
    /\ errors = 0
    /\ reported = "none"
    /\ exitCode = "running"

(* The script moves on from await `from` to await `to`.                    *)
Goes(from, to) == pc = from /\ pc' = to

Launch ==
    /\ Goes("launch", "newPage") /\ browser' = "open"
    /\ UNCHANGED <<loaded, saved, listening, pageErrors, errors,
                   reported, exitCode>>

(* browser.newPage() and page.setViewport(): no state the model keeps.    *)
NewPage ==
    /\ \/ Goes("newPage", "setViewport")
       \/ Goes("setViewport", "goto")
    /\ UNCHANGED <<browser, loaded, saved, listening, pageErrors,
                   errors, reported, exitCode>>

Goto ==
    /\ Goes("goto", "mkdir") /\ loaded' = TRUE
    /\ UNCHANGED <<browser, saved, listening, pageErrors, errors,
                   reported, exitCode>>

(* existsSync, and mkdirSync when the directory is missing: the same next *)
(* state either way.                                                       *)
MakeDir ==
    /\ Goes("mkdir", "screenshot")
    /\ UNCHANGED <<browser, loaded, saved, listening, pageErrors, errors,
                   reported, exitCode>>

TakeScreenshot ==
    /\ Goes("screenshot", "title") /\ saved' = TRUE
    /\ UNCHANGED <<browser, loaded, listening, pageErrors, errors,
                   reported, exitCode>>

(* page.title() and page.url().                                            *)
Title ==
    /\ Goes("title", "listen")
    /\ UNCHANGED <<browser, loaded, saved, listening, pageErrors,
                   errors, reported, exitCode>>

(* page.waitForTimeout(2000): the page runs on, the script waits.          *)
Wait ==
    /\ Goes("wait", "report")
    /\ UNCHANGED <<browser, loaded, saved, listening, pageErrors,
                   errors, reported, exitCode>>

(* const errors = []; page.on('pageerror', ...): synchronous, between the *)
(* two awaits above.                                                        *)
Listen ==
    /\ Goes("listen", "wait") /\ listening' = TRUE
    /\ UNCHANGED <<browser, loaded, saved, pageErrors, errors,
                   reported, exitCode>>

(* `if (errors.length > 0)` prints the collected errors, else the tick.   *)
Report ==
    /\ Goes("report", "evaluate")
    /\ reported' = IF errors > 0 THEN "errors" ELSE "clean"
    /\ UNCHANGED <<browser, loaded, saved, listening, pageErrors,
                   errors, exitCode>>

(* page.evaluate and the page info, then the finally block's close().     *)
Finish ==
    /\ Goes("evaluate", "done")
    /\ browser' = "closed" /\ exitCode' = 0
    /\ UNCHANGED <<loaded, saved, listening, pageErrors, errors,
                   reported>>

(* An await before the try rejects: the rejection is unhandled and Node    *)
(* exits with code 1; an await in the try (or mkdirSync) throws: the catch *)
(* prints the message and process.exit(1) ends the process at once, so    *)
(* the finally block never closes the browser.                            *)
Fails ==
    /\ pc \in Outside \cup Inside
    /\ pc' = "done" /\ exitCode' = 1
    /\ UNCHANGED <<browser, loaded, saved, listening, pageErrors,
                   errors, reported>>

(* The page throws, while goto loads it or later; the listener, once      *)
(* registered, pushes error.message.                                       *)
PageError ==
    /\ loaded \/ pc = "goto"
    /\ pc # "done"
    /\ pageErrors < MaxPageErrors
    /\ pageErrors' = pageErrors + 1
    /\ errors' = IF listening THEN errors + 1 ELSE errors
    /\ UNCHANGED <<pc, browser, loaded, saved, listening,
                   reported, exitCode>>

Next ==
    \/ Launch \/ NewPage \/ Goto \/ MakeDir \/ TakeScreenshot \/ Title
    \/ Listen \/ Wait \/ Report \/ Finish \/ Fails \/ PageError

Spec == Init /\ [][Next]_vars

(***************************************************************************)
(* The script's "Check for JavaScript errors": when it prints "No          *)
(* JavaScript errors detected", the page threw no error while the script  *)
(* had it open.  page.on('pageerror') is registered only after goto, the  *)
(* screenshot, title and url, so an error thrown while the page loads is  *)
(* never collected.                                                       *)
(***************************************************************************)
CleanReportIsTrue == reported = "clean" => pageErrors = 0
=============================================================================

---------------------------- MODULE ScrollTracker ----------------------------
(***************************************************************************)
(* ScrollTracker of src/web/js/safari-montage-debug.js together with the   *)
(* browser that drives it.  The tracker listens for 'scroll' on document   *)
(* and on #content, keeps isScrolling, and re-arms a 150 ms debounce timer *)
(* on every scroll event; when the browser has scrollend it also listens   *)
(* for the native 'scrollend' on both targets.  The debounce is armed      *)
(* through window.setTimeout, which TimerTracker has wrapped by the time   *)
(* any scroll event is handled (init() runs all the init functions in one  *)
(* task), and cancelled with the native clearTimeout.                      *)
(*                                                                         *)
(* The browser side: a scroll on target t is "none", "started" (gesture    *)
(* under way, no scroll event yet) or "moved"; when a gesture that moved   *)
(* ends, a browser with scrollend queues a 'scrollend' event at t.         *)
(***************************************************************************)
EXTENDS TimerTracker

CONSTANTS
    Targets,          \* the scroll targets listened to: document, #content
    NativeEndMsg,     \* Targets -> the message its scrollend listener logs
    MaxScrollEvents   \* bound on the scroll events of a behaviour

ASSUME NativeEndMsg \in [Targets -> STRING]

VARIABLES
    hasScrollEnd,     \* BrowserInfo.features.scrollEndEvent, fixed at load
    installed,        \* ScrollTracker.init has run
    monitorsDefined,  \* the page's global `monitors` exists
    isScrolling,      \* ScrollTracker.isScrolling
    scrollCount,      \* ScrollTracker.scrollCount
    scrollEndTimeout, \* ScrollTracker.scrollEndTimeout (0 = null)
    scrolling,        \* browser: Targets -> {"none", "started", "moved"}
    endQueued         \* browser: Targets -> scrollend events queued

scrollVars == <<hasScrollEnd, installed, monitorsDefined, isScrolling,
                scrollCount, scrollEndTimeout, scrolling, endQueued>>

vars == <<logVars, timerVars, scrollVars>>

DebounceDelay == 150

ScrollInit ==
    /\ hasScrollEnd \in BOOLEAN
    /\ installed = FALSE
    /\ monitorsDefined = FALSE
    /\ isScrolling = FALSE
    /\ scrollCount = 0
    /\ scrollEndTimeout = 0
    /\ scrolling = [t \in Targets |-> "none"]
    /\ endQueued = [t \in Targets |-> 0]

Init == LogInit /\ TimerInit /\ ScrollInit

(* The entries of ScrollTracker.init: the first entry and the fallback    *)
(* warning when the browser has no scrollend.                              *)
InstallEntries ==
    << Entry("SCROLL", "Scroll tracker initialized", <<>>) >>
    \o IF hasScrollEnd THEN << >>
       ELSE << Entry("WARNING", "scrollend event not supported - using fallback", <<>>) >>

(* ScrollTracker.init: its entries and the listeners.                     *)
Install ==
    /\ ~installed
    /\ installed' = TRUE
    /\ LogAll(InstallEntries)
    /\ UNCHANGED <<timerVars, hasScrollEnd, monitorsDefined, isScrolling,
                   scrollCount, scrollEndTimeout, scrolling, endQueued>>

(* logVisibleMonitors: returns at once while `monitors` is undefined.      *)
VisibilityEntries ==
    IF monitorsDefined
    THEN << Entry("VIEWPORT", "Monitor visibility after scroll", <<>>) >>
    ELSE << >>

(* onScrollEnd, after the entries es its caller has logged in the same     *)
(* task: isScrolling = false, 'Scroll ended', logVisibleMonitors.          *)
OnScrollEnd(es) ==
    /\ isScrolling' = FALSE
    /\ LogAll(es \o << Entry("SCROLL", "Scroll ended", <<>>) >>
                 \o VisibilityEntries)

(* Mutant: the re-arm without the clearTimeout before it.                 *)
RearmDebounceNoClear ==
    /\ SetTimeoutW("debounce", DebounceDelay, pending)
    /\ scrollEndTimeout' = TimerReturn

(* Mutant: the debounce armed only where scrollend is missing, as the      *)
(* comment above it and the spec's two-path design describe.               *)
RearmDebounceFallbackOnly ==
    IF hasScrollEnd
    THEN UNCHANGED <<pending, tracked, intervals, nextId, runs, scrollEndTimeout>>
    ELSE /\ SetTimeoutW("debounce", DebounceDelay, Without(pending, scrollEndTimeout))
         /\ scrollEndTimeout' = TimerReturn

(* clearTimeout(this.scrollEndTimeout); this.scrollEndTimeout =            *)
(* setTimeout(() => this.onScrollEnd(), 150), through the timer wrapper.   *)
RearmDebounce ==
    /\ SetTimeoutW("debounce", DebounceDelay, Without(pending, scrollEndTimeout))
    /\ scrollEndTimeout' = TimerReturn

(* scrollHandler on target t: lastScrollTime, scrollCount++, 'Scroll       *)
(* event', scrollStartHandler (IDLE -> SCROLLING with 'Scroll started'),   *)
(* clearTimeout(scrollEndTimeout) and a new 150 ms debounce.               *)
ScrollEvent(t) ==
    /\ installed
    /\ scrolling[t] \in {"started", "moved"}
    /\ scrollCount < MaxScrollEvents
    /\ scrolling' = [scrolling EXCEPT ![t] = "moved"]
    /\ scrollCount' = scrollCount + 1
    /\ isScrolling' = TRUE
    /\ LogAll(<< Entry("SCROLL", "Scroll event", <<>>) >>
              \o IF isScrolling THEN << >>
                 ELSE << Entry("SCROLL", "Scroll started", <<>>) >>)
    /\ RearmDebounce
    /\ UNCHANGED <<asked, hasScrollEnd, installed, monitorsDefined, endQueued>>

(* The debounce timer runs: the timer wrapper logs 'setTimeout fired'      *)
(* with the measured delay, deletes it from TimerTracker.timers, then the  *)
(* arrow function calls onScrollEnd.                                       *)
DebounceFires(id) ==
    /\ id \in DOMAIN pending
    /\ pending[id].kind = "debounce"
    /\ \E late \in Lateness :
         OnScrollEnd(<< FiredEntry(id, DebounceDelay + late) >>)
    /\ TimeoutFired(id)
    /\ UNCHANGED <<hasScrollEnd, installed, monitorsDefined, scrollCount,
                   scrollEndTimeout, scrolling, endQueued>>

(* A 'scrollend' listener on t (registered only when hasScrollEnd): log    *)
(* which listener fired, then onScrollEnd.  The debounce stays armed.      *)
NativeScrollEnd(t) ==
    /\ endQueued[t] > 0
    /\ endQueued' = [endQueued EXCEPT ![t] = @ - 1]
    /\ OnScrollEnd(<< Entry("SCROLL", NativeEndMsg[t], <<>>) >>)
    /\ UNCHANGED <<timerVars, hasScrollEnd, installed, monitorsDefined,
                   scrollCount, scrollEndTimeout, scrolling>>

(***************************************************************************)
(* The user and the page.  Interaction starts once the instrumentation is  *)
(* installed (the driver scrolls only after the montage has initialised).  *)
(***************************************************************************)
GestureStarts(t) ==
    /\ installed
    /\ scrolling[t] = "none"
    /\ scrolling' = [scrolling EXCEPT ![t] = "started"]
    /\ UNCHANGED <<logVars, timerVars, hasScrollEnd, installed, monitorsDefined,
                   isScrolling, scrollCount, scrollEndTimeout, endQueued>>

(* The scroll comes to rest; a browser with scrollend fires it at t if the *)
(* scroll position changed.                                                *)
GestureEnds(t) ==
    /\ scrolling[t] # "none"
    /\ scrolling' = [scrolling EXCEPT ![t] = "none"]
    /\ endQueued' = IF scrolling[t] = "moved" /\ hasScrollEnd
                    THEN [endQueued EXCEPT ![t] = @ + 1] ELSE endQueued
    /\ UNCHANGED <<logVars, timerVars, hasScrollEnd, installed, monitorsDefined,
                   isScrolling, scrollCount, scrollEndTimeout>>

(* montage.js creates its global `monitors`.                               *)
MonitorsCreated ==
    /\ ~monitorsDefined
    /\ monitorsDefined' = TRUE
    /\ UNCHANGED <<logVars, timerVars, hasScrollEnd, installed, isScrolling,
                   scrollCount, scrollEndTimeout, scrolling, endQueued>>

Next ==
    \/ Install
    \/ MonitorsCreated
    \/ \E t \in Targets :
          GestureStarts(t) \/ GestureEnds(t) \/ ScrollEvent(t) \/ NativeScrollEnd(t)
    \/ \E id \in DOMAIN pending : DebounceFires(id)

(***************************************************************************)
(* The browser runs every due timer and delivers every queued event; the   *)
(* user owes nothing (a finger may rest on the screen for ever).           *)
(***************************************************************************)
Fairness ==
    /\ \A id \in 1..MaxTimers : WF_vars(DebounceFires(id))
    /\ \A t \in Targets : WF_vars(NativeScrollEnd(t))

Spec == Init /\ [][Next]_vars /\ Fairness

DebounceIds == {id \in DOMAIN pending : pending[id].kind = "debounce"}

ScrollTypeOK ==
    /\ hasScrollEnd \in BOOLEAN /\ installed \in BOOLEAN
    /\ monitorsDefined \in BOOLEAN /\ isScrolling \in BOOLEAN
    /\ scrollCount \in 0..MaxScrollEvents
    /\ scrollEndTimeout \in 0..(nextId - 1)
    /\ scrolling \in [Targets -> {"none", "started", "moved"}]
    /\ endQueued \in [Targets -> Nat]

(***************************************************************************)
(* The debounce protocol of scrollHandler: at most one debounce timer is   *)
(* ever pending, it is the one scrollEndTimeout names, and while the       *)
(* tracker is SCROLLING it is pending, so the tracker always has a way     *)
(* back to IDLE whatever the browser's scrollend support.                  *)
(***************************************************************************)
DebounceIsSingleExit ==
    /\ DebounceIds \subseteq {scrollEndTimeout}
    /\ isScrolling => scrollEndTimeout \in DebounceIds

(***************************************************************************)
(* Every scroll comes to an end in the log: once SCROLLING, the tracker    *)
(* eventually returns to IDLE (logging 'Scroll ended'), even if the user   *)
(* never lifts the finger and the browser never fires scrollend.           *)
(***************************************************************************)
ScrollSettles == isScrolling ~> ~isScrolling

(***************************************************************************)
(* Spec 4.3: the tracker is a two-state machine and 'Scroll ended' is      *)
(* logged on the SCROLLING -> IDLE transition.  The comment at the         *)
(* debounce says it is for browsers without scrollend, but it is armed in  *)
(* every browser, so with scrollend both signals call onScrollEnd.         *)
(***************************************************************************)
ScrollEndOnlyWhenScrolling ==
    [][ \A i \in 1..Len(Appended) :
          Appended[i].msg = "Scroll ended" => isScrolling ]_vars
=============================================================================

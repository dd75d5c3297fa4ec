------------------------------ MODULE Wrappers ------------------------------
(***************************************************************************)
(* The video-lifecycle and viewport wrappers of src/web/js/                *)
(* safari-montage-debug.js and their installation.                         *)
(*                                                                         *)
(* Installation (VideoTracker.hookMonitorStream, ViewportMonitor.init):    *)
(* a 100 ms interval polls for a global the page may define later; the     *)
(* first tick that finds it clears the interval and wraps it, and a 10 s   *)
(* timeout clears the interval whatever happened.  Ticks that find the     *)
(* global missing change nothing and are left out.  The MonitorStream      *)
(* poll runs on the native timers (VideoTracker.init runs before           *)
(* TimerTracker.init); the isOutOfViewport poll on the wrapped ones, so    *)
(* its timeout logs 'setTimeout fired' (its interval's every-tenth-tick    *)
(* entries are left out with the missing-global ticks).                    *)
(*                                                                         *)
(* layers[p] counts the wrappers stacked on primitive p.  A call of a      *)
(* wrapped start/stop logs its entries once per layer, outermost first,    *)
(* and the original may return or throw.  The MutationObserver tracks a   *)
(* media element added to the document as an added node itself; one      *)
(* inserted inside a container is not among the addedNodes checked.       *)
(***************************************************************************)
EXTENDS EventLog

CONSTANTS
    Monitors,   \* ids of the page's MonitorStream objects
    Elements,   \* media elements (VIDEO, VIDEO-STREAM, IMG) of the page
    MaxCalls,   \* bound on the page's calls and media events
    Nesting     \* the ways the page inserts a media element: inside a
                \* container (TRUE), as the added node itself (FALSE)

ASSUME Nesting # {} /\ Nesting \subseteq BOOLEAN

Primitives == {"MonitorStream", "isOutOfViewport"}

VARIABLES
    installed,     \* VideoTracker.init and ViewportMonitor.init have run
    defined,       \* Primitives -> the page has defined the global
    intervalArmed, \* Primitives -> the poll interval is still scheduled
    timeoutArmed,  \* Primitives -> the 10 s timeout is still scheduled
    layers,        \* Primitives -> wrappers stacked on the primitive
    attached,      \* Elements -> in the document
    listeners,     \* Elements -> trackVideoElement listener sets attached
    calls,         \* page calls and media events so far
    threw,         \* ghost: monitors a logged (wrapped) start of which threw
    overlay,       \* Monitors -> the text of its .debug-overlay, "none" if absent
    watched,       \* ghost: Elements -> last inserted while the observer was on
    rendered       \* monitors whose liveStream<id> element is in the document

wrapVars == <<installed, defined, intervalArmed, timeoutArmed, layers,
              attached, listeners, calls, threw, overlay, watched, rendered>>

vars == <<logVars, wrapVars>>

(* Each entry n times over: one per wrapper layer.                         *)
Times(n, e) == [i \in 1..n |-> e]

WrapInit ==
    /\ installed = FALSE
    /\ defined \in [Primitives -> BOOLEAN]
    /\ intervalArmed = [p \in Primitives |-> FALSE]
    /\ timeoutArmed = [p \in Primitives |-> FALSE]
    /\ layers = [p \in Primitives |-> 0]
    /\ attached = [e \in Elements |-> FALSE]
    /\ listeners = [e \in Elements |-> 0]
    /\ calls = 0
    /\ threw = {}
    /\ overlay = [m \in Monitors |-> "none"]
    /\ watched = [e \in Elements |-> FALSE]
    /\ rendered \in SUBSET Monitors

Init == LogInit /\ WrapInit

(* VideoTracker.init (its entry, hookMonitorStream's interval and timeout, *)
(* observeVideoElements) and, in the same init() task, ViewportMonitor.init.*)
Install ==
    /\ ~installed
    /\ installed' = TRUE
    /\ intervalArmed' = [p \in Primitives |-> TRUE]
    /\ timeoutArmed' = [p \in Primitives |-> TRUE]
    /\ Log(Entry("VIDEO", "Video tracker initialized", <<>>))
    /\ UNCHANGED <<defined, layers, attached, listeners, calls, threw, overlay, watched, rendered>>

(* The page's script defines the global (montage.js, MonitorStream.js).   *)
Define(p) ==
    /\ ~defined[p]
    /\ defined' = [defined EXCEPT ![p] = TRUE]
    /\ UNCHANGED <<logVars, installed, intervalArmed, timeoutArmed, layers,
                   attached, listeners, calls, threw, overlay, watched, rendered>>

WrappedMsg(p) ==
    IF p = "MonitorStream" THEN "MonitorStream methods wrapped successfully"
    ELSE "isOutOfViewport function wrapped"

(* A poll tick that finds the global: clearInterval(checkInterval), then   *)
(* wrapMonitorStreamMethods / wrapIsOutOfViewport with its entry.          *)
PollTick(p) ==
    /\ intervalArmed[p] /\ defined[p]
    /\ intervalArmed' = [intervalArmed EXCEPT ![p] = FALSE]
    /\ layers' = [layers EXCEPT ![p] = @ + 1]
    /\ Log(Entry(IF p = "MonitorStream" THEN "VIDEO" ELSE "VIEWPORT", WrappedMsg(p), <<>>))
    /\ UNCHANGED timeoutArmed

(* The timeout's entry: only the viewport poll's goes through the wrapped  *)
(* setTimeout.                                                             *)
TimeoutEntries(p) ==
    IF p = "isOutOfViewport"
    THEN << Entry("TIMER", "setTimeout fired", <<10000, 10000>>) >>
    ELSE << >>

(* Mutant: the 10 s timeout that forgets clearInterval.                    *)
PollTimeoutNoClear(p) ==
    /\ timeoutArmed[p]
    /\ timeoutArmed' = [timeoutArmed EXCEPT ![p] = FALSE]
    /\ LogAll(TimeoutEntries(p))
    /\ UNCHANGED <<intervalArmed, layers>>

(* setTimeout(() => clearInterval(checkInterval), 10000): silent.          *)
PollTimeout(p) ==
    /\ timeoutArmed[p]
    /\ timeoutArmed' = [timeoutArmed EXCEPT ![p] = FALSE]
    /\ intervalArmed' = [intervalArmed EXCEPT ![p] = FALSE]
    /\ LogAll(TimeoutEntries(p))
    /\ UNCHANGED layers

PollStep(p) ==
    /\ PollTick(p) \/ PollTimeout(p)
    /\ UNCHANGED <<installed, defined, attached, listeners, calls, threw, overlay, watched, rendered>>

(***************************************************************************)
(* VisualDebug.addMonitorOverlay(m, status), once per layer: the first     *)
(* call creates the monitor's overlay div, every call sets its text; with  *)
(* no liveStream<id> element in the document it returns at once.  A       *)
(* wrapped call writes `first` before the original and `second` after it, *)
(* so a throw leaves `first`; with no layer nothing is written.  STARTED's *)
(* player name is left out.                                                *)
(***************************************************************************)

CallOverlay(m, n, first, second, returns) ==
    IF n = 0 \/ m \notin rendered THEN overlay
    ELSE [overlay EXCEPT ![m] = IF returns THEN second ELSE first]

(***************************************************************************)
(* The page calls the MonitorStream methods of monitor m (montage.js);     *)
(* the call goes through every wrapper layer to the original, which       *)
(* returns or throws.  A throw propagates out of every layer before its   *)
(* second entry, so only the 'starting' / 'stopping' entries are logged.  *)
(***************************************************************************)
StartCall(m, returns) ==
    LET n == layers["MonitorStream"]
    IN  /\ LogAll(Times(n, Entry("VIDEO", "starting", <<m>>))
                  \o IF returns THEN Times(n, Entry("VIDEO", "start completed", <<m>>))
                     ELSE << >>)
        /\ threw' = IF ~returns /\ n > 0 THEN threw \cup {m} ELSE threw
        /\ overlay' = CallOverlay(m, n, "STARTING", "STARTED", returns)

StopCall(m, returns) ==
    LET n == layers["MonitorStream"]
    IN  /\ LogAll(Times(n, Entry("VIDEO", "stopping", <<m>>))
                  \o IF returns THEN Times(n, Entry("VIDEO", "stopped", <<m>>))
                     ELSE << >>)
        /\ overlay' = CallOverlay(m, n, "STOPPING", "STOPPED", returns)
        /\ UNCHANGED threw

PageCall(m) ==
    /\ defined["MonitorStream"]
    /\ calls < MaxCalls
    /\ calls' = calls + 1
    /\ \E returns \in BOOLEAN : StartCall(m, returns) \/ StopCall(m, returns)
    /\ UNCHANGED <<installed, defined, intervalArmed, timeoutArmed, layers,
                   attached, listeners, watched, rendered>>

(* A call of isOutOfViewport(elem) (montage.js or the driver): the         *)
(* original's result, then one 'isOutOfViewport check' per layer.          *)
ViewportCheck ==
    /\ defined["isOutOfViewport"]
    /\ calls < MaxCalls
    /\ calls' = calls + 1
    /\ LogAll(Times(layers["isOutOfViewport"],
                    Entry("VIEWPORT", "isOutOfViewport check", <<>>)))
    /\ UNCHANGED <<installed, defined, intervalArmed, timeoutArmed, layers,
                   attached, listeners, threw, overlay, watched, rendered>>

(***************************************************************************)
(* A media element e is inserted, as an added node itself or inside an     *)
(* added container.  The observer (once installed) sees the added node:    *)
(* a media tag is given to trackVideoElement, which logs the element and   *)
(* adds its set of lifecycle listeners.                                    *)
(***************************************************************************)
Insert(e) ==
    /\ ~attached[e]
    /\ calls < MaxCalls
    /\ calls' = calls + 1
    /\ attached' = [attached EXCEPT ![e] = TRUE]
    /\ watched' = [watched EXCEPT ![e] = installed]
    /\ \E nested \in Nesting :
         IF installed /\ ~nested
         THEN /\ listeners' = [listeners EXCEPT ![e] = @ + 1]
              /\ Log(Entry("VIDEO", "New element added", <<>>))
         ELSE UNCHANGED <<listeners, logVars>>
    /\ UNCHANGED <<installed, defined, intervalArmed, timeoutArmed, layers, threw,
                   overlay, rendered>>

(* The element leaves the document; its listeners stay on it.             *)
Detach(e) ==
    /\ attached[e]
    /\ attached' = [attached EXCEPT ![e] = FALSE]
    /\ UNCHANGED <<logVars, installed, defined, intervalArmed, timeoutArmed,
                   layers, listeners, calls, threw, overlay, watched, rendered>>

(* A lifecycle event (loadstart, canplay, playing, stalled, ...) on e, in  *)
(* the document or with listeners left on it: every listener attached for *)
(* it logs 'Video event: <name>', and with none nothing is logged.        *)
MediaEvent(e) ==
    /\ attached[e] \/ listeners[e] > 0
    /\ calls < MaxCalls
    /\ calls' = calls + 1
    /\ LogAll(Times(listeners[e], Entry("VIDEO", "Video event", <<>>)))
    /\ UNCHANGED <<installed, defined, intervalArmed, timeoutArmed, layers,
                   attached, listeners, threw, overlay, watched, rendered>>

Next ==
    \/ Install
    \/ \E p \in Primitives : Define(p) \/ PollStep(p)
    \/ \E m \in Monitors : PageCall(m)
    \/ ViewportCheck
    \/ \E e \in Elements : Insert(e) \/ Detach(e) \/ MediaEvent(e)

(* The browser runs the poll's timers; the page owes nothing.              *)
Fairness == \A p \in Primitives : WF_vars(PollStep(p))

Spec == Init /\ [][Next]_vars /\ Fairness

(***************************************************************************)
(* The installation poll self-cancels (spec section 5): every armed poll   *)
(* interval is eventually cleared, by the tick that wraps or by the 10 s   *)
(* timeout, even if the page never defines the global.                     *)
(***************************************************************************)
PollSettles == \A p \in Primitives : intervalArmed[p] ~> ~intervalArmed[p]

(***************************************************************************)
(* Spec 4.3 and 7(b): a poll abandoned by its timeout is logged as a       *)
(* WARNING.  The timeout callback only calls clearInterval.                *)
(***************************************************************************)
AbandonLogged ==
    [][ \A p \in Primitives :
          (intervalArmed[p] /\ ~intervalArmed'[p] /\ layers'[p] = 0)
             => \E i \in 1..Len(Appended) : Appended[i].cat = "WARNING" ]_vars

(***************************************************************************)
(* Spec 4.3 and 8: each lifecycle transition of a media element inserted  *)
(* while the observer watches the document's subtree is logged, and once  *)
(* (idempotent install).  The observer checks only the added nodes        *)
(* themselves, so an element inserted inside a container is never        *)
(* tracked; and trackVideoElement adds a new set of listeners each time   *)
(* it sees the element added, so one re-inserted logs each event twice.   *)
(***************************************************************************)
MediaEventLoggedExactlyOnce ==
    [][ \A e \in Elements :
          MediaEvent(e) /\ attached[e] /\ watched[e]
            => Len(SelectSeq(Appended, LAMBDA x : x.msg = "Video event")) = 1 ]_vars

(* The overlay text for each start/stop entry of the wrappers.             *)
OverlayStatus ==
    ("starting" :> "STARTING") @@ ("start completed" :> "STARTED")
    @@ ("stopping" :> "STOPPING") @@ ("stopped" :> "STOPPED")

=============================================================================

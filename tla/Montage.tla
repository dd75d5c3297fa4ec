------------------------------ MODULE Montage ------------------------------
(***************************************************************************)
(* The init() task of src/web/js/safari-montage-debug.js and the visual    *)
(* debug panel, composed with the scroll tracker that feeds the panel.     *)
(*                                                                         *)
(* init() runs in one task: the BROWSER entry, VisualDebug.init (the panel *)
(* and its 'Initialized' entry), ScrollTracker.init, VideoTracker.init,    *)
(* TimerTracker.init, ViewportMonitor.init, the Download button appended   *)
(* to the panel, and the entry announcing window.SafariDebug.  The video   *)
(* and viewport polls and the mutation observer it starts are modelled in  *)
(* Wrappers; they never touch the panel.  All DEBUG_CONFIG switches are    *)
(* on, as the file ships.                                                  *)
(*                                                                         *)
(* VisualDebug.update inserts an entry as the panel's first child and then *)
(* removes the last child while there are more than 20.  A child is        *)
(* abstracted to its label; the scroll status entries keep their value.    *)
(***************************************************************************)
EXTENDS ScrollTracker

CONSTANT PanelLimit   \* the literal 20 of VisualDebug.update

ASSUME PanelLimit \in Nat \ {0}

VARIABLE panel        \* VisualDebug.debugPanel.children, first child first

montageVars == <<logVars, timerVars, scrollVars, panel>>

(* Mutant: the trim removes firstChild, the entry just inserted.           *)
PanelUpdateTrimFirst(p, item) ==
    LET grown == <<item>> \o p
    IN  IF Len(grown) > PanelLimit THEN Tail(grown) ELSE grown

(* One VisualDebug.update: insertBefore(entry, firstChild), then           *)
(* removeChild(lastChild) while children.length > 20.                      *)
PanelUpdate(p, item) ==
    LET grown == <<item>> \o p
    IN  SubSeq(grown, 1, Minimum(Len(grown), PanelLimit))

PanelUpdates(p, items) == FoldLeft(PanelUpdate, p, items)

(* The entries init() logs in its task, in order.                          *)
InitEntries ==
    << Entry("BROWSER", "Safari Montage Debug initialized", <<>>) >>
    \o InstallEntries
    \o << Entry("VIDEO", "Video tracker initialized", <<>>),
          Entry("TIMER", "Timer tracking initialized", <<>>),
          Entry("BROWSER", "Debug API exposed to window.SafariDebug", <<>>) >>

(* init(): the panel with its first entry, then the Download button.       *)
MontageInit ==
    /\ ~installed
    /\ installed' = TRUE
    /\ LogAll(InitEntries)
    /\ panel' = Append(PanelUpdates(<< >>, <<"Initialized">>), "Download")
    /\ UNCHANGED <<timerVars, hasScrollEnd, monitorsDefined, isScrolling,
                   scrollCount, scrollEndTimeout, scrolling, endQueued>>

(* onScrollEnd's updates: status IDLE, the scroll count, and the visible   *)
(* monitors when logVisibleMonitors gets past its guard.                   *)
EndUpdates ==
    <<"IDLE", "Scroll Count">> \o IF monitorsDefined THEN <<"Visible Monitors">> ELSE << >>

(* scrollHandler; scrollStartHandler updates the status on IDLE -> SCROLLING. *)
MScrollEvent(t) ==
    /\ ScrollEvent(t)
    /\ panel' = IF isScrolling THEN panel ELSE PanelUpdate(panel, "SCROLLING")

MDebounceFires(id) ==
    /\ DebounceFires(id)
    /\ panel' = PanelUpdates(panel, EndUpdates)

MNativeScrollEnd(t) ==
    /\ NativeScrollEnd(t)
    /\ panel' = PanelUpdates(panel, EndUpdates)

MNext ==
    \/ MontageInit
    \/ MonitorsCreated /\ UNCHANGED panel
    \/ \E t \in Targets :
          \/ (GestureStarts(t) \/ GestureEnds(t)) /\ UNCHANGED panel
          \/ MScrollEvent(t)
          \/ MNativeScrollEnd(t)
    \/ \E id \in DOMAIN pending : MDebounceFires(id)

(* The browser runs due timers and delivers queued events, as for the      *)
(* scroll tracker alone.                                                   *)
MFairness ==
    /\ \A id \in 1..MaxTimers : WF_montageVars(MDebounceFires(id))
    /\ \A t \in Targets : WF_montageVars(MNativeScrollEnd(t))

MInit == LogInit /\ TimerInit /\ ScrollInit /\ panel = << >>

MSpec == MInit /\ [][MNext]_montageVars /\ MFairness

(***************************************************************************)
(* The panel tells the truth about scrolling: once it shows a scroll       *)
(* status, the newest one is SCROLLING exactly while the tracker is        *)
(* SCROLLING, through the race of native scrollend with the debounce and   *)
(* with older entries trimmed from the panel.                              *)
(***************************************************************************)
PanelShowsScrollState ==
    LET shown == SelectSeq(panel, LAMBDA c : c \in {"SCROLLING", "IDLE"})
    IN  /\ isScrolling => shown # << >>
        /\ shown # << >> => (Head(shown) = "SCROLLING" <=> isScrolling)

(***************************************************************************)
(* init() adds the Download button to the panel for the page's life: the   *)
(* trim is commented 'Keep only last 20 entries'.  The button is the       *)
(* panel's last child, so the trim after 19 updates removes it.            *)
(***************************************************************************)
DownloadButtonKept ==
    installed => \E i \in 1..Len(panel) : panel[i] = "Download"
=============================================================================

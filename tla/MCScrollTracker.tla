-------------------------- MODULE MCScrollTracker --------------------------
(***************************************************************************)
(* The scroll tracker on a page with two scroll targets, in a browser that *)
(* has scrollend and in one that has not (hasScrollEnd is chosen at load). *)
(* Three scroll events let a scroll re-arm its debounce twice, or two      *)
(* gestures on different targets overlap.                                  *)
(***************************************************************************)
EXTENDS ScrollTracker

MCNativeEndMsg ==
    [t \in Targets |->
        IF t = "document" THEN "Native scrollend event fired"
        ELSE "Native scrollend event fired on #content"]
(* No action reads history or stored (they are only written), so states   *)
(* that differ only there have the same futures: TLC fingerprints the rest. *)
ScrollView == <<logs, timerVars, scrollVars>>
=============================================================================

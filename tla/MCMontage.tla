----------------------------- MODULE MCMontage -----------------------------
(***************************************************************************)
(* init(), the panel and the scroll tracker on two targets, in a browser   *)
(* with scrollend and in one without.  A panel limit of 4 stands for 20:   *)
(* the trim treats every limit alike, and 4 lets three scroll events fill  *)
(* it and trim it more than once.                                          *)
(***************************************************************************)
EXTENDS Montage

MCNativeEndMsg ==
    [t \in Targets |->
        IF t = "document" THEN "Native scrollend event fired"
        ELSE "Native scrollend event fired on #content"]

(* No action reads history or stored (they are only written), so states   *)
(* that differ only there have the same futures: TLC fingerprints the rest. *)
MontageView == <<logs, timerVars, scrollVars, panel>>
=============================================================================

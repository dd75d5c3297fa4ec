----------------------------- MODULE MCWrappers -----------------------------
(***************************************************************************)
(* The wrappers with the driver's analysis of the log they produce.        *)
(* Monitor ids 1 and 10 (one id's digits a prefix of the other's), one     *)
(* media element, a log of capacity 3 so that eviction meets the video     *)
(* entries, and three page calls or media events.                           *)
(***************************************************************************)
EXTENDS Wrappers, Driver

(* No action reads history or stored (they are only written), so states   *)
(* that differ only there have the same futures: TLC fingerprints the rest. *)
WrapView == <<logs, wrapVars>>

(***************************************************************************)
(* The driver's stuck report is sound: a monitor stuckVideos lists has a   *)
(* wrapped start that really threw.  This rests on the log evicting        *)
(* oldest first: a retained 'starting' entry of a start that returned is   *)
(* followed, in the same task, by its 'start completed', which is newer    *)
(* and so retained too.                                                    *)
(***************************************************************************)
StuckReportSound == StuckMonitors(logs) \subseteq threw

(***************************************************************************)
(* The driver's stuck report is complete: a monitor whose 'starting' entry *)
(* is in the capture and none of whose starts ever completed is listed.    *)
(* The includes(`Monitor ${id}`) match lets a completed Monitor 10 hide a  *)
(* stuck Monitor 1.                                                        *)
(***************************************************************************)
StuckReportComplete ==
    \A k \in Monitors :
        ( /\ \E i \in 1..Len(logs) : IsStarting(logs[i]) /\ logs[i].arg[1] = k
          /\ ~\E i \in 1..Len(history) : IsCompleted(history[i]) /\ history[i].arg[1] = k )
        => k \in StuckMonitors(logs)
=============================================================================

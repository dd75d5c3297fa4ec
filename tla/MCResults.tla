----------------------------- MODULE MCResults -----------------------------
(***************************************************************************)
(* The results directory and the comparison engine, checked together with  *)
(* the browser detection whose label heads every capture.  TLC evaluates   *)
(* the assumption once, before the search, on every run of this module.   *)
(***************************************************************************)
EXTENDS Results, BrowserInfo

(* isSafari's scan agrees with the regex's meaning (see BrowserInfo).      *)
ASSUME IsSafariMatchesRegex
=============================================================================

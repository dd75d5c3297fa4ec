---------------------------- MODULE BrowserInfo ----------------------------
(***************************************************************************)
(* BrowserInfo of src/web/js/safari-montage-debug.js: the browser flags    *)
(* read from navigator.userAgent.  A user agent is abstracted to the       *)
(* sequence of the words the regexes look for (case folded, the /i flag),  *)
(* with "x" for any other text.                                            *)
(***************************************************************************)
EXTENDS Integers, Sequences

Words == {"chrome", "android", "safari", "edge", "x"}

(* The words the negative lookahead (?!chrome|android) refuses.           *)
NotSafari == {"chrome", "android"}

(***************************************************************************)
(* /^((?!chrome|android).)*safari/i.test(ua), as the matcher runs it from  *)
(* the anchor: each position the group consumes must not start chrome or   *)
(* android, and the match succeeds at the first safari.                    *)
(***************************************************************************)
RECURSIVE IsSafari(_)
IsSafari(ua) ==
    IF ua = << >> THEN FALSE
    ELSE IF Head(ua) = "safari" THEN TRUE
    ELSE IF Head(ua) \in NotSafari THEN FALSE
    ELSE IsSafari(Tail(ua))

(* /chrome/i.test(ua) && !/edge/i.test(ua).                                *)
IsChrome(ua) ==
    (\E i \in 1..Len(ua) : ua[i] = "chrome") /\ ~\E i \in 1..Len(ua) : ua[i] = "edge"

(* The capture's browser label (LogSystem.log).                            *)
BrowserLabel(ua) ==
    IF IsSafari(ua) THEN "Safari" ELSE IF IsChrome(ua) THEN "Chrome" ELSE "Other"

(* What the regex denotes: some safari with no chrome or android before it. *)
SafariMatches(ua) ==
    \E j \in 1..Len(ua) : ua[j] = "safari" /\ \A i \in 1..(j - 1) : ua[i] \notin NotSafari

(* The user agents of at most MaxUALength words.                           *)
UserAgents(n) == UNION { [1..k -> Words] : k \in 0..n }

MaxUALength == 4

(***************************************************************************)
(* The scan that isSafari performs agrees with the regex's meaning on      *)
(* every user agent of up to four words: Chrome's 'Chrome/.. Safari/..'    *)
(* and Android's '..Android.. Safari' are not Safari, while an agent       *)
(* that names Safari before Chrome is.                                     *)
(***************************************************************************)
IsSafariMatchesRegex ==
    \A ua \in UserAgents(MaxUALength) : IsSafari(ua) = SafariMatches(ua)
=============================================================================

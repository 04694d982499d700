---------------------------- MODULE AlertPromise ----------------------------
(***************************************************************************)
(* What one debounced flag promises, without counters: a finding is        *)
(* reported once the last `rise` scans in a row have all held it and       *)
(* withdrawn once the last `fall` in a row have all missed it, for the     *)
(* thresholds in force when the last of them lands.  Each scan counts      *)
(* once.  A finding the operator dismisses may be forgotten; that, like a   *)
(* restart, starts its runs again from nothing.  A restart resumes from    *)
(* what was written and announces none of it.                              *)
(***************************************************************************)
EXTENDS Integers

CONSTANTS
  Finding,   \* what a scan can find
  Threshold  \* the values the two thresholds can have

VARIABLES
  rise, fall, \* the thresholds in force
  dismissed,  \* findings that may be forgotten
  up,         \* the monitor runs
  reported,   \* findings reported and not withdrawn or forgotten
  written,    \* what a restart resumes from
  counted,    \* scans counted since the start
  inRun,      \* per finding, how many counted scans in a row have just held it
  outRun      \* per finding, how many have just missed it

operator == <<rise, fall, dismissed>>
vars == <<operator, up, reported, written, counted, inRun, outRun>>

Init ==
  /\ rise \in Threshold /\ fall \in Threshold
  /\ dismissed \subseteq Finding
  /\ up = FALSE
  /\ reported = {} /\ written = {} /\ counted = {}
  /\ inRun = [k \in Finding |-> 0] /\ outRun = [k \in Finding |-> 0]

\* Runs after the keys of `forgotten` start again and a scan holds `held`.
Extended(run, forgotten, held) ==
  [k \in Finding |-> IF k \notin held THEN 0 ELSE IF k \in forgotten THEN 1 ELSE run[k] + 1]

Without(run, forgotten) == [k \in Finding |-> IF k \in forgotten THEN 0 ELSE run[k]]

\* A scan holding `present` counts against the findings reported so far, after
\* `forgotten` has been dropped from them.
Count(before, present, forgotten) ==
  LET kept == before \ forgotten
  IN  reported' = {k \in kept : k \in present \/ outRun'[k] < fall}
                    \cup {k \in present \ kept : inRun'[k] >= rise}

NewScan(scan, present, forgotten) ==
  /\ up
  /\ scan \notin counted
  /\ counted' = counted \cup {scan}
  /\ inRun' = Extended(inRun, forgotten, present)
  /\ outRun' = Extended(outRun, forgotten, Finding \ present)
  /\ Count(reported, present, forgotten)
  /\ UNCHANGED <<operator, up, written>>

Forget(forgotten) ==
  /\ up
  /\ reported' = reported \ forgotten
  /\ inRun' = Without(inRun, forgotten)
  /\ outRun' = Without(outRun, forgotten)
  /\ UNCHANGED <<operator, up, written, counted>>

Write ==
  /\ up
  /\ written' = reported
  /\ UNCHANGED <<operator, up, reported, counted, inRun, outRun>>

\* The operator's edit is in force at the next scan, whenever it is made.
Edit ==
  /\ rise' \in Threshold /\ fall' \in Threshold /\ dismissed' \subseteq Finding
  /\ UNCHANGED <<up, reported, written, counted, inRun, outRun>>

\* A start resumes what was written; a scan at hand may be counted at once.
Resume ==
  /\ ~up /\ up'
  /\ UNCHANGED <<operator, written>>
  /\ \E forgotten \in SUBSET dismissed :
       \/ /\ counted' = {}
          /\ reported' = written \ forgotten
          /\ inRun' = [k \in Finding |-> 0] /\ outRun' = [k \in Finding |-> 0]
       \/ \E present \in SUBSET Finding :
            /\ \E scan \in counted' : counted' = {scan}
            /\ inRun' = [k \in Finding |-> IF k \in present THEN 1 ELSE 0]
            /\ outRun' = [k \in Finding |-> IF k \in present THEN 0 ELSE 1]
            /\ Count(written, present, forgotten)

\* The process ends, with or without a last write; the runs go with it.
End ==
  /\ up /\ ~up'
  /\ written' \in {written, reported}
  /\ reported' = {}
  /\ UNCHANGED <<operator, counted, inRun, outRun>>

Next ==
  \/ \E present \in SUBSET Finding, forgotten \in SUBSET dismissed :
       \E scan \in counted' : NewScan(scan, present, forgotten)
  \/ \E forgotten \in SUBSET dismissed : Forget(forgotten)
  \/ Write
  \/ Edit
  \/ Resume
  \/ End

Spec == Init /\ [][Next]_vars
=============================================================================

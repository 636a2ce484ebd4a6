--------------------------------- MODULE Wake ---------------------------------
(***************************************************************************)
(* dashboard/src/hooks/useBackendHealth.ts: the poll that tells whether    *)
(* the daemon, which its host puts to sleep, is awake.  A check re-arms    *)
(* the timer when it ends, with the delay of the health last rendered.     *)
(***************************************************************************)
EXTENDS Naturals

CONSTANT MaxFailures  \* bound: the count stops there

VARIABLES
  health, rendered,  \* the state set, and healthRef: the state last rendered
  failures,          \* consecutiveFailures
  wasHealthy,
  inFlight,
  timer,             \* "off", or the health whose interval it runs
  mounted

vars == <<health, rendered, failures, wasHealthy, inFlight, timer, mounted>>

Delays == {"unknown", "waking", "healthy", "down"}

\* check: one request at a time.
Checks == inFlight' = TRUE

Fire ==
  /\ timer # "off" /\ timer' = "off"
  /\ Checks
  /\ UNCHANGED <<health, rendered, failures, wasHealthy, mounted>>

Failed == failures' = IF failures < MaxFailures THEN failures + 1 ELSE failures
Escalated == IF failures + 1 >= 3 THEN "down" ELSE "waking"

\* What the request came to: an answer in time, a slow one, one the sleeping
\* edge gives or none, or an error of the daemon's own.
Fast == health' = "healthy" /\ failures' = 0 /\ wasHealthy' = TRUE
Slow ==
  IF wasHealthy THEN Fast ELSE health' = "waking" /\ failures' = 0 /\ UNCHANGED wasHealthy
Asleep == health' = Escalated /\ Failed /\ UNCHANGED wasHealthy
Broken == health' = "down" /\ Failed /\ UNCHANGED wasHealthy

Land ==
  /\ inFlight /\ inFlight' = FALSE
  /\ IF mounted THEN (Fast \/ Slow \/ Asleep \/ Broken) /\ timer' = rendered
     ELSE UNCHANGED <<health, failures, wasHealthy, timer>>
  /\ UNCHANGED <<rendered, mounted>>

Render ==
  /\ mounted /\ rendered # health /\ rendered' = health
  /\ UNCHANGED <<health, failures, wasHealthy, inFlight, timer, mounted>>

\* Mutant: a retry waits for the timer it has just cleared.
RetryWaits ==
  /\ mounted /\ timer' = "off" /\ health' = "waking"
  /\ UNCHANGED <<rendered, failures, wasHealthy, inFlight, mounted>>

Retry ==
  /\ mounted /\ timer' = "off" /\ health' = "waking"
  /\ Checks
  /\ UNCHANGED <<rendered, failures, wasHealthy, mounted>>

\* React may run an effect's cleanup and then the effect again.
Unmount ==
  /\ mounted /\ mounted' = FALSE /\ timer' = "off"
  /\ UNCHANGED <<health, rendered, failures, wasHealthy, inFlight>>

Mount ==
  /\ ~mounted /\ mounted' = TRUE
  /\ Checks
  /\ UNCHANGED <<health, rendered, failures, wasHealthy, timer>>

Init ==
  /\ health = "unknown" /\ rendered = "unknown" /\ failures = 0 /\ wasHealthy = FALSE
  /\ inFlight = FALSE /\ timer = "off" /\ mounted = FALSE

Next == Fire \/ Land \/ Render \/ Retry \/ Unmount \/ Mount

Spec == Init /\ [][Next]_vars

-----------------------------------------------------------------------------
\* A page that is open never stops asking, whatever the user retries and
\* whichever answer a check ends with.
PollGoesOn == mounted => inFlight \/ timer \in Delays
=============================================================================

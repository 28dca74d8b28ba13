---------------------------- MODULE StorageHealth ----------------------------
(***************************************************************************)
(* The health monitor of src/storage/StorageHealth.ts.  A check awaits its *)
(* probe, so several checks, started by different parts of the program,    *)
(* can be in flight and settle in any order.                               *)
(***************************************************************************)
EXTENDS Naturals

CONSTANTS Sources    \* the parts of the program that start checks

VARIABLES status,    \* "ok", "degraded" or "failed"
          streak,    \* consecutive failed probes, counted to two
          checks     \* the sources whose probe is in flight

healthVars == <<status, streak, checks>>

HealthInit == status = "ok" /\ streak = 0 /\ checks = {}

\* canWrite(): only a failed status stops the save layer.
CanWrite == status # "failed"

\* check() up to the await of the probe.
StartCheck(s) == checks' = checks \cup {s}

ProbeOk(s) ==
    /\ s \in checks
    /\ checks' = checks \ {s}
    /\ streak' = 0
    /\ status' = "ok"

\* One failed probe degrades, a second in a row fails.
ProbeFail(s) ==
    /\ s \in checks
    /\ checks' = checks \ {s}
    /\ streak' = IF streak < 2 THEN streak + 1 ELSE streak
    /\ status' = IF streak' = 2 THEN "failed" ELSE "degraded"
=============================================================================

---------------------------- MODULE HardwareToken ----------------------------
(***************************************************************************)
(* The detector of the administrator's USB token                           *)
(* (server/crypto/hardwareTokenDetector.ts): a probe of the machine whose  *)
(* answer is cached for 600 ms, asked again every second by a timer and,   *)
(* without the cache, before every sovereign transfer.                     *)
(***************************************************************************)

VARIABLES
  physical,   \* the token is really in its port
  attached,   \* cachedInfo.attached
  fresh       \* less than 600 ms have passed since cachedInfo.lastChecked

tokenVars == <<physical, attached, fresh>>

\* Mutant: a probe that fails leaves the cached answer as it was.
ProbeKeepsCacheOnError == {physical, attached}

\* The command lists the token, lists none, or fails: then "assume not
\* attached to be secure".
ProbeResults == {physical, FALSE}

\* What checkStatus(forceSync) can return: the cache answers while it is fresh.
CheckStatus(forceSync) ==
  ProbeResults \cup (IF fresh /\ ~forceSync THEN {attached} ELSE {})

\* The cache after a handler whose last reading was v; a probe that itself lasts
\* longer than 600 ms is followed at once by Age.
Settle(v) == attached' = v /\ fresh' = TRUE

Plug   == ~physical /\ physical' = TRUE /\ UNCHANGED <<attached, fresh>>
Unplug == physical /\ physical' = FALSE /\ UNCHANGED <<attached, fresh>>
Age    == fresh /\ fresh' = FALSE /\ UNCHANGED <<physical, attached>>

\* The timer of startPolling.
PollToken == /\ \E v \in CheckStatus(TRUE) : Settle(v)
             /\ UNCHANGED physical

=============================================================================

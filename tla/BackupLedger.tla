---------------------------- MODULE BackupLedger ----------------------------
(* What a backup with its retries promises about the files of a disc: the  *)
(* first pass decides each file once, as copied or failed; a retry can     *)
(* only turn failed into copied; and between two passes nothing changes.   *)
(* CopyJob implements this.                                                *)
EXTENDS FiniteSets

CONSTANT Files

VARIABLES phase, status

vars == <<phase, status>>

With(s) == {f \in Files : status[f] = s}

Init ==
  /\ phase = "idle"
  /\ status = [f \in Files |-> "pending"]

Begin ==
  /\ phase \in {"idle", "done"}
  /\ phase' = "copying"
  /\ status' = [f \in Files |-> "pending"]

Decide(f) ==
  /\ phase = "copying"
  /\ status[f] = "pending"
  /\ \E s \in {"copied", "failed"} : status' = [status EXCEPT ![f] = s]
  /\ UNCHANGED phase

Finish ==
  /\ phase = "copying"
  /\ phase' = "done"
  /\ UNCHANGED status

BeginRetry ==
  /\ phase = "done"
  /\ phase' = "retrying"
  /\ UNCHANGED status

Recover(f) ==
  /\ phase = "retrying"
  /\ status[f] = "failed"
  /\ status' = [status EXCEPT ![f] = "copied"]
  /\ UNCHANGED phase

FinishRetry ==
  /\ phase = "retrying"
  /\ phase' = "done"
  /\ UNCHANGED status

Next ==
  \/ Begin \/ Finish \/ BeginRetry \/ FinishRetry
  \/ \E f \in Files : Decide(f) \/ Recover(f)

Spec == Init /\ [][Next]_vars
====

------------------------------ MODULE AtomicGpt ------------------------------
(***************************************************************************)
(* What writegpt() promises its callers (gpt.h: "write the given host      *)
(* format GPT to storage media"), without blocks, copies or caches: the    *)
(* table a reader finds changes in one indivisible step, from the old      *)
(* table to the wanted one and never back, at some moment while a call is  *)
(* running; a call reports success only when the wanted table is in place; *)
(* a failed, refused or interrupted call leaves one of the two tables.     *)
(***************************************************************************)

CONSTANT Tables        \* the partition tables a caller may ask for

VARIABLES table,       \* the table a reader finds on the device
          want,        \* the table the latest call was asked to write
          busy,        \* a call is running
          result       \* what the latest call returned

avars == <<table, want, busy, result>>

Init ==
  /\ table \in Tables
  /\ want = table
  /\ busy = FALSE
  /\ result = "none"

Begin ==
  /\ ~busy
  /\ want' \in Tables
  /\ busy' = TRUE
  /\ result' = "none"
  /\ UNCHANGED table

Refuse ==
  /\ ~busy
  /\ result' = "failed"
  /\ UNCHANGED <<table, want, busy>>

\* The linearisation point: the moment the reader's answer changes.
Commit ==
  /\ busy
  /\ table' = want
  /\ UNCHANGED <<want, busy, result>>

Succeed ==
  /\ busy
  /\ table = want
  /\ busy' = FALSE
  /\ result' = "ok"
  /\ UNCHANGED <<table, want>>

GiveUp ==
  /\ busy' = FALSE
  /\ result' \in {"failed", "none"}
  /\ UNCHANGED <<table, want>>

Next == Begin \/ Refuse \/ Commit \/ Succeed \/ GiveUp

Spec == Init /\ [][Next]_avars
==============================================================================

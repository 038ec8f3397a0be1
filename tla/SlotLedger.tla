----------------------------- MODULE SlotLedger -----------------------------
(***************************************************************************)
(* What the ingestion service promises about its database, without saying  *)
(* how: the `slots` table is a ledger in which a slot, once `done` or      *)
(* `skipped`, is settled for good, and the candles are only ever replaced  *)
(* as a whole by the candles of the slots the ledger then calls `done`.    *)
(* Crashes, restarts, batches and channels are invisible at this level.    *)
(***************************************************************************)
EXTENDS Naturals

CONSTANT Slots                  \* the slots any run may be asked to ingest

VARIABLES db,                   \* status of each slot's row in `slots`
          candles               \* the slots whose trades the candles cover

vars == <<db, candles>>

\* The rows of SlotStatus, and "none" for a slot without a row.
Settled == {"done", "skipped"}
Outcome == Settled \cup {"failed"}
Status  == Outcome \cup {"none"}

Init ==
  /\ db = [s \in Slots |-> "none"]
  /\ candles = {}

\* One write transaction: any batch of slots that are not settled yet.
Record ==
  /\ db' \in [Slots -> Status]
  /\ \A s \in Slots : db'[s] # db[s] =>
        /\ db[s] \notin Settled
        /\ db'[s] \in Outcome
  /\ UNCHANGED candles

Rebuild ==
  /\ candles' = {s \in Slots : db[s] = "done"}
  /\ UNCHANGED db

Next == Record \/ Rebuild

Spec == Init /\ [][Next]_vars
=============================================================================

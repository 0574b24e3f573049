------------------------------ MODULE TxStates ------------------------------
(***************************************************************************)
(* The transaction contract shared by the coordinator, the participants    *)
(* and the control plane (packages/contracts/src/transaction.ts): the      *)
(* durable state vocabulary, the table of direct transitions, and the      *)
(* classification of a state as commit-side, abort-side or undecided.      *)
(***************************************************************************)

\* TRANSACTION_STATES.  "new" is the absence of a durable row.
TxState ==
  {"new", "manifest_reserving", "preparing", "abort_decided", "aborting",
   "aborted", "aborted_pending_manifest_cancel", "prepared",
   "commit_deciding", "commit_decided", "commit_pending_manifest",
   "manifest_registered", "committing", "committed_pending_ack",
   "committed", "quarantined"}

Decision == {"undecided", "commit", "abort", "quarantined"}

\* DIRECT_TRANSITIONS, without the quarantine exit that every state has.
ForwardTransitions ==
  [s \in TxState |->
     CASE s = "new" -> {"manifest_reserving", "preparing"}
       [] s = "manifest_reserving" ->
            {"preparing", "abort_decided", "aborted",
             "aborted_pending_manifest_cancel"}
       [] s = "preparing" -> {"abort_decided", "prepared"}
       [] s = "abort_decided" -> {"aborting"}
       [] s = "aborting" -> {"aborted", "aborted_pending_manifest_cancel"}
       [] s = "aborted" -> {}
       [] s = "aborted_pending_manifest_cancel" -> {"aborted"}
       [] s = "prepared" ->
            {"abort_decided", "commit_deciding", "commit_decided"}
       [] s \in {"commit_deciding", "commit_decided"} ->
            {"commit_pending_manifest", "manifest_registered"}
       [] s = "commit_pending_manifest" -> {"manifest_registered"}
       [] s = "manifest_registered" -> {"committing"}
       [] s = "committing" -> {"committed_pending_ack", "committed"}
       [] s = "committed_pending_ack" -> {"committed"}
       [] s = "committed" -> {}
       [] s = "quarantined" -> {"manifest_registered", "aborted"}]

DirectTransitions ==
  [s \in TxState |-> ForwardTransitions[s] \cup {"quarantined"}]

\* Same-state replay is an idempotent no-op, not a transition.
IsTransitionAllowed(from, to) == from = to \/ to \in DirectTransitions[from]

\* The states in which participants may be told to commit: the manifest
\* record of the transaction is durable.
CommitAuthorized ==
  {"manifest_registered", "committing", "committed_pending_ack", "committed"}

CommitDecidedOrLater ==
  CommitAuthorized
    \cup {"commit_deciding", "commit_decided", "commit_pending_manifest"}

AbortDecidedOrLater ==
  {"abort_decided", "aborting", "aborted_pending_manifest_cancel", "aborted"}
=============================================================================

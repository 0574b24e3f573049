----------------------------- MODULE AtomicCommit -----------------------------
(***************************************************************************)
(* What a cross-shard transaction promises, without coordinator, manifest, *)
(* messages or failures: one irrevocable verdict, taken for commit only    *)
(* when every shard holds prepared intents, carried out shard by shard,    *)
(* and told to the client only when no shard can still be in doubt.        *)
(***************************************************************************)
CONSTANT Shards

VARIABLES
  verdict,  \* "undecided", "commit" or "abort"
  part,     \* per shard: "working", "prepared", "committed" or "aborted"
  told      \* the final status a client can see: "nothing" before it is final

vars == <<verdict, part, told>>

TypeOK ==
  /\ verdict \in {"undecided", "commit", "abort"}
  /\ part \in [Shards -> {"working", "prepared", "committed", "aborted"}]
  /\ told \in {"nothing", "committed", "aborted"}

Init ==
  /\ verdict = "undecided"
  /\ part = [s \in Shards |-> "working"]
  /\ told = "nothing"

\* A prepare may arrive late, even after an abort verdict, but takes no locks
\* once the transaction was reported aborted.
Prepare(s) ==
  /\ told = "nothing"
  /\ part[s] = "working"
  /\ part' = [part EXCEPT ![s] = "prepared"]
  /\ UNCHANGED <<verdict, told>>

DecideCommit ==
  /\ verdict = "undecided"
  /\ \A s \in Shards : part[s] = "prepared"
  /\ verdict' = "commit"
  /\ UNCHANGED <<part, told>>

DecideAbort ==
  /\ verdict = "undecided"
  /\ verdict' = "abort"
  /\ UNCHANGED <<part, told>>

\* Rejected before any prepare was sent.
Reject ==
  /\ verdict = "undecided"
  /\ \A s \in Shards : part[s] = "working"
  /\ verdict' = "abort"
  /\ told' = "aborted"
  /\ UNCHANGED part

Commit(s) ==
  /\ verdict = "commit"
  /\ part[s] = "prepared"
  /\ part' = [part EXCEPT ![s] = "committed"]
  /\ UNCHANGED <<verdict, told>>

Abort(s) ==
  /\ verdict = "abort"
  /\ part[s] \in {"working", "prepared"}
  /\ part' = [part EXCEPT ![s] = "aborted"]
  /\ UNCHANGED <<verdict, told>>

TellCommitted ==
  /\ \A s \in Shards : part[s] = "committed"
  /\ verdict = "commit"
  /\ told' = "committed"
  /\ UNCHANGED <<verdict, part>>

TellAborted ==
  /\ \A s \in Shards : part[s] = "aborted"
  /\ verdict = "abort"
  /\ told' = "aborted"
  /\ UNCHANGED <<verdict, part>>

Next ==
  \/ \E s \in Shards : Prepare(s) \/ Commit(s) \/ Abort(s)
  \/ DecideCommit \/ DecideAbort \/ Reject \/ TellCommitted \/ TellAborted

Spec == Init /\ [][Next]_vars

-----------------------------------------------------------------------------
\* All or nothing: no shard commits while another one aborts.
Consistent ==
  \A s1, s2 \in Shards : ~(part[s1] = "committed" /\ part[s2] = "aborted")

\* What a client was told is what every shard did.
ToldTruth ==
  /\ told = "committed" => \A s \in Shards : part[s] = "committed"
  /\ told = "aborted" => \A s \in Shards : part[s] \notin {"prepared", "committed"}

=============================================================================

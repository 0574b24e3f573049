------------------------------ MODULE SealedLog ------------------------------
(***************************************************************************)
(* What a journal-manifest bucket, and the fleet of them, promises to the  *)
(* readers of its history: a log of decisions of which a prefix in time    *)
(* can be sealed.  A seal names exactly the decisions up to its cutoff,    *)
(* and nothing is ever added below the cutoff of a seal.  ManifestBucket   *)
(* and FleetCatalog implement it.                                          *)
(***************************************************************************)
EXTENDS Naturals

VARIABLES
  log,   \* the decisions: records [tx, at]
  seals  \* the published seals: records [cutoff, members]

logVars == <<log, seals>>

UpTo(cutoff) == {e \in log : e.at <= cutoff}

LogInit == log = {} /\ seals = {}

\* A decision is later than every sealed cutoff.
Decide(e) ==
  /\ e.at \in Nat
  /\ \A s \in seals : e.at > s.cutoff
  /\ log' = log \cup {e}
  /\ UNCHANGED seals

Seal(cutoff) ==
  /\ cutoff \in Nat
  /\ seals' = seals \cup {[cutoff |-> cutoff, members |-> UpTo(cutoff)]}
  /\ UNCHANGED log

\* Retention drops decisions, and seals that were superseded.
Expire ==
  /\ log' \subseteq log
  /\ seals' \subseteq seals

LogNext ==
  \/ \E e \in log' \ log : Decide(e)
  \/ \E s \in seals' \ seals : Seal(s.cutoff)
  \/ Expire

LogSpec == LogInit /\ [][LogNext]_logVars

\* A seal is complete for ever: a decision up to its cutoff that is still
\* held is one that it names.
SealsAreComplete == \A s \in seals : UpTo(s.cutoff) \subseteq s.members

\* Times are numbers, or nothing could be compared.
Timed == (\A e \in log : e.at \in Nat) /\ (\A s \in seals : s.cutoff \in Nat)

=============================================================================

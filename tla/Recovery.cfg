\* One fiber at a time: what the alarm and the sweeps alone carry
\* through, and the whole protocol against AtomicCommit.
CONSTANTS
  Shards = {s1, s2}
  Fibers = {f1}
  MaxResolutions = 1
SPECIFICATION FairSpec
INVARIANTS
  LocksFollowIntents
PROPERTIES
  ArmedWorkConverges
  LocksReleased
  ImplementsAtomicCommit

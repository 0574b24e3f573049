----------------------------- MODULE ManifestRow -----------------------------
(***************************************************************************)
(* The journal manifest as one transaction sees it: the reservation row of *)
(* the transaction in its JournalManifestDO bucket, and what the service   *)
(* answers to reserve, finalize, cancel, resolveQuarantine and releaseV2   *)
(* (workers/control-plane/src/journal-manifest.ts).  Each request is one   *)
(* storage transaction here; r is the answer it returns.                   *)
(***************************************************************************)
EXTENDS TxStates

VARIABLES
  mrow,        \* the row: "none", "RESERVED", "FINALIZED", "CANCELLED", or
               \* "REFUSED": no row, and reserve rejects this reservation
  mq,          \* quarantine_state: "NONE", "UNRESOLVED" or "RESOLVED"
  mreleased,   \* lifecycle_released
  resolutions  \* manifest_quarantine_resolutions: the requests honoured

manifestVars == <<mrow, mq, mreleased, resolutions>>

\* A resolution request names the terminal and the evidence that the operator
\* selected, the hash of the terminal intent or of the published record, and
\* the coordinator state that was attested when the request was forwarded.
ResolutionRequest ==
  [resolution : {"FINALIZED", "CANCELLED"}, selected : {"intent", "record"},
   attested : TxState]

ManifestReply == {"none", "ok", "refused", "quarantined", "conflict"}

ManifestTypeOK ==
  /\ mrow \in {"none", "REFUSED", "RESERVED", "FINALIZED", "CANCELLED"}
  /\ mq \in {"NONE", "UNRESOLVED", "RESOLVED"}
  /\ mreleased \in BOOLEAN
  /\ resolutions \subseteq ResolutionRequest

ManifestInit ==
  /\ mrow = "none"
  /\ mq = "NONE"
  /\ mreleased = FALSE
  /\ resolutions = {}

RowExists == mrow \in {"RESERVED", "FINALIZED", "CANCELLED"}

\* reserve: inserts the row or replays it.  A rejection is a function of the
\* frozen reservation and the bucket's identity, so it is permanent.
Reserve(r) ==
  /\ \/ /\ mrow = "none"
        /\ \/ r = "ok" /\ mrow' = "RESERVED"
           \/ r = "refused" /\ mrow' = "REFUSED"
     \/ mrow = "REFUSED" /\ r = "refused" /\ UNCHANGED mrow
     \/ RowExists /\ UNCHANGED mrow
          /\ r = IF mq = "UNRESOLVED" THEN "quarantined" ELSE "ok"
  /\ UNCHANGED <<mq, mreleased, resolutions>>

\* The common part of finalize and cancel: a terminal transition needs a row
\* that is not in quarantine, replays on the same terminal, and meeting the
\* opposite one puts the row in quarantine.
Terminate(terminal, r) ==
  /\ \/ ~RowExists /\ r = "conflict" /\ UNCHANGED <<mrow, mq>>
     \/ RowExists /\ mq = "UNRESOLVED" /\ r = "quarantined"
          /\ UNCHANGED <<mrow, mq>>
     \/ RowExists /\ mq # "UNRESOLVED" /\ mrow \in {"RESERVED", terminal}
          /\ r = "ok" /\ mrow' = terminal /\ UNCHANGED mq
     \/ RowExists /\ mq # "UNRESOLVED" /\ mrow \notin {"RESERVED", terminal}
          /\ r = "conflict" /\ mq' = "UNRESOLVED" /\ UNCHANGED mrow
  /\ UNCHANGED <<mreleased, resolutions>>

Finalize(r) == Terminate("FINALIZED", r)

Cancel(r) == Terminate("CANCELLED", r)

\* releaseV2: a row without a canonical record answers "quarantined" too.
ReleaseV2(r) ==
  /\ \/ ~RowExists /\ r = "ok" /\ UNCHANGED mreleased
     \/ mrow = "FINALIZED" /\ mq # "UNRESOLVED"
          /\ r = "ok" /\ mreleased' = TRUE
     \/ RowExists /\ ~(mrow = "FINALIZED" /\ mq # "UNRESOLVED")
          /\ r = "quarantined" /\ UNCHANGED mreleased
  /\ UNCHANGED <<mrow, mq, resolutions>>

\* The coordinator states whose attestation authorizes each resolution.
AuthorizesResolution(request) ==
  request.attested \in
    IF request.resolution = "FINALIZED"
    THEN (CommitDecidedOrLater \ {"commit_decided"}) \cup {"quarantined"}
    ELSE AbortDecidedOrLater \cup {"quarantined"}

\* The evidence a row accepts: a FINALIZED row is confirmed by its record, any
\* other by the intent, and a RESERVED row takes either terminal.
Selects(request) ==
  \/ mrow = "RESERVED" /\ request.selected = "intent"
  \/ mrow = "CANCELLED" /\ request.resolution = mrow /\ request.selected = "intent"
  \/ mrow = "FINALIZED" /\ request.resolution = mrow /\ request.selected = "record"

\* resolveQuarantine: the evidence is compared with the row as it is now, also
\* on a replay; the identical request is then known by its idempotency key,
\* otherwise the row must be in quarantine.  A RESERVED row takes the selected
\* terminal by a call that may fail after the quarantine was lifted.
ResolveQuarantine(request, r) ==
  /\ IF /\ RowExists
        /\ AuthorizesResolution(request)
        /\ Selects(request)
        /\ mq = "UNRESOLVED" \/ request \in resolutions
     THEN /\ \/ r = "ok" /\ mrow' = request.resolution
             \/ mrow = "RESERVED" /\ r = "conflict" /\ UNCHANGED mrow
          /\ mq' = IF request \in resolutions THEN mq ELSE "RESOLVED"
          /\ resolutions' = resolutions \cup {request}
     ELSE /\ r = "conflict"
          /\ UNCHANGED <<mrow, mq, resolutions>>
  /\ UNCHANGED mreleased

\* reserve with another content for this tx_id: the row is quarantined and
\* keeps the content it was created with.
ReserveOtherContent ==
  /\ RowExists
  /\ mq = "NONE"
  /\ mq' = "UNRESOLVED"
  /\ UNCHANGED <<mrow, mreleased, resolutions>>
=============================================================================

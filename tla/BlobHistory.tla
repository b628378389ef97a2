---------------------------- MODULE BlobHistory ----------------------------
(***************************************************************************)
(* BlobLifecycle with a history variable that no action reads: what has    *)
(* been needed since it was last marked.                                   *)
(***************************************************************************)
EXTENDS BlobLifecycle

VARIABLE touched   \* digests needed at some moment since their mark was set

HInit ==
  /\ Init
  /\ touched = {d \in Digests : Needed(d)}

JustMarked(d) == blobs[d] = "clear" /\ blobs'[d] = "fresh"

HStep ==
  touched' = {d \in Digests : \/ Needed(d)'
                              \/ d \in touched /\ ~JustMarked(d)}

HNext == Next /\ HStep

HSpec == HInit /\ [][HNext]_<<vars, touched>>

(* The server's ticker starts a pass every gc.interval for as long as it    *)
(* runs, a pass ends, and clock time advances.  Requests are not fair.      *)
HFairSpec ==
  /\ HSpec
  /\ WF_vars(GCStep(Ticker))
  /\ \A g \in Collectors \ {Ticker} : WF_vars(gcpc[g] # "idle" /\ GCStep(g))
  /\ \A d \in Digests : WF_vars(Retention(d))

(* "A save that reuses a blob restarts its retention period": a blob that   *)
(* content named at any time since it was marked is not swept on the        *)
(* strength of that mark (claimBlob, sweepBlob).  The preview an attachment *)
(* names is not claimed and may be.                                         *)
RetentionRestarts == \A g \in Collectors : current[g] \notin touched

(* The inductive invariant behind it: marks stand only on what has not been *)
(* needed since, and at most one sweep is open, of a blob past retention.   *)
TouchedUnmarked ==
  /\ touched \subseteq {d \in Digests : blobs[d] \in {"none", "clear"}}
  /\ \A d \in Digests : Needed(d) => d \in touched

SweepsAged ==
  /\ \A g \in Collectors : current[g] # NoDigest => blobs[current[g]] = "aged"
  /\ \A g, k \in Collectors : current[g] # NoDigest /\ current[k] # NoDigest => g = k
=============================================================================

--------------------------- MODULE UploadPromise ---------------------------
(***************************************************************************)
(* What a recoverable upload promises, whatever requests work on it, are   *)
(* repeated or die: "Persist uncertainty before dispatch.  A killed        *)
(* process can never mistakenly replay a possibly successful completion on *)
(* resume" (engines/python/src/main.py:5120).                              *)
(*                                                                         *)
(* The claim is what the recovery manifest says.  The object appears at    *)
(* most once, only after the claim has become unknown, so never after the  *)
(* upload was given up; and a completed claim is true.                     *)
(***************************************************************************)
CONSTANT Requests       \* requests that start, resume or abort the upload

VARIABLES
    claim,      \* "pending", "unknown", "completed" or "givenUp"
    published   \* requests whose object the provider has published

vars == <<claim, published>>

Init == claim = "pending" /\ published = {}

\* Completion is about to be dispatched.
Commit == claim = "pending" /\ claim' = "unknown" /\ UNCHANGED published

\* The upload fails, is cancelled, skipped or aborted.
GiveUp == claim = "pending" /\ claim' = "givenUp" /\ UNCHANGED published

\* The provider publishes the object.
Publish ==
    /\ claim = "unknown" /\ published = {}
    /\ \E r \in Requests : published' = {r}
    /\ UNCHANGED claim

\* The object has been seen at its destination.
Confirm ==
    /\ claim = "unknown" /\ published # {}
    /\ claim' = "completed"
    /\ UNCHANGED published

Next == Commit \/ GiveUp \/ Publish \/ Confirm

Spec == Init /\ [][Next]_vars
=============================================================================

---------------------------- MODULE HistoryCopy ----------------------------
(***************************************************************************)
(* The replay of a bucket's version history by the Python engine           *)
(* (engines/python/src/advanced_workflows.py): entries of a plan, content  *)
(* versions and delete markers, are written one by one to the destination, *)
(* each announced in the manifest before it is sent and recorded after it. *)
(* Requests and the process may end anywhere, an answer may be lost and    *)
(* its request carried out late, others write to the destination, and an   *)
(* operator names the version that an uncertain write has made.            *)
(*                                                                         *)
(* The lock admits one request at a time; another ends without a trace.    *)
(***************************************************************************)
EXTENDS Naturals, Sequences, SequencesExt

CONSTANTS
    EntryTotal,  \* entries of the plan, oldest first for each key
    KeyAt,       \* [1..EntryTotal -> keys]
    MarkerAt,    \* [1..EntryTotal -> BOOLEAN]: the entry is a delete marker
    MaxForeign,  \* bound: versions that others write
    MaxKills     \* bound: kills of the process

\* What the plan is: the proofs assume it, and the model checker evaluates it.
HistoryConstants == EntryTotal \in Nat /\ MarkerAt \in [1..EntryTotal -> BOOLEAN] /\ MaxKills \in Nat

Plan == 1..EntryTotal
NoEntry == 0

VARIABLES
    manifest,    \* on disk: status, entries done, the one in flight, destination versions
    step,        \* where the request that holds the lock is
    left,        \* entries it may still write (maxEntries)
    made,        \* version that the write at work has made
    versions,    \* versions at the destination, oldest first
    late,        \* entries whose request may still be carried out
    moved,       \* the source's history is no longer the plan
    kills

vars == <<manifest, step, left, made, versions, late, moved, kills>>

Version(e, key, marker) == [entry |-> e, key |-> key, marker |-> marker]
OwnVersion(e) == Version(e, KeyAt[e], MarkerAt[e])
Next1 == manifest.done + 1
Mapped == {manifest.maps[i] : i \in 1..Len(manifest.maps)}
OfKey(k) == {v \in 1..Len(versions) : versions[v].key = k}

Init ==
    /\ manifest = [status |-> "planned", done |-> 0, inFlight |-> NoEntry, maps |-> <<>>]
    /\ step = "idle" /\ left = 0 /\ made = 0
    /\ versions = <<>> /\ late = {} /\ moved = FALSE /\ kills = 0

-----------------------------------------------------------------------------
(* Others                                                                  *)

\* Somebody writes or deletes a key of the plan at the destination.
Outside(k, marker) ==
    /\ Len(SelectSeq(versions, LAMBDA v : v.entry = NoEntry)) < MaxForeign
    /\ versions' = Append(versions, Version(NoEntry, k, marker))
    /\ UNCHANGED <<manifest, step, left, made, late, moved, kills>>

SourceMoves ==
    /\ ~moved /\ moved' = TRUE
    /\ UNCHANGED <<manifest, step, left, made, versions, late, kills>>

\* A request without an answer is carried out after all.
CarriedOutLate(e) ==
    /\ e \in late
    /\ versions' = Append(versions, OwnVersion(e)) /\ late' = late \ {e}
    /\ UNCHANGED <<manifest, step, left, made, moved, kills>>

Kill ==
    /\ step # "idle" /\ kills < MaxKills
    /\ kills' = kills + 1
    /\ step' = "idle" /\ left' = 0 /\ made' = 0
    /\ UNCHANGED <<manifest, versions, late, moved>>

-----------------------------------------------------------------------------
(* A resume                                                                *)

\* Forgets the uncertain write and goes on.
BeginAgain(n) ==
    /\ step = "idle" /\ manifest.status # "completed"
    /\ manifest' = [manifest EXCEPT !.status = "running", !.inFlight = NoEntry]
    /\ step' = "walking" /\ left' = n
    /\ UNCHANGED <<made, versions, late, moved, kills>>

\* A plan without an uncertain write, at the versioned destination and the source it
\* was made for; n is the request's maxEntries.
Begin(n) ==
    /\ step = "idle" /\ manifest.status # "completed" /\ manifest.inFlight = NoEntry
    /\ ~moved
    /\ manifest' = [manifest EXCEPT !.status = "running"]
    /\ step' = "walking" /\ left' = n
    /\ UNCHANGED <<made, versions, late, moved, kills>>

\* An uncertain write is never repeated.
BeginUncertain ==
    /\ step = "idle" /\ manifest.inFlight # NoEntry
    /\ manifest' = [manifest EXCEPT !.status = "outcomeUnknown"]
    /\ UNCHANGED <<step, left, made, versions, late, moved, kills>>

\* The request ends with an error and leaves the manifest as it is.
GiveUp == step' = "idle" /\ left' = 0 /\ made' = 0

Undisturbed(k) == OfKey(k) = Mapped \cap OfKey(k)

\* The destination must have the key's mapped versions and no others; then the source
\* version is looked at.
Look ==
    /\ step = "walking" /\ left > 0 /\ Next1 \in Plan
    /\ \/ Undisturbed(KeyAt[Next1]) /\ step' = "announcing" /\ UNCHANGED <<left, made>>
       \/ GiveUp
    /\ UNCHANGED <<manifest, versions, late, moved, kills>>

Announced == [manifest EXCEPT !.status = "outcomeUnknown", !.inFlight = Next1]

\* The intent is saved before the request is sent; a write that fails may have
\* replaced the file.
Announce ==
    /\ step = "announcing"
    /\ \/ step' = "sending" /\ UNCHANGED <<left, made>>
          /\ manifest' = Announced
       \/ GiveUp /\ manifest' \in {manifest, Announced}
    /\ UNCHANGED <<versions, late, moved, kills>>

\* The copy or the delete, sent once: carried out, refused, cancelled, unanswered.
Send ==
    /\ step = "sending"
    /\ \/ /\ versions' = Append(versions, OwnVersion(manifest.inFlight))
          /\ made' = Len(versions) + 1 /\ step' = "recording" /\ UNCHANGED late
       \/ /\ versions' = Append(versions, OwnVersion(manifest.inFlight))
          /\ step' = "uncertain" /\ UNCHANGED <<late, made>>
       \/ /\ late' \in {late, late \cup {manifest.inFlight}}
          /\ step' = "uncertain" /\ UNCHANGED <<versions, made>>
    /\ UNCHANGED <<manifest, left, moved, kills>>

\* history_finish: one more entry is done.
Finished(v) ==
    [manifest EXCEPT !.status = "running", !.done = @ + 1, !.inFlight = NoEntry, !.maps = Append(@, v)]

\* The record is saved; or it is not, and then as one whose outcome is unknown; or not at all.
Record ==
    /\ step = "recording"
    /\ \/ manifest' = Finished(made) /\ step' = "walking" /\ left' = left - 1 /\ made' = 0
       \/ manifest' = [Finished(made) EXCEPT !.status = "outcomeUnknown"] /\ GiveUp
       \/ UNCHANGED manifest /\ GiveUp
    /\ UNCHANGED <<versions, late, moved, kills>>

\* The exception of the request: the manifest says that the outcome is unknown.
Unanswered ==
    /\ step = "uncertain"
    /\ manifest' = [manifest EXCEPT !.status = "outcomeUnknown"]
    /\ GiveUp
    /\ UNCHANGED <<versions, late, moved, kills>>

EndBatch ==
    /\ step = "walking" /\ (left = 0 \/ manifest.done = EntryTotal)
    /\ manifest' = [manifest EXCEPT !.status = IF manifest.done = EntryTotal THEN "completed" ELSE "running"]
    /\ GiveUp
    /\ UNCHANGED <<versions, late, moved, kills>>

-----------------------------------------------------------------------------
(* A resolution                                                            *)

\* The version that the operator names exists and is of the key and kind of the uncertain
\* write; content carries its operation identity, a delete marker has none.
Fits(v) ==
    /\ versions[v].key = KeyAt[manifest.inFlight] /\ versions[v].marker = MarkerAt[manifest.inFlight]
    /\ v \notin Mapped
    /\ ~versions[v].marker => versions[v].entry = manifest.inFlight

Resolve(v) ==
    /\ step = "idle" /\ manifest.inFlight # NoEntry
    /\ Fits(v)
    /\ manifest' = Finished(v)
    /\ UNCHANGED <<step, left, made, versions, late, moved, kills>>

-----------------------------------------------------------------------------
Next ==
    \/ \E e \in Plan, marker \in BOOLEAN : Outside(KeyAt[e], marker)
    \/ SourceMoves \/ Kill
    \/ \E e \in Plan : CarriedOutLate(e)
    \/ \E n \in Plan : Begin(n)
    \/ BeginUncertain \/ Look \/ Announce \/ Send \/ Record \/ Unanswered \/ EndBatch
    \/ \E v \in 1..Len(versions) : Resolve(v)

Spec == Init /\ [][Next]_vars

-----------------------------------------------------------------------------
(* Properties                                                              *)

Manifests == [status : {"planned", "running", "outcomeUnknown", "completed"},
              done : 0..EntryTotal, inFlight : {NoEntry} \cup Plan, maps : Seq(Nat)]
Versions == [entry : {NoEntry} \cup Plan, key : {KeyAt[e] : e \in Plan}, marker : BOOLEAN]

TypeOK ==
    /\ manifest \in Manifests
    /\ step \in {"idle", "walking", "announcing", "sending", "uncertain", "recording"}
    /\ left \in 0..EntryTotal
    /\ made \in 0..Len(versions)
    /\ versions \in Seq(Versions)
    /\ late \subseteq Plan /\ moved \in BOOLEAN /\ kills \in 0..MaxKills

\* The replay is faithful wherever it is interrupted: no entry is ever written twice;
\* the mapped versions of the entries are distinct, of their key and kind, in the
\* order of the source, and for content the very version the entry made; a written
\* content version that is not mapped is the one in flight; and a completed
\* manifest maps every entry.
HistoryFaithful ==
    /\ \A u, v \in 1..Len(versions) : versions[u].entry = versions[v].entry /\ versions[u].entry # NoEntry => u = v
    /\ Len(manifest.maps) = manifest.done
    /\ \A e \in 1..manifest.done :
          LET v == versions[manifest.maps[e]]
          IN  /\ v.key = KeyAt[e] /\ v.marker = MarkerAt[e]
              /\ ~v.marker => v.entry = e
              /\ \A f \in 1..(e - 1) : KeyAt[f] = KeyAt[e] => manifest.maps[f] < manifest.maps[e]
    /\ \A v \in 1..Len(versions) :
          versions[v].entry # NoEntry /\ ~versions[v].marker /\ v \notin Mapped =>
              manifest.inFlight = versions[v].entry
    /\ manifest.status = "completed" => manifest.done = EntryTotal
=============================================================================

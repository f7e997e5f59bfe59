--------------------------- MODULE ReplicatedLog ---------------------------
(* What asynchronous replication promises, without offsets, buffers or      *)
(* children: a replica holds a past value of the log, advances one write at *)
(* a time and in order, and may be set to another past value at any time,   *)
(* because a full resynchronisation does not remember what it replaced.     *)
EXTENDS Naturals, Sequences

CONSTANTS Replicas, Writes

VARIABLES log, copy

Past(l) == {SubSeq(l, 1, n) : n \in 0 .. Len(l)}

LogInit == log = <<>> /\ copy = [r \in Replicas |-> <<>>]

AppendWrite(w) == log' = Append(log, w) /\ UNCHANGED copy

Advance(r) ==
  /\ Len(copy[r]) < Len(log)
  /\ copy' = [copy EXCEPT ![r] = Append(@, log[Len(@) + 1])]
  /\ UNCHANGED log

Resynchronise(r) ==
  /\ \E p \in Past(log) : copy' = [copy EXCEPT ![r] = p]
  /\ UNCHANGED log

LogNext ==
  \/ \E w \in Writes : AppendWrite(w)
  \/ \E r \in Replicas : Advance(r) \/ Resynchronise(r)

ReplicatedLogSpec == LogInit /\ [][LogNext]_<<log, copy>>
============================================================================

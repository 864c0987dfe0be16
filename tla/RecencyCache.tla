---------------------------- MODULE RecencyCache ----------------------------
(***************************************************************************)
(* What a least-recently-used cache promises: a key is found, with the last  *)
(* value put under it, as long as fewer than capacity other keys have been   *)
(* put or found since.                                                      *)
(***************************************************************************)
EXTENDS Naturals, Sequences

CONSTANTS Keys, Values
VARIABLES
    capacity,  \* given when the cache is made
    entries,   \* <<key, value>>, the most recently used first
    reply      \* of the last call

AtMost(n, s) == SubSeq(s, 1, IF Len(s) > n THEN n ELSE Len(s))

\* The places of a key, one at most, and the entries of the other places.
At(k) == {i \in DOMAIN entries : entries[i][1] = k}

Without(i) == SubSeq(entries, 1, i - 1) \o SubSeq(entries, i + 1, Len(entries))

Find(k) ==
    \/ \E i \in At(k) :
          /\ entries' = <<entries[i]>> \o Without(i)
          /\ reply' = <<"found", k, entries[i][2]>>
    \/ /\ At(k) = {}
       /\ reply' = <<"missed", k>>
       /\ UNCHANGED entries

Store(k, v) ==
    /\ \/ \E i \in At(k) : entries' = <<<<k, v>>>> \o Without(i)
       \/ At(k) = {} /\ entries' = AtMost(capacity, <<<<k, v>>>> \o entries)
    /\ reply' = <<"stored", k, v>>

Forget == entries' = <<>> /\ reply' = <<"cleared">>

RecencyNext ==
    /\ Forget \/ \E k \in Keys : Find(k) \/ \E v \in Values : Store(k, v)
    /\ UNCHANGED capacity

RecencySpec ==
    /\ capacity \in Nat /\ entries = <<>> /\ reply = <<>>
    /\ [][RecencyNext]_<<capacity, entries, reply>>
=============================================================================

----------------------------- MODULE MCIndexTree -----------------------------
(* Entries with which TLC checks IndexTree. *)
EXTENDS IndexTree

CONSTANTS v, w     \* values

MCWants == {{v}, {w}, {v, w}}

\* Each key with one value, and one in the middle with a second one.
MCEntries == {<<k, v>> : k \in Key} \cup {<<4, w>>}
=============================================================================

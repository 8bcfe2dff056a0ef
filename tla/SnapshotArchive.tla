--------------------------- MODULE SnapshotArchive ---------------------------
(***************************************************************************)
(* What a snapshot scraper promises about the database, whatever it does   *)
(* to get there.  A regional feed publishes versions; the archive takes    *)
(* over one whole version at a time, in the same instant as the pointer    *)
(* that says which version was last taken.  There is no process here, no   *)
(* HTTP, no batch, no transaction and no failure: the modules of the two   *)
(* polling loops (BlizzardPoll, TSMPoll) show that what they commit is     *)
(* never anything else.                                                    *)
(***************************************************************************)
EXTENDS Integers

CONSTANTS
  Region,   \* the polled regions
  Version,  \* the versions a feed may publish
  Content,  \* Content[v]: the set of entries version v lists
  Stamp,    \* Stamp[v]: what orders versions, a positive number
  Time,     \* the instants an archived entry may be filed under
  Repeats   \* may the version the pointer names be archived once more?

VARIABLES
  available,  \* available[r]: the version feed r serves
  archive,    \* the archived entries
  pointer     \* pointer[r]: stamp of the version last archived, 0 for none

vars == <<available, archive, pointer>>

Entries(r, v, t) == {[region |-> r, entry |-> e, at |-> t] : e \in Content[v]}

FiledUnder(r, t) == {a \in archive : a.region = r /\ a.at = t}

Init ==
  /\ available \in [Region -> Version]
  /\ archive = {}
  /\ pointer = [r \in Region |-> 0]

Publish(r) ==
  /\ \E v \in Version : available' = [available EXCEPT ![r] = v]
  /\ UNCHANGED <<archive, pointer>>

\* A version newer than the pointer (or the same one, where repeats are
\* tolerated) enters the archive whole, under an instant of its own.
Ingest(r) ==
  \E v \in Version, t \in Time :
    /\ \/ Stamp[v] > pointer[r]
       \/ Repeats /\ Stamp[v] = pointer[r]
    /\ FiledUnder(r, t) = {}
    /\ archive' = archive \cup Entries(r, v, t)
    /\ pointer' = [pointer EXCEPT ![r] = Stamp[v]]
    /\ UNCHANGED available

Next == \E r \in Region : Publish(r) \/ Ingest(r)

Spec == Init /\ [][Next]_vars

=============================================================================

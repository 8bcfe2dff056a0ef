------------------------------ MODULE MC_TSMPoll ------------------------------
(***************************************************************************)
(* The files a region publishes in the runs of TSMPoll.                    *)
(***************************************************************************)
EXTENDS TSMPoll

Items(t, items) == [k \in DOMAIN items |-> [item |-> items[k], at |-> t]]

\* Well-formed files around every kind of file that is refused: mixed
\* timestamps (inside a batch of two and across two), a repeated item, a row
\* that does not parse after a copied batch, no rows, older than the last.
EveryKindOfFile ==
  << Items(2, <<1, 2>>),
     Items(3, <<1, 2>>) \o Items(4, <<3>>),
     Items(3, <<1, 2, 1>>),
     <<>>,
     Items(3, <<2, 3, 0>>),
     Items(1, <<3>>),
     Items(5, <<1, 2, 3>>) >>

\* Timestamps in publication order.
InOrder == << Items(1, <<1>>), Items(2, <<1, 2, 3>>) >>

=============================================================================

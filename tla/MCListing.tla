------------------------------ MODULE MCListing ------------------------------
(* The constants of the runs of Listing.                                    *)
EXTENDS ListingProperties, TLC

CONSTANTS home, branch, w1, w2, c1

\* The default, and all there is.
SomeWindows == {<<>>, <<0, 1>>}

\* What is written after the last page is of no interest.
Paging == \E c \in Walker : walk[c].pc # "done"

SymmetricWriters == Permutations({w1, w2})
==============================================================================

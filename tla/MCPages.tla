------------------------------- MODULE MCPages -------------------------------
(***************************************************************************)
(* PageLoader twice: faults and loads that meet at a full queue while a    *)
(* release is in progress, where every access must end, and faults of a    *)
(* chunked source with a speculative tail behind them while Close is       *)
(* called.  A behaviour is one of one of them.                             *)
(***************************************************************************)
EXTENDS MCPageLoader

VARIABLE which

Ending == INSTANCE PageLoader WITH
    Chunked <- TRUE, FillPages <- 2, Closing <- TRUE, MaxReleases <- 0, MaxUses <- 1

MCInit ==
    \/ which = "full" /\ Init
    \/ which = "ending" /\ Ending!Init

MCNext ==
    \/ which = "full" /\ Next /\ UNCHANGED which
    \/ which = "ending" /\ Ending!Next /\ UNCHANGED which

MCSpec == MCInit /\ [][MCNext]_<<which, vars>> /\ Fairness

\* Where nobody closes the handler, every fault is resolved and every load
\* returns (PageLoader!AccessesEnd).
AllEnd == which = "full" => AccessesEnd
==============================================================================

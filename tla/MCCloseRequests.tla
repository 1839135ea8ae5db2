--------------------------- MODULE MCCloseRequests ---------------------------
(* Four instances of MonthlyClose in one run: requests that overlap on a      *)
(* short chain of closes, and with check-ins of its months; a single one at a *)
(* time on a longer chain, with movements and check-ins; and one at a time on *)
(* a chain with closes that were not ready to be settled.                     *)
EXTENDS MonthlyClose, TLC

CONSTANT solo      \* the request when there is one at a time

VARIABLE setting   \* which of the instances this behaviour is of

Alone == INSTANCE MonthlyClose WITH
           LastMonth <- 3, MaxPosts <- 1, CheckinValues <- {2}, CheckinMonths <- {2},
           CheckinIds <- {1}, Modes <- {"ready"}, Procs <- {solo}
Checking == INSTANCE MonthlyClose WITH
              MaxPosts <- 0, CheckinValues <- {2}, CheckinMonths <- Months,
              CheckinIds <- {1, 2}, Modes <- {"disabled"}
Unready == INSTANCE MonthlyClose WITH
             LastMonth <- 3, MaxPosts <- 0, CheckinValues <- {2, 3}, CheckinMonths <- {2},
             CheckinIds <- {1}, Modes <- {"disabled", "not_ready", "ready"}, Procs <- {solo}

CloseInit ==
  \/ setting \in {"overlapping", "checking"} /\ Init
  \/ setting \in {"alone", "unready"} /\ Alone!Init

CloseNext ==
  \/ setting = "overlapping" /\ Next /\ UNCHANGED setting
  \/ setting = "checking" /\ Checking!Next /\ UNCHANGED setting
  \/ setting = "alone" /\ Alone!Next /\ UNCHANGED setting
  \/ setting = "unready" /\ Unready!Next /\ UNCHANGED setting

CloseSpec == CloseInit /\ [][CloseNext]_<<vars, setting>>

\* Requests being served differ in nothing but their name.
Interchangeable == Permutations(Procs)

\* The variables of every instance keep their types.
CloseTypeOK ==
  CASE setting = "overlapping" -> TypeOK
    [] setting = "checking" -> Checking!TypeOK
    [] setting = "alone" -> Alone!TypeOK
    [] setting = "unready" -> Unready!TypeOK

\* Overlapping requests never wait for each other in a circle, on rows of closes and of
\* allocations together, as long as what closes refer to is frozen and not written over.
NoClosesWaiting == setting = "overlapping" => NoCircularWait

\* Requests that do not overlap keep what every close rests on: the figure it opened with, the
\* settlement it took over and the percentages it froze, in whatever order months are
\* finalized, reopened and locked.
ChainHolds ==
  setting \in {"alone", "unready"} =>
    Alone!BoundaryHolds /\ Alone!SettlementChainHolds /\ Alone!FrozenAllocationsHold
=============================================================================

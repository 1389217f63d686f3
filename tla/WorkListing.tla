----------------------------- MODULE WorkListing -----------------------------
(***************************************************************************)
(* kernel_module/workqueue_test/work-test.c, /proc/wq-test-info: the       *)
(* iterator that seq_read_iter drives over the entries, of which each      *)
(* read(2) returns as many as its buffer takes, at least one.              *)
(***************************************************************************)
EXTENDS Naturals, FiniteSets

CONSTANT ListedWorks   \* the entries in the idr are 0 .. ListedWorks - 1

ASSUME ListAssumption == ListedWorks \in Nat

VARIABLES
    listAt,   \* idle (between two reads), shown (c_show has returned), eof
    pos,      \* the position seq_file keeps
    listed,   \* for each entry, how often it was shown
    fullReads \* reads that ended because the buffer was full

listVars == <<listAt, pos, listed, fullReads>>
ListIds == 0 .. ListedWorks - 1

ListInit ==
    /\ listAt = "idle" /\ pos = 0
    /\ listed = [i \in ListIds |-> 0] /\ fullReads = 0

-----------------------------------------------------------------------------
(* c_start, and c_show if it returns an entry.                               *)
c_startFaulty ==
    /\ listAt = "idle"
    /\ IF pos \in ListIds
       THEN listAt' = "shown" /\ listed' = [listed EXCEPT ![pos] = @ + 1]
       ELSE listAt' = "eof" /\ UNCHANGED listed
    /\ UNCHANGED <<pos, fullReads>>
c_start ==
    /\ listAt = "idle"
    /\ IF pos \in ListIds
       THEN listAt' = "shown" /\ listed' = [listed EXCEPT ![pos] = @ + 1]
       ELSE listAt' = "eof" /\ UNCHANGED listed
    /\ pos' = pos + 1
    /\ UNCHANGED fullReads

(* c_next moves the position past the entry it returns, which is then shown, *)
(* or not, if the buffer is full.                                            *)
c_next ==
    /\ listAt = "shown"
    /\ pos' = pos + 1
    /\ \/ /\ pos \in ListIds
          /\ listed' = [listed EXCEPT ![pos] = @ + 1]
          /\ UNCHANGED <<listAt, fullReads>>
       \/ /\ pos \in ListIds
          /\ listAt' = "idle" /\ fullReads' = fullReads + 1
          /\ UNCHANGED listed
       \/ /\ pos \notin ListIds
          /\ listAt' = "idle"
          /\ UNCHANGED <<listed, fullReads>>

ListNext == c_start \/ c_next

ListFairness == WF_listVars(listAt # "idle" /\ ListNext)
ListSpec == ListInit /\ [][ListNext]_listVars /\ ListFairness

-----------------------------------------------------------------------------
(* Reading the file to its end shows no entry twice, and misses exactly one  *)
(* for each read whose buffer was full, as both c_start and c_next advance   *)
(* the position past the entry they return.                                  *)
ListingMissesOnePerFullRead ==
    /\ \A i \in ListIds : listed[i] <= 1
    /\ listAt = "eof" => Cardinality({i \in ListIds : listed[i] = 0}) = fullReads
=============================================================================

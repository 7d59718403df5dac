----------------------------- MODULE MCRecords -----------------------------
(* An instance of Records for TLC.                                           *)
EXTENDS Records

(* Payroll: a leg of 2 h 15 min that begins in the evening of the last day *)
(* and a leg abroad that crosses the end of the month.                     *)
MCDep == [f \in Legs |-> IF f = "l1" THEN 1270 ELSE 1400]
MCArr == [f \in Legs |-> IF f = "l1" THEN 1405 ELSE 1500]
MCRates ==
  {[base |-> 1, hour |-> 1, intl |-> 1, night |-> 2, diem_dom |-> 3, diem_int |-> 4]}

\* MonthlyHours: a sector of the first of two days, planned to arrive before it departs,
\* and one past the month's end.
MCStd   == [s \in Sectors |-> IF s = "s1" THEN 1380 ELSE 2900]
MCBlock == [s \in Sectors |-> IF s = "s1" THEN -3 ELSE 4]

\* OmGovernance: a check that is critical and one that is not; clauses that block,
\* warn, only inform or rest, and changes of one field and of all that bind.
MCDrafts ==
  {[key |-> "rest", affects |-> bound, type |-> type, active |-> on, params |-> "none"] :
     <<bound, type, on>> \in
       {<<"true", "blocking", "true">>, <<"true", "warning", "true">>,
        <<"false", "informational", "true">>, <<"true", "blocking", "false">>}}
MCFlags == {"true", "false", "text"}
MCChanges ==
  [{"type"} -> {"blocking", "warning"}] \cup [{"active"} -> MCFlags] \cup [{"affects"} -> MCFlags]
    \cup [{"key"} -> {"rest", "conflict"}] \cup [{"params"} -> {"set"}]
    \cup {[key |-> "rest", affects |-> "true", type |-> "blocking"]}
=============================================================================

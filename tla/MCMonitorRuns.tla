----------------------------- MODULE MCMonitorRuns -----------------------------
(* Instances of MonitorRuns for TLC.                                       *)
EXTENDS MonitorRuns

SmallBudgets == {NoCap, 2}
=============================================================================

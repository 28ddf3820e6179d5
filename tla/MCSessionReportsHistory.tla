---------------------- MODULE MCSessionReportsHistory -----------------------
(* SessionReportsHistory with the bars of MCSessionReports.                   *)
EXTENDS MCSessionReports, SessionReportsHistory
=============================================================================

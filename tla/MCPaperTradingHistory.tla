----------------------- MODULE MCPaperTradingHistory -----------------------
(* PaperTradingHistory with the bars and configurations of MCPaperTrading.   *)
EXTENDS MCPaperTrading, PaperTradingHistory
=============================================================================

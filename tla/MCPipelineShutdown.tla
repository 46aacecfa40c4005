-------------------------- MODULE MCPipelineShutdown --------------------------
(* PipelineShutdown for TLC: the two pipelines of main.py.                  *)
EXTENDS PipelineShutdown

CONSTANTS trades, orderbook

Both == {trades, orderbook}

NoCrash  == {}
AnyCrash == {"listener", "processor"}
=============================================================================

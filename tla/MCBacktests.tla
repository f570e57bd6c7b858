----------------------------- MODULE MCBacktests -----------------------------
EXTENDS Backtests, TLC
==============================================================================

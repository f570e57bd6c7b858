-------------------------- MODULE MCStrategyRegistry --------------------------
(* The instance of StrategyRegistry that TLC checks.                        *)
EXTENDS StrategyRegistry
=============================================================================

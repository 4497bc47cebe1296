----------------------- MODULE MCWRENCTIMConfigurator -----------------------
(***************************************************************************)
(* Small instances of WRENCTIMConfigurator: two targets, a scan of three   *)
(* indices that finds two actions of somebody else, one of them without a  *)
(* condition, and a third above the scan, at the index where the           *)
(* conditions of the targets begin.                                        *)
(***************************************************************************)
EXTENDS WRENCTIMConfigurator, TLC

CONSTANTS e0, e1, e2, eWidth

MCEvents      == {e0, e1, e2, eWidth}
MCTargetEvent == (0 :> e1) @@ (1 :> e2)
MCOneTarget   == (0 :> e1)
MCOldConds    == [c \in Conds |-> IF c = 0 THEN e0 ELSE IF c = 1 THEN e2
                                  ELSE None]
MCOldActs     == [a \in Acts |-> IF a = 0 THEN 1 ELSE IF a = 2 THEN 2
                                 ELSE IF a = 3 THEN 0 ELSE None]

\* Delays of 18 ms and a bit at 10 MHz, and of 2.5 s at 1 kHz, where the last
\* of the pulsers takes the last channel; a condition's own words.
MCSetting(p, c, d) == [pulser |-> p, clock |-> c, idelay |-> d]
MCOldSetting  == [a \in Acts |-> IF a = 0 THEN MCSetting(4, 25, 180042)
                                 ELSE MCSetting(254, 23, 2500)]
MCCondSetting == MCSetting(1, 0, 7000000)
=============================================================================

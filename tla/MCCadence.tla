----------------------------- MODULE MCCadence -----------------------------
(***************************************************************************)
(* Cadence on two devices: one sample of each kind device_is_idle tells    *)
(* apart, panicking ticks that take nothing or a while.                    *)
(***************************************************************************)
EXTENDS Cadence

IdleSample     == [util |-> "low",  signal |-> FALSE, mem |-> "l1", clk |-> "l1"]
BusySample     == [util |-> "high", signal |-> FALSE, mem |-> "l1", clk |-> "l1"]
UtillessParked == [util |-> "none", signal |-> FALSE, mem |-> "l1", clk |-> "absent"]
UtillessAwake  == [util |-> "none", signal |-> FALSE, mem |-> "l2", clk |-> "l2"]
UtillessSignal == [util |-> "none", signal |-> TRUE,  mem |-> "absent", clk |-> "absent"]

MCSamples == {IdleSample, BusySample, UtillessParked, UtillessAwake, UtillessSignal}
MCBodies == {0, 6000}
MCOverheads == {100}

=============================================================================

------------------------ MODULE MCTransmitterProcess ------------------------
(* A transmitter that runs, with and without a poll mode driver, and the   *)
(* launches that end before it does.                                       *)
EXTENDS TransmitterProcess, MCWRENCTIMConfigurator

MCGood == [args |-> <<"--tx">>, parses |-> TRUE, txMac |-> TRUE,
           rxMac |-> TRUE, txTransport |-> None, rxTransport |-> "af_xdp",
           platform |-> "x86_64"]

MCLaunches ==
    {MCGood,
     [MCGood EXCEPT !.args = <<"--rx", "--config", "--rx", "--tx">>,
                    !.txTransport = "intel_i210"],
     [MCGood EXCEPT !.args = <<"--tx", "--rx">>],
     [MCGood EXCEPT !.args = <<"--tx", "--config">>],
     [MCGood EXCEPT !.args = <<"path", "--tx">>],
     [MCGood EXCEPT !.args = <<>>],
     [MCGood EXCEPT !.txTransport = "cadence_gem"],
     [MCGood EXCEPT !.txTransport = "other"],
     [MCGood EXCEPT !.parses = FALSE],
     [MCGood EXCEPT !.rxMac = FALSE]}
=============================================================================

---------------------------- MODULE MCHdqGauge ------------------------------
(* A small gauge: bytes of Base values, two known device types and a gauge *)
(* of one of them or of neither, a counter that falls or wanders.          *)
EXTENDS HdqGauge
CONSTANT p
MCThreads == {p}
MCType == <<1, 0>>
MCOther == <<1, 2>>
MCStrange == <<2, 0>>
MCStatus == <<2, 2>>
MCDevices == {MCType, MCStrange}
MCKnown == {MCType, MCOther}
MCWays == {{-1}, {1, -1}}
=============================================================================

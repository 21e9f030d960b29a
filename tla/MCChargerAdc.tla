---------------------------- MODULE MCChargerAdc ----------------------------
(* Two threads reading both channels.                                        *)
EXTENDS ChargerAdc
CONSTANTS t1, t2, amps, volts
MCThreads == {t1, t2}
MCChannels == {amps, volts}
MCAll == {"read", "ctrl", "mask"}
MCCtrl == {"ctrl"}
=============================================================================

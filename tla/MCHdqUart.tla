----------------------------- MODULE MCHdqUart ------------------------------
(* Words of two bits for TLC: the address and the write flag.              *)
EXTENDS HdqUart

MCOneAddr == {<<0>>}
MCOneValue == {<<1, 0>>}
MCWeak   == {243}         \* a weak 1 pulse
MCLows   == {192}
MCBreak  == {0}           \* a break reads as 0x00
=============================================================================

------------------------------ MODULE MCI2cBus ------------------------------
(* I2cBus for TLC, with the address that adv7513.c uses (0x72).            *)
EXTENDS I2cBus, TLC
=============================================================================

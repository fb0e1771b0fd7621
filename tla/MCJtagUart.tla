----------------------------- MODULE MCJtagUart -----------------------------
(* The driver of the JTAG UART on rings and FIFOs of a few characters.     *)
EXTENDS JtagUart
=============================================================================

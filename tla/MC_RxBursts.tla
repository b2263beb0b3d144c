----------------------------- MODULE MC_RxBursts ------------------------------
(* Instances of UOP_RxBursts for TLC: those of the receive side.           *)
EXTENDS UOP_RxBursts, MC_AdapterRx
=============================================================================

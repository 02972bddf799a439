----------------------------- MODULE MCNetDrive -----------------------------
(* Values of NetDrive's constants for TLC. *)
EXTENDS NetDrive

Sliced(msb, lsb) == [sliced |-> TRUE, msb |-> msb, lsb |-> lsb]

\* The whole net and every range of a net of three bits, enough for drivers to
\* nest, chain and touch; most are out of range on a narrower net, and one is
\* reversed.
MCConnections ==
  {WholeNet, Sliced(0, 1), Sliced(0, 0), Sliced(1, 0), Sliced(2, 0),
   Sliced(1, 1), Sliced(2, 1), Sliced(2, 2)}
=============================================================================

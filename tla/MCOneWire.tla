------------------------------- MODULE MCOneWire -------------------------------
(* Instances of OneWire for TLC: ids of four bits, the last one a check bit. *)
EXTENDS OneWire

\* Ids whose last bit is the parity of the others, as a CRC would be.
MCValid == {x \in Ids : x[4] = (x[1] + x[2] + x[3]) % 2}
===============================================================================

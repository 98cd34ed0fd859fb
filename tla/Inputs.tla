-------------------------------- MODULE Inputs ---------------------------------
(* What comes into the simulator from outside: the parts of a library and the  *)
(* program of a sketch.                                                        *)
EXTENDS PartLibrary, HexLoader

(* What comes in, a manifest or a program, is taken whole and sound, or        *)
(* refused.                                                                    *)
InputsAreVetted == LibraryIsSound /\ ImageIsAsWritten
===============================================================================

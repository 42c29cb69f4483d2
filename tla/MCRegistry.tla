----------------------------- MODULE MCRegistry -----------------------------
(* Instances of Registry for TLC.                                          *)
EXTENDS Registry, TLC

CONSTANTS admin, reader

MCAnything == [c \in Clients |-> Kinds]
MCCreateAndGet == [c \in Clients |-> IF c = admin THEN {"create"} ELSE {"get"}]

MCSymmetry == Permutations(Clients) \union Permutations(Versions)

=============================================================================

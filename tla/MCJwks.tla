------------------------------- MODULE MCJwks -------------------------------
(* Small instances of Jwks: keys a and b rotate, b being unknown to everybody
   until it is published; x has an unsupported curve. *)
EXTENDS Jwks

CONSTANTS a, b, x

MCKids    == {a, b, x}
MCUsable  == {a, b}
MCKeySets == {{a, x}, {a, b}, {b}}
=============================================================================

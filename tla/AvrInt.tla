------------------------------- MODULE AvrInt -------------------------------
(***************************************************************************)
(* The integers of the firmware's compiler: avr-gcc's int has 16 bits, as  *)
(* has the uint16_t of a packet's fields. A sum of two ints, or of two     *)
(* uint16_t that becomes an int, wraps (the AVR's add does, and gcc has no *)
(* reason to do otherwise in the sums here).                               *)
(***************************************************************************)
EXTENDS Integers

IntMax == 32767
UInt16 == 0..65535

\* the int of the same 16 bits as n, a number of at most 65535
Int16(n) == IF n > IntMax THEN n - 65536 ELSE n
=============================================================================

------------------------------ MODULE ByteFile ------------------------------
(***************************************************************************)
(* What an application expects of one file of the mounted drive: a string  *)
(* of bytes that a write overwrites or extends, the gap it may leave       *)
(* filled with zeros, and that a resize truncates or zero-extends.  There  *)
(* are no pages, no archive behind the file and no quota here; FileContent *)
(* implements this module.                                                 *)
(***************************************************************************)
EXTENDS Integers, Sequences

CONSTANTS
    Byte,       \* the values of a byte
    Zero,       \* the byte 0
    MaxSize,    \* largest file size the size field can hold
    Inputs,     \* the non-empty byte strings a caller writes
    Initial     \* the bytes of the file when it is projected, [0 .. n-1 -> Byte]

VARIABLES
    length,     \* the size of the file
    bytes       \* its bytes, a function of 0 .. length - 1

vars == <<length, bytes>>

Larger(a, b) == IF a > b THEN a ELSE b

Init == \E n \in 0 .. MaxSize :
            /\ DOMAIN Initial = 0 .. n - 1
            /\ length = n
            /\ bytes = Initial

\* The file after input has been written at offset.
Write(offset, input) ==
    /\ length' = Larger(length, offset + Len(input))
    /\ bytes' = [i \in 0 .. length' - 1 |->
                    IF offset <= i /\ i < offset + Len(input) THEN input[i - offset + 1]
                    ELSE IF i < length THEN bytes[i]
                    ELSE Zero]

\* The file cut or zero-extended to newSize bytes.
Resize(newSize) ==
    /\ length' = newSize
    /\ bytes' = [i \in 0 .. newSize - 1 |-> IF i < length THEN bytes[i] ELSE Zero]

Next ==
    \/ \E offset \in 0 .. MaxSize, input \in Inputs :
          offset + Len(input) <= MaxSize /\ Write(offset, input)
    \/ \E newSize \in 0 .. MaxSize : Resize(newSize)

Spec == Init /\ [][Next]_vars

=============================================================================

------------------------------ MODULE InStream ------------------------------
(***************************************************************************)
(* What an input stream promises, whatever it reads ahead: a call receives *)
(* the bytes of the file from the stream's position on, one after the      *)
(* other, except that bytes that were pushed back come first, the youngest *)
(* before the older ones, each at the position it was pushed back to.      *)
(***************************************************************************)
EXTENDS Integers, Sequences

CONSTANT Byte

VARIABLES
  disk,   \* the content of the file, which may grow
  pos,    \* the position of the next byte
  back,   \* the bytes pushed back, the next one first
  got     \* what the current or the last call has received

vars == <<disk, pos, back, got>>

Init == disk = <<>> /\ pos = 0 /\ back = <<>> /\ got = <<>>

Grow == \E b \in Byte : disk' = Append(disk, b) /\ UNCHANGED <<pos, back, got>>

\* A call starts, or one that receives nothing.
Begin == got' = <<>> /\ UNCHANGED <<disk, pos, back>>

\* The next byte, for the call in progress or as the first one of a call.
Take ==
  /\ \/ back # <<>> /\ \E before \in {<<>>, got} : got' = Append(before, Head(back))
     \/ /\ back = <<>> /\ pos < Len(disk)
        /\ \E before \in {<<>>, got} : got' = Append(before, disk[pos + 1])
  /\ pos' = pos + 1
  /\ back' = IF back = <<>> THEN <<>> ELSE Tail(back)
  /\ UNCHANGED disk

Push ==
  /\ pos > 0
  /\ \E b \in Byte : back' = <<b>> \o back
  /\ pos' = pos - 1
  /\ got' = <<>>
  /\ UNCHANGED disk

\* The stream moves, is closed or fails to do so; what was pushed back is gone.
Move == pos' \in Nat /\ back' = <<>> /\ got' = <<>> /\ UNCHANGED disk

Open == disk' = <<>> /\ pos' = 0 /\ back' = <<>> /\ got' = <<>>

Next == Grow \/ Begin \/ Take \/ Push \/ Move \/ Open

Spec == Init /\ [][Next]_vars
=============================================================================

---------------------------- MODULE StringValue ----------------------------
(***************************************************************************)
(* What a kstd::string promises to the code that mutates it: it holds one  *)
(* value, a finite sequence of characters, which assignment replaces,      *)
(* appending extends and "s = s.substr(start, length)" cuts down.  Queries *)
(* (find, find_last_of, ==) leave the value alone and are stutters here.   *)
(***************************************************************************)
EXTENDS Integers, Sequences

CONSTANTS Chars, MaxLen

VARIABLE val

Strings == UNION {[1 .. n -> Chars] : n \in 0 .. MaxLen}

Init == val = <<>>

Assign(c) == val' = c

AppendTo(c) == /\ Len(val) + Len(c) <= MaxLen
               /\ val' = val \o c

Cut(start, length) == /\ start + length <= Len(val)
                      /\ val' = SubSeq(val, start + 1, start + length)

Next == \/ \E c \in Strings : Assign(c) \/ AppendTo(c)
        \/ \E start, length \in 0 .. MaxLen : Cut(start, length)

Spec == Init /\ [][Next]_val
=============================================================================

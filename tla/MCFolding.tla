------------------------------ MODULE MCFolding -------------------------------
(***************************************************************************)
(* Folding with widths of 2, 3 and 4 bits.  Each family of operations is   *)
(* explored by itself, as deep as its identities are.                      *)
(***************************************************************************)
EXTENDS Folding

\* 0, 3, 5 and 14: each pair of bits of two leaves takes all four values.
SomeValues == {{}, {0, 1}, {0, 2}, {1, 2, 3}}

Five == Const({0, 2}, 4)
NoConstant == [op \in {} |-> {}]

\* Complements, absorption and the identities of and, or and xor.
Bitwise == [bin |-> {"and", "or", "xor"}, const |-> NoConstant, un |-> {"not"}, widths |-> {},
            select |-> FALSE, replace |-> [x |-> Leaf("y"), y |-> Five], depth |-> 5]

\* Constants that mask, or are put in.
Masks == [bin |-> {"or"}, const |-> [op \in {"and", "or"} |-> {{0}, {1, 2}, {0, 3}}], un |-> {"not"}, widths |-> {},
          select |-> FALSE, replace |-> [x |-> Leaf("y"), y |-> Five], depth |-> 4]

\* Constants that flip; none is or-ed in.
Flips == [bin |-> {"xor", "and"}, const |-> [op \in {"xor", "and"} |-> {{0, 1}, {1, 2, 3}}], un |-> {}, widths |-> {},
          select |-> FALSE, replace |-> [x |-> Leaf("y"), y |-> Five], depth |-> 4]

\* Sums and differences rewritten as bits.
Sums == [bin |-> {"add", "sub", "and", "or", "xor"}, const |-> [op \in {"add", "sub"} |-> {{0}, {0, 2}}], un |-> {"neg"},
         widths |-> {}, select |-> FALSE, replace |-> [x |-> Leaf("y")], depth |-> 3]

\* Packing and unpacking by shifts, masks and changes of width.
Layout == [bin |-> {"or"}, const |-> [shl |-> {{0}, {1}}, shr |-> {{0}, {1}}, and |-> {{0}, {0, 1}, {2}}], un |-> {"not"},
           widths |-> {2, 3, 4}, select |-> TRUE, replace |-> [x |-> Leaf("y"), y |-> Five], depth |-> 3]

\* Operations with few identities, which fold on constants.
Rest == [bin |-> {"mul", "mulhiu", "mulhis", "udiv", "urem", "sdiv", "srem", "eq", "ult", "slt", "sar", "rol", "ror"},
         const |-> [op \in {"mul", "sar"} |-> {{0}, {1}}], un |-> {"parity", "bswap"}, widths |-> {2, 3, 4},
         select |-> FALSE, replace |-> [x |-> Leaf("y"), y |-> Five], depth |-> 2]

Sound == {Bitwise, Masks, Flips, Sums, Layout, Rest}

\* Constants or-ed in and then flipped.
OrThenXor == [Bitwise EXCEPT !.bin = {}, !.un = {}, !.depth = 2, !.const = [op \in {"or", "xor"} |-> {{0}, {0, 1}, {0, 1, 2}}]]
Flattened == {OrThenXor}
===============================================================================

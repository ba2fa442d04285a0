------------------------------ MODULE MCOpSlice ------------------------------
(* rmOP and fix_gpts() on tables of four slots and devices of twelve blocks. *)
EXTENDS FixGpts, MCRmOP

\* In the KDZ files OP has two blocks, after or before userdata.
TwoKdz ==
  { <<S("persistent", 3, 3), S("userdata", 4, 8), S("OP", 9, 10), NoSlice>>,
    <<NoSlice, S("OP", 3, 4), S("userdata", 5, 9), S("persistent", 10, 10)>> }

\* None, some bytes, and a number that wraps.
AnyStray == {0, 13}

\* OP with its size in the KDZ; and a gap or a slice between OP and userdata, and
\* OP left over at the place of userdata.
AllLayouts ==
  TwoKdz \cup
  { <<S("userdata", 3, 5), S("OP", 8, 10), NoSlice, S("persistent", 11, 11)>>,
    <<S("OP", 3, 5), NoSlice, S("persistent", 6, 6), S("userdata", 7, 10)>>,
    <<S("persistent", 3, 3), S("userdata", 4, 10), S("OP", 4, 4), NoSlice>>,
    <<S("persistent", 3, 3), S("userdata", 4, 10), S("OP", 4, 6), NoSlice>> }
==============================================================================

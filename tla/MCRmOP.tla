------------------------------- MODULE MCRmOP -------------------------------
(* rmOP on tables of four slots and devices of twelve blocks. *)
EXTENDS RmOP

S(name, lo, hi) == [name |-> name, lo |-> lo, hi |-> hi]

\* OP after and before userdata, next to it or not; a gap or a slice between OP and
\* userdata; OP left over at the place of userdata.
WithUserdata ==
  { <<S("persistent", 3, 3), S("userdata", 4, 7), S("OP", 8, 10), NoSlice>>,
    <<NoSlice, S("OP", 3, 5), S("userdata", 6, 9), S("persistent", 10, 10)>>,
    <<S("persistent", 3, 3), NoSlice, S("OP", 4, 5), S("userdata", 6, 10)>>,
    <<S("userdata", 3, 5), S("OP", 8, 10), NoSlice, S("persistent", 11, 11)>>,
    <<S("userdata", 3, 5), S("persistent", 6, 7), S("OP", 8, 10), NoSlice>>,
    <<S("OP", 3, 5), S("userdata", 7, 10), S("persistent", 6, 6), NoSlice>>,
    <<S("persistent", 3, 3), S("userdata", 4, 10), S("OP", 4, 4), NoSlice>>,
    <<S("persistent", 3, 3), S("userdata", 4, 10), S("OP", 4, 6), NoSlice>> }

\* userdata is on another device.
WithoutUserdata ==
  { <<S("persistent", 3, 3), S("OP", 8, 10), NoSlice, NoSlice>> }

\* The cfg file's text at the start.
AnyCfg == {"sizes", "zeros", "nosize"}
==============================================================================

----------------------------- MODULE MCKdzSlice -----------------------------
(* A disk of six blocks with "system" on four of them. *)
EXTENDS KdzSlice

CONSTANTS a, b

TheTable == << [name |-> "modem", lo |-> 1, hi |-> 1],
               [name |-> "system", lo |-> 2, hi |-> 5],
               [name |-> "", lo |-> 1, hi |-> 1] >>

\* A sound chunk of the blocks data at addr.
Sound(slice, addr, data, trim) ==
  [slice |-> slice, device |-> "disk", addr |-> addr, size |-> Len(data),
   whole |-> TRUE, stream |-> data, ends |-> "end", sum |-> data, trim |-> trim]

First  == Sound("system", 2, <<a, b>>, 2)
Second == Sound("system", 4, <<b>>, 2)
Modem  == Sound("modem", 1, <<a>>, 1)

\* The second chunk as it should be, with a trim_count below its size, damaged
\* in one way or another, short with the right rest in the buffer; with a
\* second block.
Seconds ==
  { Second,
    [Second EXCEPT !.trim = 0],
    [Second EXCEPT !.stream = <<a>>],
    [Second EXCEPT !.stream = <<b, b>>],
    [Second EXCEPT !.stream = <<>>, !.ends = "error"],
    [Second EXCEPT !.ends = "cut"],
    [Second EXCEPT !.stream = <<>>, !.sum = <<a>>],
    [Second EXCEPT !.whole = FALSE],
    [Second EXCEPT !.device = "other"],
    Sound("system", 4, <<b, a>>, 2) }

ManyKdzs ==
  {<<First, s, Modem>> : s \in Seconds} \cup {<<Modem>>, <<Second, First>>}
==============================================================================

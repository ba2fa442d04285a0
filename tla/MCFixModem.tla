----------------------------- MODULE MCFixModem -----------------------------
(* Names that begin with one another, one of them too long for misc; short command lines. *)
EXTENDS FixModem

H990   == <<"LG-H990">>
H990ds == <<"LG-H990", "ds">>
H990N  == <<"LG-H990", "N">>
H990dsL == <<"LG-H990", "ds", "long">>
AllModels == {H990, H990ds, H990dsL}
TwoSims   == {H990ds}

AllKeys  == {"", "console", "quiet", "model.name", "lge.sim_num", "lge.dsds", "bl_unlock",
             "authorized"}
AllTexts == {"LG-H990", "ds", "N", "long", "tty", "1", "2", "3", "4", "none", "dsds", "false", "true"}

Other == Words("console", <<"tty">>)
Other2 == Words("quiet", <<>>)
Name(m) == Words("model.name", m)

\* Empty; the name first, last, twice, with everything else set; a word that is left
\* alone; a long one.
SomeLines ==
  { <<Blank>>,
    <<Name(H990), Other>>,
    <<Name(H990ds), Other, Name(H990N)>>,
    <<Other, Words("lge.sim_num", <<"1">>), Words("lge.dsds", <<"dsds">>), Name(H990)>>,
    <<Other, Words("bl_unlock", <<"true">>), Other2>>,
    <<Other, Other2, Other, Other2>> }

\* None, or words that mkbootimg had no room for before the NUL.
SomeExtras == {<<>>, <<Other2>>}
=============================================================================

---------------------------- MODULE MCLineSession ---------------------------
(***************************************************************************)
(* Settings files and lines for TLC's run of LineSession.  With a buffer   *)
(* of five bytes, lines of three to five characters are at its limits.     *)
(***************************************************************************)
EXTENDS LineSession

LOCAL INSTANCE SequencesExt

SettingsLines ==
  {<<"k", "=", "v">>, <<"k", "=">>, <<"l", "=", "v", "=", "v">>}

\* Files of pairs, and some with other lines.
FilesOfLines ==
  UNION {[1 .. n -> SettingsLines] : n \in 1 .. 2} \union
  {<<<<>>, <<"k", "=", "v">>>>, <<<<"k", "=", "v", CR>>, <<"k", "=">>>>,
   <<<<"k", "=">>, <<"v">>>>, <<<<"=", "v">>, <<"k", "=">>>>}

\* The last line may be without a line break.
MCIniFiles ==
  LET Whole(ls) == FlattenSeq([i \in 1 .. Len(ls) |-> Append(ls[i], LF)])
      whole == {Whole(ls) : ls \in FilesOfLines}
  IN  whole \union {SubSeq(f, 1, Len(f) - 1) : f \in whole}

MCTexts ==
  {<<>>, <<"/">>, <<" ", "/">>, <<"/", " ", "a">>, <<"a", "a", "a", "a">>,
   <<"/", "\t", " ", "/", "a">>}

MCHandlers == {<<"/">>, <<"/", "a">>, Star}

MCLeftovers == {<<>>, <<"a">>}
=============================================================================

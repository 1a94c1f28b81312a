----------------------------- MODULE MCLogLine -----------------------------
EXTENDS LogLine, SequencesExt

\* Conversions, texts and mistakes a format is put together from.
Pieces ==
  {<<"a">>, <<"%", "%">>, <<"%", "d">>, <<"%", "s">>, <<"%", "*", "d">>,
   <<"%", ".", "*", "s">>, <<"%", "*", ".", "*", "L", "f">>, <<"%", "l", "l", "u">>,
   <<"%", "-", "0", "1", "5", "d">>, <<"%", ".", "2", "s">>, <<"%", ".", "0", "s">>, <<"%", ".", "1", "7", "s">>,
   <<"%", "l", "f">>, <<"%", "h", "l", "h", "d">>, <<"%", "5">>}
MCFormats ==
  {FlattenSeq(q) : q \in UNION {[1..n -> Pieces] : n \in 0..3}}
MCDynValues == {-1, 0, 2}
MCPrinted == {-1, 0, 2}
=============================================================================

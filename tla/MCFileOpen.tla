----------------------------- MODULE MCFileOpen -----------------------------
EXTENDS FileOpen
Strings(n) == UNION {[1..m -> {"a", ".", "/"}] : m \in 0..n}
\* every short path against a few that share directories with it
MCPathsOf ==
  <<Strings(5),
    {<<"a", "/", "a", "/", "b">>, <<"a", "/", "b">>, <<"/", "a", "/", "b">>,
     <<".", ".", "/", "a">>, <<"b">>, <<"a">>}>>
MCCwd == <<"/", "a">>
=============================================================================

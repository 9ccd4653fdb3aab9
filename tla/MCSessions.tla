----------------------------- MODULE MCSessions -----------------------------
(* Two subjects: the first one's credentials expire and cover every channel, *)
(* the other's do neither.                                                   *)
EXTENDS Sessions

CONSTANTS s1, s2, a, b

MCTokens ==
  { [subject |-> s1, chans |-> Chans, expires |-> TRUE],
    [subject |-> s2, chans |-> {}, expires |-> FALSE] }
=============================================================================

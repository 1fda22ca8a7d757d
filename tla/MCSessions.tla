----------------------------- MODULE MCSessions -----------------------------
(* Two requests at a time, two tokens, two users who share one browser.    *)
EXTENDS WebClient, TLC

CONSTANTS alice, bob, b1, c1, c2, k1, k2

TwoUsers   == {alice, bob}
OneBrowser == {b1}
TwoCalls   == {c1, c2}
TwoTokens  == {k1, k2}

Symmetry == Permutations(TwoCalls) \cup Permutations(TwoTokens) \cup Permutations(TwoUsers)
=============================================================================

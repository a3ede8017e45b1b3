----------------------------- MODULE MCSession -----------------------------
(***************************************************************************)
(* Small instances of Session for TLC.                                     *)
(***************************************************************************)
EXTENDS Session

CONSTANTS s1, s2, chacha, aes

\* The two prefer different suites.
MCPrefs == s1 :> <<aes, chacha>> @@ s2 :> <<chacha, aes>>

\* What send_hello announces.
MCLists == {<<chacha>>}

MCTo1 == {<<s2, s1>>}
MCBothWays == {<<s1, s2>>, <<s2, s1>>}

MCStart11 == s1 :> {1} @@ s2 :> {1}
MCStart12 == s1 :> {1} @@ s2 :> {1, 2}
MCStart31 == s1 :> {3} @@ s2 :> {1}

MCQueue11 == [control |-> 1, stream |-> 1]
MCQueue12 == [control |-> 1, stream |-> 2]
=============================================================================

------------------------- MODULE MCTelegramContact -------------------------
(* Small instances of TelegramContact. *)
EXTENDS TelegramContact, TLC

CONSTANTS m1, m2, m3, u1, u2, t1, t2

MCAuthor == (m1 :> u1) @@ (m2 :> u1) @@ (m3 :> u2)
MCText == (m1 :> t1) @@ (m2 :> t2) @@ (m3 :> t1)

\* One author, another text each time.
OneAuthor == [m \in Msgs |-> u1]
MCTexts == (m1 :> t1) @@ (m2 :> t2)
=============================================================================

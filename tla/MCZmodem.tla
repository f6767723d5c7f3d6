------------------------------ MODULE MCZmodem ------------------------------
(* Two files, of three units and of one, sent to a card that has nothing,  *)
(* that has the beginning of the first and more than there is to send of   *)
(* the second, or that cannot open the second.                             *)
EXTENDS Zmodem, TLC

CONSTANTS first, second

TwoFiles == <<first, second>>
Contents == [f \in Names |-> IF f = first THEN <<1, 2, 3>> ELSE <<4>>]

Held(a, b) == [f \in Names |-> IF f = first THEN a ELSE b]
ThreeCards == {[held |-> Held(<<>>, <<>>), locked |-> {}],
               [held |-> Held(<<1>>, <<5, 6>>), locked |-> {}],
               [held |-> Held(<<1>>, <<>>), locked |-> {second}]}
=============================================================================

------------------------------- MODULE MCFraming -------------------------------
(* Framing on messages of every kind.  The two directions of a link share no  *)
(* state, so each link loads one of them.                                     *)
EXTENDS Framing

Plain(n) == [body |-> n, pad |-> 0, blanks |-> {}]
Padded(n) == [Plain(n) EXCEPT !.pad = 2]
Blank(n) == [Plain(n) EXCEPT !.blanks = {Hdr + n}]

MCTraffic ==
    {[down |-> s, up |-> <<>>] :
        s \in {<<Plain(1), Plain(0), Plain(3), Plain(2)>>, <<Plain(3), Plain(3), Plain(0)>>,
              <<Plain(0), Plain(4), Plain(1)>>}}
    \union
    {[down |-> <<>>, up |-> s] :
        s \in {<<Plain(1), Padded(1), Plain(0), Plain(1), Padded(0)>>,
               <<Padded(0), Padded(1), Plain(2)>>, <<Blank(2), Plain(0), Plain(1)>>}}
================================================================================

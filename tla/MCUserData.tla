---------------------------- MODULE MCUserData ----------------------------
(* Instances of UserData for TLC.                                          *)
EXTENDS UserData

CONSTANTS c1, w1, w2, i1, i2

\* What an anonymous device has collected: nothing, or one entity of most kinds.
Collected ==
    {<<>>,
     <<Put(<<"bookmark", c1>>, None, 0, TRUE), Put(<<"progress", c1>>, None, 1, TRUE),
       Put(<<"vocabulary", w1>>, i1, 1, TRUE)>>,
     <<Put(<<"progress", c1>>, None, 2, TRUE), Put(<<"vocabulary", w1>>, i2, 0, TRUE)>>}
=============================================================================

---------------------------- MODULE MCCatalogue ----------------------------
(* Instances of Catalogue for TLC.                                         *)
EXTENDS Catalogue, TLC

CONSTANTS s1

\* A lesson of level 1 in a series, and better ones of level 2 with grammar and a
\* topic; their pages link to an audio and a picture.
Lesson(i) ==
    [level |-> IF i = 1 THEN 1 ELSE 2, topics |-> IF i = 1 THEN {} ELSE {5},
     goals |-> IF i = 1 THEN {"vocabulary"} ELSE {"grammar"},
     quality |-> IF i = 1 THEN 3 ELSE 120, dated |-> 1,
     series |-> IF i = 1 THEN s1 ELSE None, media |-> {"audio", "other"}]
Documents == [i \in Content |-> {Lesson(i)}]

ReleasedAt(i, time) ==
    Republished(NoContent, [kind |-> "publish", doc |-> Lesson(i), started |-> time])

\* All contents are online, released together; or one of them is still to come.
Shelves ==
    {[i \in Content |-> ReleasedAt(i, 1)],
     [i \in Content |-> IF i = 1 THEN NoContent ELSE ReleasedAt(i, 1)]}

\* Nothing, a finished and a begun lesson, or two lessons that are begun.
Studied(i, ended, time) ==
    [content |-> i, completed |-> ended, begun |-> TRUE, updated |-> time]
Histories ==
    {{}, {Studied(1, FALSE, 0), Studied(2, FALSE, -1)},
     {Studied(2, TRUE, 0), Studied(1, FALSE, -1)}}
=============================================================================

-------------------------- MODULE Recommendations --------------------------
(***************************************************************************)
(* The sections of the personal home (personalizedHomeSections of          *)
(* internal/httpapi/recommendations.go) as operators on what its handler   *)
(* has read: rows, the candidates in the order of the public list, progress*)
(* with the row written last in front, the answers to grammar questions    *)
(* and the number of words in the word list.                               *)
(***************************************************************************)
EXTENDS Integers, Sequences, FiniteSets, FiniteSetsExt, SequencesExt

CONSTANTS ContinueLimit, ForYouLimit, LatestLimit   \* items in each section

ASSUME SectionAssumption == {ContinueLimit, ForYouLimit, LatestLimit} \subseteq Nat

NoLevel == 0    \* the empty string, which a NULL level never counts as

\* The members of a finite set in the order of Before, each once.
Sorted(S, Before(_, _)) ==
    [k \in 1 .. Cardinality(S) |->
        CHOOSE x \in S : Cardinality({y \in S : Before(y, x)}) = k - 1]

FirstOf(s, n) == SubSeq(s, 1, Min({n, Len(s)}))
Ids(rows) == {rows[k].id : k \in DOMAIN rows}
RowOf(rows, i) == CHOOSE row \in Range(rows) : row.id = i

Completed(progress) ==
    {p.content : p \in {q \in Range(progress) : q.completed}}

\* Lessons begun and not finished, the latest first.
Continued(rows, progress) ==
    LET begun == {k \in DOMAIN progress :
                      /\ progress[k].content \in Ids(rows)
                      /\ ~progress[k].completed /\ progress[k].begun}
        first == FirstOf(Sorted(begun, <), ContinueLimit)
    IN  [k \in DOMAIN first |-> progress[first[k]].content]

ActiveLevels(rows, progress) ==
    {RowOf(rows, p.content).level : p \in {q \in Range(progress) : q.content \in Ids(rows)}}
        \ {NoLevel}

Activity(rows, progress, level) ==
    IF level = NoLevel THEN 0
    ELSE Cardinality({p \in Range(progress) :
             p.content \in Ids(rows) /\ RowOf(rows, p.content).level = level})

\* Fault: the last of several levels with the same activity wins.
PreferredLast(rows, progress, order) ==
    LET best[k \in 0 .. Len(order)] ==
            IF k = 0 THEN NoLevel
            ELSE IF Activity(rows, progress, order[k]) >= Activity(rows, progress, best[k - 1])
            THEN order[k] ELSE best[k - 1]
    IN  best[Len(order)]

\* Whether the loop takes level instead of the best one so far.
Better(rows, progress, level, best) ==
    \/ Activity(rows, progress, level) > Activity(rows, progress, best)
    \/ Activity(rows, progress, level) = Activity(rows, progress, best) /\ level < best

\* The loop over the map of activities, which Go runs in any order.
PreferredLevel(rows, progress, order) ==
    LET best[k \in 0 .. Len(order)] ==
            IF k = 0 THEN NoLevel
            ELSE IF Better(rows, progress, order[k], best[k - 1])
            THEN order[k] ELSE best[k - 1]
    IN  best[Len(order)]

\* Less than four answers of five are right.
NeedsGrammarPractice(grammar) ==
    grammar.questions > 0 /\ 5 * grammar.correct < 4 * grammar.questions

QualityScore(row) == Min({100, Max({0, row.quality})})

MatchesLevel(row, preferred) == preferred # NoLevel /\ row.level = preferred
MatchesWords(row, words) == words > 0 /\ "vocabulary" \in row.goals
MatchesGrammar(row, grammar) == NeedsGrammarPractice(grammar) /\ "grammar" \in row.goals

\* The score of the candidate at position k.
Score(rows, k, preferred, grammar, words) ==
    QualityScore(rows[k]) + Max({0, 20 - (k - 1)})
    + (IF MatchesLevel(rows[k], preferred) THEN 18 ELSE 0)
    + (IF MatchesWords(rows[k], words) THEN Min({15, 2 * words}) ELSE 0)
    + (IF MatchesGrammar(rows[k], grammar) THEN 30 ELSE 0)

\* The reason given is that of the last rule that applied.
Reason(row, preferred, grammar, words) ==
    IF MatchesGrammar(row, grammar) THEN "grammar"
    ELSE IF MatchesWords(row, words) THEN "vocabulary"
    ELSE IF MatchesLevel(row, preferred) THEN "level" ELSE "quality"

Precedes(a, b) ==
    \/ a.score > b.score
    \/ a.score = b.score /\ a.released > b.released
    \/ a.score = b.score /\ a.released = b.released /\ a.id < b.id

\* All candidates that are neither finished nor continued, the best first.
Ranked(rows, progress, grammar, words, preferred) ==
    Sorted(
        {[id |-> rows[k].id, released |-> rows[k].released,
          score |-> Score(rows, k, preferred, grammar, words),
          reason |-> Reason(rows[k], preferred, grammar, words)] :
         k \in {k \in DOMAIN rows :
                   rows[k].id \notin Completed(progress)
                                     \cup Range(Continued(rows, progress))}},
        Precedes)

Sections(rows, progress, grammar, words, order) ==
    LET ranked == FirstOf(Ranked(rows, progress, grammar, words,
                                 PreferredLevel(rows, progress, order)), ForYouLimit)
    IN  [continue |-> Continued(rows, progress),
         forYou |-> [k \in DOMAIN ranked |-> [id |-> ranked[k].id,
                                              reason |-> ranked[k].reason]],
         latest |-> [k \in DOMAIN FirstOf(rows, LatestLimit) |-> rows[k].id]]
=============================================================================

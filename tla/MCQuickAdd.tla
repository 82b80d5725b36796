------------------------------ MODULE MCQuickAdd ------------------------------
(* Finite instance of QuickAdd for TLC: the lines a person may type.         *)
EXTENDS QuickAdd
CONSTANTS urgent, low, hal, halToday

Word(n) == Piece("word", <<n>>)
Plain(k) == Piece(k, <<>>)
Hash == Plain("hash")
At == Plain("at")
Today == Plain("today")
HAL == Word(10)

MCPhrases ==
  { <<Word(1)>>,
    <<Hash, HAL>>, <<Hash, HAL, Space, Today>>, <<Hash, Today>>,
    <<At, Today>>,
    <<Piece("p", <<1>>)>>, <<Piece("p", <<2>>)>>,
    <<Today>>,
    <<Plain("next"), Space, Piece("weekday", <<2>>)>>,
    <<Plain("next"), Space, Piece("abbr", <<1>>)>>,
    <<Plain("in"), Space, Piece("number", <<200000000>>), Space, Plain("days")>>,
    <<Plain("in")>>, <<Piece("number", <<2>>), Space, Plain("weeks")>>,
    <<Piece("iso", <<2028, 2, 29>>)>>,
    <<Piece("slash", <<3, 1>>)>>, <<Piece("slash", <<2, 30, 27>>)>> }

\* The second priority says P1; for P2, which no name says, the place counts.
MCPriorityLists ==
  { << [name |-> low, says |-> {}], [name |-> urgent, says |-> {1}] >> }
\* One name begins with the other and ends in a date; one of them may be gone.
MCProjectLists ==
  { << [id |-> hal, name |-> <<HAL>>], [id |-> halToday, name |-> <<HAL, Space, Today>>] >>,
    << [id |-> halToday, name |-> <<HAL, Space, Today>>] >> }
MCViews ==
  { [type |-> "today"], [type |-> "project", id |-> hal],
    [type |-> "label", name |-> <<Word(2)>>] }

MCOffsets == {-1, 0, 1}
MCPickedDates == {<<2028, 3, 5>>}

\* Six in the evening of 2028-02-28, a Monday in a leap year.
MCStart == NewDate(2028, 2, 28) * 4 + 3
==============================================================================

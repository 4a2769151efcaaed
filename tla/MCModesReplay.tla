--------------------------- MODULE MCModesReplay ---------------------------
(* Programs that draw on the alternate screen, with the mouse and the      *)
(* cursor switched on and off.                                              *)
EXTENDS ModesReplay

Private(m, final) == <<"esc", "[", "?", m, final>>

MCItems == {
    <<"A">>, <<"nl">>, <<"esc", "[", "m">>,
    Private("1049", "h"), Private("1049", "l"), Private("1000", "h"), Private("1000", "l"),
    Private("25", "l"), <<"esc", "[", "?", "1000", ";", "25", "h">>,
    <<"esc", "=">>, <<"esc", ">">>,
    <<"lead", "cont", "cont">>, <<"lead", "cont">>, <<"cont">>,
    <<"esc", "]", "A", "bel">>, <<"esc", "]", "A", "esc", "\\">>,
    <<"esc", "P", "A", "bel", "esc", "\\">>, <<"esc", "(", "A">> }

MCNumbers == {"1049", "1000", "25"}
MCTracked == <<"1049", "25", "1000">>
MCShown == {"25"}

=============================================================================

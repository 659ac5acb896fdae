------------------------- MODULE MCDigitAccumulator -------------------------
EXTENDS DigitAccumulator

MCDigits ==
    {<<0, 0, 0, 1>>, <<5, 0, 6, 0>>, <<9, 9, 9, 9>>, <<1, 8, 9, 9>>, <<2, 8, 9, 7>>}
MCStartAddresses == {<<9, 9, 8>>}
=============================================================================

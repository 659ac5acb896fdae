-------------------------------- MODULE Cards --------------------------------
(***************************************************************************)
(* The card code of input_output_unit.cpp: eight words to a card, one        *)
(* column for each of their digits.  A column is the set of the rows that     *)
(* are punched in it; a sign is a second punch in the last column of a word. *)
(***************************************************************************)
EXTENDS Registers, FiniteSetsExt

card_words == 8
buffer_size == 10
MinusRow == 10
PlusRow == 11

(* The number of the word on the card that column n belongs to.              *)
WordOfColumn(n, word_size) == ((n - 1) \div word_size) + 1

(* The lowest row punched, or 10 if there is none: no digit at all.          *)
ColumnDigit(column) == Min((column \cap 0 .. 9) \cup {10})

card_to_buffer(card, word_size) ==
    LET word(i) == LET first == (i - 1) * word_size
                   IN  Signed_Register(
                          [j \in 1 .. word_size |-> ColumnDigit(card[first + j])],
                          IF MinusRow \in card[first + word_size]
                          THEN MinusChar ELSE PlusChar)
    IN  [i \in 1 .. buffer_size |->
            IF i <= card_words THEN word(i) ELSE Filled(word_size, 0, PlusChar)]

(* Mutant of buffer_to_card: no sign is punched.                              *)
buffer_to_cardUnsigned(buffer, word_size) ==
    [n \in 1 .. card_words * word_size |->
        {dec(buffer[WordOfColumn(n, word_size)][((n - 1) % word_size) + 1])}]

buffer_to_card(buffer, word_size) ==
    [n \in 1 .. card_words * word_size |->
        LET word == buffer[WordOfColumn(n, word_size)]
        IN  {dec(word[((n - 1) % word_size) + 1])} \cup
               (IF n % word_size # 0 THEN {}
                ELSE IF sign(word) = PlusChar THEN {PlusRow} ELSE {MinusRow})]
=============================================================================

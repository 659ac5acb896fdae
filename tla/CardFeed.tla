------------------------------ MODULE CardFeed ------------------------------
(***************************************************************************)
(* The path of the cards of an IBM 533: from the hopper through the         *)
(* stations of a feed into the stacker.  Reader and punch have one each.     *)
(* The first of the stations is the last one a card comes to.               *)
(***************************************************************************)
EXTENDS Sequences, Naturals

CONSTANT NoCard      \* a station without a card (a null pointer)

Full(fed) == \A i \in DOMAIN fed : fed[i] # NoCard
Empty(fed) == \A i \in DOMAIN fed : fed[i] = NoCard

(* Mutant of advance: a card is stacked when it reaches the last station.    *)
advanceTooFar(d) ==
    [d EXCEPT
        !.fed = Append(Tail(@), IF d.hopper = <<>> THEN NoCard ELSE Head(d.hopper)),
        !.stacker = IF d.fed[2] = NoCard THEN @ ELSE Append(@, d.fed[2]),
        !.hopper = IF @ = <<>> THEN @ ELSE Tail(@)]

(* Mutant of advance: the exit is not asked for a card.                      *)
advanceUnchecked(d) ==
    [d EXCEPT
        !.fed = Append(Tail(@), IF d.hopper = <<>> THEN NoCard ELSE Head(d.hopper)),
        !.stacker = Append(@, d.fed[1]),
        !.hopper = IF @ = <<>> THEN @ ELSE Tail(@)]

(* All cards move on one station.                                            *)
advance(d) ==
    [d EXCEPT
        !.fed = Append(Tail(@), IF d.hopper = <<>> THEN NoCard ELSE Head(d.hopper)),
        !.stacker = IF d.fed[1] = NoCard THEN @ ELSE Append(@, d.fed[1]),
        !.hopper = IF @ = <<>> THEN @ ELSE Tail(@)]

(* The card at a station, if there is one, as a sequence.                    *)
CardAt(c) == IF c = NoCard THEN <<>> ELSE <<c>>
=============================================================================

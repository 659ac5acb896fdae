----------------------------- MODULE CardReader -----------------------------
(***************************************************************************)
(* The reading side of Input_Output_Unit and the program that reads from    *)
(* it.  A read instruction transfers the source buffer and asks for an      *)
(* advance; the program waits until the unit resumes it, which it does when  *)
(* the cards move.  Everything is a direct call: the keys of the operator    *)
(* and the instructions of the program come one at a time, in any order.     *)
(***************************************************************************)
EXTENDS CardFeed

CONSTANTS
    ReadDecks,      \* sizes of the decks put into the read hopper
    MaxReadCards    \* bound: cards put into the read hopper altogether

ASSUME ReadDecksAssumption == ReadDecks \subseteq Nat /\ MaxReadCards \in Nat

(* A null pointer is no card.                                                *)
ASSUME NoCardAssumption == NoCard \notin Nat

VARIABLES
    reader,         \* members of the unit that belong to reading, and the client
    loaded,         \* history: cards loaded so far; a card is its number
    transferred,    \* history: cards the program has taken
    run_out         \* history: see RunsOut

rvars == <<reader, loaded, transferred, run_out>>

read_feed_size == 3
Stations == 1 .. read_feed_size
ReadCards == 1 .. MaxReadCards

Readers ==
    [hopper : Seq(ReadCards), stacker : Seq(ReadCards),
     fed : [Stations -> ReadCards \cup {NoCard}],
     source_buffer : ReadCards \cup {NoCard},
     running : BOOLEAN,         \* m_read_running
     pending : BOOLEAN,         \* m_pending_read_advance
     end_of_file : BOOLEAN,
     waiting : BOOLEAN]         \* the client waits to be resumed

ReaderTypeOK ==
    /\ reader \in Readers
    /\ loaded \in 0 .. MaxReadCards
    /\ transferred \subseteq ReadCards
    /\ run_out \in BOOLEAN

ReaderInit ==
    /\ reader = [hopper |-> <<>>, stacker |-> <<>>,
                 fed |-> [i \in Stations |-> NoCard],
                 source_buffer |-> NoCard, running |-> FALSE, pending |-> FALSE,
                 end_of_file |-> FALSE, waiting |-> FALSE]
    /\ loaded = 0
    /\ transferred = {}
    /\ run_out = FALSE

----------------------------------------------------------------------------
(* The member functions, as functions of the state they change.               *)
resume_source_client(r) == [r EXCEPT !.waiting = FALSE]

(* Mutant of advance_read_cards: an empty last station is read, too.         *)
advance_read_cardsBlank(r) ==
    LET s == advance(r)
    IN  [s EXCEPT !.source_buffer = s.fed[1], !.pending = FALSE]

(* A card that comes to the last station is read.                            *)
advance_read_cards(r) ==
    LET s == advance(r)
    IN  [s EXCEPT !.source_buffer = IF s.fed[1] = NoCard THEN @ ELSE s.fed[1],
                  !.pending = FALSE]

(* Mutant of RunInCards: a pending advance is forgotten.                     *)
RunInCardsOnly(r) ==
    CASE r.hopper # <<>> /\ Full(r.fed) -> 0
      [] r.hopper = <<>> -> 1
      [] OTHER -> IF Len(r.hopper) < read_feed_size THEN Len(r.hopper) ELSE read_feed_size

(* The number of advances of read_start.                                     *)
RunInCards(r) ==
    CASE r.pending \/ r.hopper = <<>> -> 1
      [] ~r.pending /\ r.hopper # <<>> /\ Full(r.fed) -> 0
      [] OTHER -> IF Len(r.hopper) < read_feed_size THEN Len(r.hopper) ELSE read_feed_size

RunIn(r, n) ==
    CASE n = 0 -> r
      [] n = 1 -> advance_read_cards(r)
      [] n = 2 -> advance_read_cards(advance_read_cards(r))
      [] n = 3 -> advance_read_cards(advance_read_cards(advance_read_cards(r)))

read_start(r) ==
    resume_source_client(RunIn([r EXCEPT !.running = TRUE], RunInCards(r)))

read_stop(r) == [r EXCEPT !.running = FALSE]

(* Mutant of advance_source: end of file ends with the first empty station.  *)
advance_sourceWhileFull(r) ==
    LET s == [r EXCEPT !.end_of_file = @ /\ Full(r.fed), !.pending = TRUE]
    IN  IF s.running /\ (s.hopper # <<>> \/ s.end_of_file)
        THEN resume_source_client(advance_read_cards(s))
        ELSE s

(* Mutant of advance_source: the program need not wait for a stopped reader.  *)
advance_sourceAtOnce(r) ==
    LET s == [r EXCEPT !.end_of_file = @ /\ ~Empty(r.fed), !.pending = TRUE]
    IN  IF ~s.running THEN resume_source_client(s)
        ELSE IF s.hopper # <<>> \/ s.end_of_file
        THEN resume_source_client(advance_read_cards(s))
        ELSE s

(* The request is recorded first.  Without cards in the hopper it is granted *)
(* only after the end-of-file key, until the last card has left the feed.    *)
advance_source(r) ==
    LET s == [r EXCEPT !.end_of_file = @ /\ ~Empty(r.fed), !.pending = TRUE]
    IN  IF s.running /\ (s.hopper # <<>> \/ s.end_of_file)
        THEN resume_source_client(advance_read_cards(s))
        ELSE s

end_of_file(r) == advance_source([r EXCEPT !.end_of_file = TRUE])

----------------------------------------------------------------------------
(* Cards move on with no others behind them in two cases: the read-start key  *)
(* is pressed with an empty hopper, or the end-of-file key is pressed.        *)
RunsOut == reader.hopper = <<>>

(* The operator puts a deck of new cards into the hopper, in place of what   *)
(* is there.                                                                 *)
LoadReadHopper ==
    \E n \in ReadDecks :
       /\ loaded + n <= MaxReadCards
       /\ reader' = [reader EXCEPT !.hopper = [i \in 1 .. n |-> loaded + i]]
       /\ loaded' = loaded + n
       /\ UNCHANGED <<transferred, run_out>>

ReadStart ==
    /\ reader' = read_start(reader)
    /\ run_out' = (run_out \/ RunsOut)
    /\ UNCHANGED <<loaded, transferred>>

EndOfFile ==
    /\ reader' = end_of_file(reader)
    /\ run_out' = TRUE
    /\ UNCHANGED <<loaded, transferred>>

StopReading ==
    /\ reader' = read_stop(reader)
    /\ UNCHANGED <<loaded, transferred, run_out>>

(* A read instruction of a program that is not waiting: it takes the words    *)
(* from the buffer, which is the unit's own, and asks for an advance.  It may *)
(* copy them or, as the client of the tests does, empty the buffer.          *)
Read ==
    /\ ~reader.waiting
    /\ transferred' = transferred \cup ({reader.source_buffer} \ {NoCard})
    /\ \E left \in {reader.source_buffer, NoCard} :
          reader' = advance_source([reader EXCEPT !.source_buffer = left, !.waiting = TRUE])
    /\ UNCHANGED <<loaded, run_out>>

ReaderStep == LoadReadHopper \/ ReadStart \/ EndOfFile \/ Read

----------------------------------------------------------------------------
(* Every card there is, in the order in which it was fed.                    *)
Cards(r) ==
    r.stacker \o CardAt(r.fed[1]) \o CardAt(r.fed[2]) \o CardAt(r.fed[3]) \o r.hopper

(* Cards are neither lost nor doubled nor reordered between hopper and        *)
(* stacker, whatever is pressed, except when a deck replaces what is left in *)
(* the hopper.                                                               *)
ReaderKeepsCards ==
    [][Cards(reader)' # Cards(reader) => LoadReadHopper]_rvars

(* The source buffer holds the card at the last station, and when there is   *)
(* none there, the card that left it last ("the read buffer contains the     *)
(* words from the last card", input_output.org, case 5), until the program   *)
(* takes it: only then may the buffer be empty.                              *)
LatestCard ==
    IF reader.fed[1] # NoCard THEN reader.fed[1]
    ELSE IF reader.stacker # <<>> THEN reader.stacker[Len(reader.stacker)]
    ELSE NoCard

BufferHoldsLastCard ==
    \/ reader.source_buffer = LatestCard
    \/ reader.source_buffer = NoCard /\ LatestCard \in transferred

(* A program waits exactly while the card at the last station is one it has  *)
(* taken, and its request is remembered, however stops, starts and reloads   *)
(* come between the request and the resume signal (advance_source,           *)
(* read_start).                                                              *)
RequestsMatchCards ==
    /\ reader.waiting => reader.pending
    /\ reader.fed[1] # NoCard => (reader.waiting <=> reader.fed[1] \in transferred)

(* The program takes no card twice, as long as cards have moved on only with  *)
(* others behind them.  It may after the cards have been run out, by the      *)
(* read-start key with an empty hopper or by end of file: the last of them   *)
(* is in the stacker then and its words are still in the buffer.  By          *)
(* input_output.org (case 6) such a read-start gives no continue signal and   *)
(* "the program remains paused"; read_start gives it whenever it is pressed.  *)
CardTransferredOnce ==
    [][Read /\ reader.source_buffer \in transferred =>
          run_out /\ reader.fed[1] = NoCard]_rvars

(* "Pressing 'end of file' lets the program continue and process the cards   *)
(* that are in the reader" (input_output_unit.hpp): the key moves no card    *)
(* into the stacker that the program has not processed.                      *)
EndOfFileSkipsNoCard ==
    [][EndOfFile /\ reader'.stacker # reader.stacker =>
          reader.fed[1] \in transferred]_rvars
=============================================================================

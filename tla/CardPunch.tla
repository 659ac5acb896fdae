------------------------------ MODULE CardPunch ------------------------------
(***************************************************************************)
(* The punching side of Input_Output_Unit and the program that punches.     *)
(* A punch instruction puts a record into the sink buffer and asks for an   *)
(* advance; the program waits until the unit resumes it, which it does when  *)
(* the record is punched and there are cards left to go on with.             *)
(***************************************************************************)
EXTENDS CardFeed

CONSTANTS
    BlankCard,      \* a card without punches
    PunchDecks,     \* sizes of the decks put into the punch hopper
    MaxPunchCards,  \* bound: cards put into the punch hopper altogether
    MaxRecords      \* bound: records the program punches

ASSUME PunchDecksAssumption ==
    PunchDecks \subseteq Nat /\ MaxPunchCards \in Nat /\ MaxRecords \in Nat

(* A null pointer is no card, and a record is not blank.                     *)
ASSUME BlankCardAssumption ==
    BlankCard \notin Nat /\ NoCard \notin Nat \cup {BlankCard}

VARIABLES
    punch_unit,     \* members of the unit that belong to punching, and the client
    blanks,         \* cards put into the hopper so far
    written,        \* history: records written so far; a record is its number
    misused         \* history: see Misuse

pvars == <<punch_unit, blanks, written, misused>>

punch_feed_size == 2
Records == 1 .. MaxRecords
PunchCards == Records \cup {BlankCard}

PunchUnits ==
    [hopper : Seq({BlankCard}), stacker : Seq(PunchCards),
     fed : [1 .. punch_feed_size -> PunchCards \cup {NoCard}],
     sink_buffer : Seq(Records),
     running : BOOLEAN,         \* m_punch_running
     pending : BOOLEAN,         \* m_pending_punch_advance
     waiting : BOOLEAN,         \* the client waits to be resumed
     crashed : BOOLEAN]         \* a null pointer was dereferenced

PunchInit ==
    /\ punch_unit = [hopper |-> <<>>, stacker |-> <<>>,
                     fed |-> [i \in 1 .. punch_feed_size |-> NoCard],
                     sink_buffer |-> <<>>, running |-> FALSE, pending |-> FALSE,
                     waiting |-> FALSE, crashed |-> FALSE]
    /\ blanks = 0
    /\ written = 0
    /\ misused = FALSE

----------------------------------------------------------------------------
resume_sink_clientNever(p) == p       \* mutant of resume_sink_client

(* Called while the punch runs only.                                         *)
resume_sink_client(p) == [p EXCEPT !.waiting = @ /\ ~p.running]

(* The card at the punching station becomes the record, and the buffer is     *)
(* cleared.  Nobody asks whether there is a card.                            *)
punch(p) ==
    IF p.fed[1] = NoCard THEN [p EXCEPT !.crashed = TRUE]
    ELSE [p EXCEPT !.fed[1] = Head(p.sink_buffer), !.sink_buffer = <<>>]

punch_and_advance(p) == [advance(punch(p)) EXCEPT !.pending = FALSE]

(* Mutant of advance_sink: a stopped punch keeps no request.                 *)
advance_sinkForgetful(p) ==
    IF ~p.running THEN p
    ELSE LET q == punch_and_advance(p)
         IN  resume_sink_client([q EXCEPT !.running = q.hopper # <<>>])

advance_sink(p) ==
    IF ~p.running THEN [p EXCEPT !.pending = TRUE]
    ELSE LET q == punch_and_advance(p)
         IN  resume_sink_client([q EXCEPT !.running = q.hopper # <<>>])

(* Mutant of NeedsCard: a card anywhere in the feed is enough.               *)
NeedsFirstCard(p) == Empty(p.fed) /\ p.hopper # <<>>

NeedsCard(p) == p.fed[1] = NoCard /\ p.hopper # <<>>

(* Two cards fill the feed: the loop advances for no more.                   *)
Refill(p) ==
    LET once == IF NeedsCard(p) THEN advance(p) ELSE p
    IN  IF NeedsCard(once) THEN advance(once) ELSE once

(* With an empty hopper the key runs out one card.                           *)
punch_start(p) ==
    IF p.hopper = <<>> THEN advance(p)
    ELSE LET q == Refill(IF p.pending THEN punch_and_advance(p) ELSE p)
         IN  resume_sink_client([q EXCEPT !.running = q.hopper # <<>>])

punch_stop(p) == [p EXCEPT !.running = FALSE]

----------------------------------------------------------------------------
(* Three ways to come to punch without a card: to punch before a card has    *)
(* been run in, to run the cards out of a feed that is still at work, and to *)
(* put cards into the hopper behind a gap in the feed.                       *)
WritesBeforeRunIn == ~punch_unit.running /\ punch_unit.fed[1] = NoCard
RunsOutUnderWork ==
    punch_unit.hopper = <<>> /\ (punch_unit.running \/ punch_unit.pending)
LoadsBehindGap == punch_unit.fed[1] # NoCard /\ punch_unit.fed[2] = NoCard

LoadPunchHopper ==
    \E n \in PunchDecks :
       /\ ~punch_unit.crashed
       /\ blanks + n <= MaxPunchCards
       /\ punch_unit' = [punch_unit EXCEPT !.hopper = [i \in 1 .. n |-> BlankCard]]
       /\ blanks' = blanks + n
       /\ misused' = (misused \/ LoadsBehindGap)
       /\ UNCHANGED written

PunchStart ==
    /\ ~punch_unit.crashed
    /\ punch_unit' = punch_start(punch_unit)
    /\ misused' = (misused \/ RunsOutUnderWork)
    /\ UNCHANGED <<blanks, written>>

StopPunching ==
    /\ ~punch_unit.crashed
    /\ punch_unit' = punch_stop(punch_unit)
    /\ UNCHANGED <<blanks, written, misused>>

(* A punch instruction of a program that is not waiting: the protocol of a    *)
(* program that stands still until it is resumed.                            *)
Write ==
    /\ ~punch_unit.crashed
    /\ ~punch_unit.waiting
    /\ written < MaxRecords
    /\ written' = written + 1
    /\ punch_unit' =
           advance_sink([punch_unit EXCEPT !.sink_buffer = Append(@, written'),
                                           !.waiting = TRUE])
    /\ misused' = (misused \/ WritesBeforeRunIn)
    /\ UNCHANGED blanks

PunchStep == LoadPunchHopper \/ PunchStart \/ Write

----------------------------------------------------------------------------
(* The places in the stacker of the cards that are not blank.                *)
RecordPlaces == {i \in DOMAIN punch_unit.stacker : punch_unit.stacker[i] # BlankCard}

(* Every record is punched once and in order, and at most the last one waits  *)
(* to be punched: for as long as the program waits it is in the buffer, with *)
(* the request still pending (advance_sink, punch_start).                    *)
RecordsPunchedInOrder ==
    ~punch_unit.crashed =>
       /\ \A i, j \in RecordPlaces : i < j => punch_unit.stacker[i] < punch_unit.stacker[j]
       /\ {punch_unit.stacker[i] : i \in RecordPlaces} =
             1 .. (written - Len(punch_unit.sink_buffer))
       /\ punch_unit.sink_buffer = IF punch_unit.pending THEN <<written>> ELSE <<>>
       /\ \A i \in 1 .. punch_feed_size : ~(punch_unit.fed[i] \in Records)
       /\ punch_unit.pending => punch_unit.waiting

(* No lost wake-up: a program never waits while the punch runs.              *)
WaitsForStart == punch_unit.waiting /\ ~punch_unit.crashed => ~punch_unit.running

(* The punch dereferences a station without a card only after one of the     *)
(* three sequences above; run in before the first record and emptied before  *)
(* it is loaded again, it always has a card to punch.                        *)
PunchHasCard == punch_unit.crashed => misused
=============================================================================

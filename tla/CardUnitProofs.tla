--------------------------- MODULE CardUnitProofs ---------------------------
(***************************************************************************)
(* Proofs about the card unit, for decks of every size and any number of     *)
(* cards and records: cards keep their order on the way through a feed, no   *)
(* card is transferred twice, every record is punched once.                  *)
(***************************************************************************)
EXTENDS InputOutputUnit, SequenceTheorems, TLAPS

(* A feed of n stations, seen as a function.                                  *)
LEMMA FeedIsSeq ==
    ASSUME NEW S, NEW n \in Nat, NEW f
    PROVE  f \in [1 .. n -> S] <=> f \in Seq(S) /\ Len(f) = n
  OBVIOUS

LEMMA FeedTail ==
    ASSUME NEW S, NEW n \in Nat \ {0}, NEW f \in [1 .. n -> S]
    PROVE  /\ Tail(f) \in Seq(S) /\ Len(Tail(f)) = n - 1
           /\ \A i \in 1 .. n - 1 : Tail(f)[i] = f[i + 1]
  <1>1. f \in Seq(S) /\ Len(f) = n /\ f # <<>>
    BY FeedIsSeq
  <1> QED  BY <1>1

(* When the cards of a feed move on there are as many stations as before,      *)
(* each has what the next one had, and the new card comes to the one behind.  *)
LEMMA FeedStations ==
    ASSUME NEW S, NEW n \in Nat \ {0}, NEW f \in [1 .. n -> S], NEW c \in S
    PROVE  Append(Tail(f), c) \in [1 .. n -> S]
  <1>1. Append(Tail(f), c) \in Seq(S) /\ Len(Append(Tail(f), c)) = n
    BY FeedTail
  <1> QED  BY <1>1, FeedIsSeq

LEMMA FeedMoves ==
    ASSUME NEW S, NEW n \in Nat \ {0}, NEW f \in [1 .. n -> S], NEW c \in S
    PROVE  \A i \in 1 .. n - 1 : Append(Tail(f), c)[i] = f[i + 1]
  BY FeedTail

LEMMA FeedTakes ==
    ASSUME NEW S, NEW n \in Nat \ {0}, NEW f \in [1 .. n -> S], NEW c \in S
    PROVE  Append(Tail(f), c)[n] = c
  BY FeedTail

----------------------------------------------------------------------------
(* The reader.                                                               *)

(* Cards are numbered in the order in which they are loaded.  They lie in     *)
(* that order from the last station back to the bottom of the hopper, and    *)
(* what has been transferred or is in the buffer lies before what has not    *)
(* come to the last station yet.                                             *)
InOrder(r, n, taken) ==
    /\ \A k \in DOMAIN r.hopper : r.hopper[k] <= n
    /\ \A k, m \in DOMAIN r.hopper : k < m => r.hopper[k] < r.hopper[m]
    /\ \A i \in Stations : r.fed[i] # NoCard =>
          /\ r.fed[i] <= n
          /\ \A j \in Stations : i < j /\ r.fed[j] # NoCard => r.fed[i] < r.fed[j]
          /\ \A k \in DOMAIN r.hopper : r.fed[i] < r.hopper[k]
    /\ \A c \in taken \cup ({r.source_buffer} \ {NoCard}) :
          /\ c <= n
          /\ \A j \in Stations : 1 < j /\ r.fed[j] # NoCard => c < r.fed[j]
          /\ \A k \in DOMAIN r.hopper : c < r.hopper[k]

Latest(r) ==
    IF r.fed[1] # NoCard THEN r.fed[1]
    ELSE IF r.stacker # <<>> THEN r.stacker[Len(r.stacker)]
    ELSE NoCard

Buffered(r, taken) ==
    \/ r.source_buffer = Latest(r)
    \/ r.source_buffer = NoCard /\ Latest(r) \in taken

Unread(r, taken) == r.fed[1] \notin taken

(* A program that waits has taken the card at the last station, if any.       *)
Waits(r, taken) == r.waiting => r.fed[1] \in taken \cup {NoCard}

ReaderInv ==
    /\ ReaderTypeOK
    /\ InOrder(reader, loaded, transferred)
    /\ BufferHoldsLastCard
    /\ RequestsMatchCards

(* One advance of the reader, station by station.                             *)
LEMMA AdvanceReader ==
    ASSUME NEW r \in Readers
    PROVE  /\ advance(r) \in Readers
           /\ advance(r).fed[1] = r.fed[2] /\ advance(r).fed[2] = r.fed[3]
           /\ advance(r).fed[3] = IF r.hopper = <<>> THEN NoCard ELSE Head(r.hopper)
           /\ advance(r).hopper = IF r.hopper = <<>> THEN <<>> ELSE Tail(r.hopper)
           /\ advance(r).stacker = IF r.fed[1] = NoCard THEN r.stacker
                                   ELSE Append(r.stacker, r.fed[1])
           /\ advance(r).source_buffer = r.source_buffer
           /\ advance(r).waiting = r.waiting
           /\ advance(r).pending = r.pending
           /\ advance(r).running = r.running
           /\ advance(r).end_of_file = r.end_of_file
  <1> DEFINE C == ReadCards \cup {NoCard}
             c == IF r.hopper = <<>> THEN NoCard ELSE Head(r.hopper)
             f == Append(Tail(r.fed), c)
             k == IF r.fed[1] = NoCard THEN r.stacker ELSE Append(r.stacker, r.fed[1])
             h == IF r.hopper = <<>> THEN r.hopper ELSE Tail(r.hopper)
  <1>1. /\ r.fed \in [1 .. 3 -> C] /\ r.hopper \in Seq(ReadCards)
        /\ r.stacker \in Seq(ReadCards)
    BY DEF Readers, Stations, read_feed_size
  <1>2. c \in C /\ h \in Seq(ReadCards)
    BY <1>1
  <1>3. f \in [1 .. 3 -> C] /\ f[1] = r.fed[2] /\ f[2] = r.fed[3] /\ f[3] = c
    <2> HIDE DEF c, C
    <2>1. read_feed_size \in Nat \ {0} /\ r.fed \in [1 .. read_feed_size -> C]
      BY <1>1 DEF read_feed_size
    <2>2. f \in [1 .. read_feed_size -> C]
      BY <1>2, <2>1, FeedStations, Zenon
    <2>3. \A i \in 1 .. read_feed_size - 1 : f[i] = r.fed[i + 1]
      BY <1>2, <2>1, FeedMoves
    <2>4. f[read_feed_size] = c
      BY <1>2, <2>1, FeedTakes
    <2> HIDE DEF f
    <2> QED  BY <2>2, <2>3, <2>4 DEF read_feed_size
  <1>4. k \in Seq(ReadCards)
    BY <1>1
  <1>5. advance(r) = [r EXCEPT !.fed = f, !.stacker = k, !.hopper = h]
    BY DEF advance
  <1> HIDE DEF f, k, c, h, C
  <1>6. \A s : s = [r EXCEPT !.fed = f, !.stacker = k, !.hopper = h] =>
           /\ s \in Readers
           /\ s.fed = f /\ s.hopper = h /\ s.stacker = k
           /\ s.source_buffer = r.source_buffer
           /\ s.waiting = r.waiting /\ s.pending = r.pending
           /\ s.running = r.running /\ s.end_of_file = r.end_of_file
    BY <1>2, <1>3, <1>4 DEF Readers, Stations, read_feed_size, C
  <1>7. /\ advance(r) \in Readers
        /\ advance(r).fed = f /\ advance(r).hopper = h /\ advance(r).stacker = k
        /\ advance(r).source_buffer = r.source_buffer
        /\ advance(r).waiting = r.waiting /\ advance(r).pending = r.pending
        /\ advance(r).running = r.running /\ advance(r).end_of_file = r.end_of_file
    BY <1>5, <1>6, Zenon
  <1> QED  BY <1>3, <1>7 DEF c, k, h

(* One advance with the reading of the card that comes to the last station.   *)
LEMMA AdvanceReads ==
    ASSUME NEW r \in Readers
    PROVE  /\ advance_read_cards(r) \in Readers
           /\ advance_read_cards(r).fed[1] = r.fed[2]
           /\ advance_read_cards(r).fed[2] = r.fed[3]
           /\ advance_read_cards(r).fed[3] =
                 IF r.hopper = <<>> THEN NoCard ELSE Head(r.hopper)
           /\ advance_read_cards(r).hopper =
                 IF r.hopper = <<>> THEN <<>> ELSE Tail(r.hopper)
           /\ advance_read_cards(r).stacker =
                 IF r.fed[1] = NoCard THEN r.stacker ELSE Append(r.stacker, r.fed[1])
           /\ advance_read_cards(r).source_buffer =
                 IF r.fed[2] = NoCard THEN r.source_buffer ELSE r.fed[2]
           /\ advance_read_cards(r).waiting = r.waiting
           /\ ~advance_read_cards(r).pending
           /\ advance_read_cards(r).running = r.running
           /\ advance_read_cards(r).end_of_file = r.end_of_file
  <1> DEFINE s == advance(r)
             b == IF s.fed[1] = NoCard THEN s.source_buffer ELSE s.fed[1]
  <1>1. s \in Readers
    BY AdvanceReader
  <1>2. b \in ReadCards \cup {NoCard}
    BY <1>1 DEF Readers, Stations, read_feed_size
  <1>3. advance_read_cards(r) = [s EXCEPT !.source_buffer = b, !.pending = FALSE]
    BY DEF advance_read_cards
  <1>4. b = IF r.fed[2] = NoCard THEN r.source_buffer ELSE r.fed[2]
    BY AdvanceReader
  <1> HIDE DEF b, s
  <1>5. \A t : t = [s EXCEPT !.source_buffer = b, !.pending = FALSE] =>
           /\ t \in Readers
           /\ t.fed = s.fed /\ t.hopper = s.hopper /\ t.stacker = s.stacker
           /\ t.source_buffer = b /\ ~t.pending
           /\ t.waiting = s.waiting /\ t.running = s.running
           /\ t.end_of_file = s.end_of_file
    BY <1>1, <1>2 DEF Readers
  <1>6. /\ advance_read_cards(r) \in Readers
        /\ advance_read_cards(r).fed = s.fed
        /\ advance_read_cards(r).hopper = s.hopper
        /\ advance_read_cards(r).stacker = s.stacker
        /\ advance_read_cards(r).source_buffer = b
        /\ ~advance_read_cards(r).pending
        /\ advance_read_cards(r).waiting = s.waiting
        /\ advance_read_cards(r).running = s.running
        /\ advance_read_cards(r).end_of_file = s.end_of_file
    BY <1>3, <1>5, Zenon
  <1> QED  BY <1>4, <1>6, AdvanceReader DEF s

(* An advance keeps the order of the cards and the card in the buffer.  The   *)
(* card that comes to the last station has not been transferred.             *)
LEMMA AdvanceInOrder ==
    ASSUME NEW r \in Readers, NEW n \in Nat, NEW taken \in SUBSET ReadCards,
           InOrder(r, n, taken), Buffered(r, taken)
    PROVE  /\ InOrder(advance_read_cards(r), n, taken)
           /\ Buffered(advance_read_cards(r), taken)
           /\ Unread(advance_read_cards(r), taken)
  <1> DEFINE s == advance_read_cards(r)
  <1>1. /\ s \in Readers
        /\ s.fed[1] = r.fed[2] /\ s.fed[2] = r.fed[3]
        /\ s.fed[3] = IF r.hopper = <<>> THEN NoCard ELSE Head(r.hopper)
        /\ s.hopper = IF r.hopper = <<>> THEN <<>> ELSE Tail(r.hopper)
        /\ s.stacker = IF r.fed[1] = NoCard THEN r.stacker
                       ELSE Append(r.stacker, r.fed[1])
        /\ s.source_buffer = IF r.fed[2] = NoCard THEN r.source_buffer ELSE r.fed[2]
    BY AdvanceReads
  <1> HIDE DEF s
  <1>2. /\ r.fed \in [1 .. 3 -> ReadCards \cup {NoCard}]
        /\ r.hopper \in Seq(ReadCards) /\ r.stacker \in Seq(ReadCards)
        /\ r.source_buffer \in ReadCards \cup {NoCard}
        /\ Stations = 1 .. 3
    BY DEF Readers, Stations, read_feed_size
  <1>3. ReadCards \subseteq Nat /\ NoCard \notin Nat
    BY NoCardAssumption, ReadDecksAssumption DEF ReadCards
  <1>4. r.hopper # <<>> =>
           /\ Len(r.hopper) \in Nat \ {0}
           /\ DOMAIN r.hopper = 1 .. Len(r.hopper)
           /\ Head(r.hopper) = r.hopper[1]
           /\ DOMAIN Tail(r.hopper) = 1 .. Len(r.hopper) - 1
           /\ \A k \in 1 .. Len(r.hopper) - 1 : Tail(r.hopper)[k] = r.hopper[k + 1]
           /\ \A k \in 1 .. Len(r.hopper) : r.hopper[k] \in ReadCards
    BY <1>2
  <1>5. \A k \in DOMAIN s.hopper :
           /\ r.hopper # <<>>
           /\ k \in 1 .. Len(r.hopper) - 1
           /\ k + 1 \in DOMAIN r.hopper
           /\ s.hopper[k] = r.hopper[k + 1]
    BY <1>1, <1>4
  <1>6. /\ \A k \in DOMAIN s.hopper : s.hopper[k] <= n
        /\ \A k, m \in DOMAIN s.hopper : k < m => s.hopper[k] < s.hopper[m]
    BY <1>5, <1>4 DEF InOrder
  <1>7. \A i \in Stations : s.fed[i] # NoCard =>
           /\ s.fed[i] <= n
           /\ \A j \in Stations : i < j /\ s.fed[j] # NoCard => s.fed[i] < s.fed[j]
           /\ \A k \in DOMAIN s.hopper : s.fed[i] < s.hopper[k]
    <2>1. \A k \in DOMAIN r.hopper : r.hopper[k] <= n
      BY DEF InOrder
    <2>2. \A k, m \in DOMAIN r.hopper : k < m => r.hopper[k] < r.hopper[m]
      BY DEF InOrder
    <2>3. \A i \in 1 .. 3 : r.fed[i] # NoCard =>
             /\ r.fed[i] <= n
             /\ \A j \in 1 .. 3 : i < j /\ r.fed[j] # NoCard => r.fed[i] < r.fed[j]
             /\ \A k \in DOMAIN r.hopper : r.fed[i] < r.hopper[k]
      BY <1>2 DEF InOrder
    <2>4. \A k \in DOMAIN s.hopper :
             /\ s.fed[1] # NoCard => s.fed[1] < s.hopper[k]
             /\ s.fed[2] # NoCard => s.fed[2] < s.hopper[k]
             /\ s.fed[3] # NoCard => s.fed[3] < s.hopper[k]
      BY <1>1, <1>4, <1>5, <2>2, <2>3
    <2>5. /\ s.fed[1] # NoCard => s.fed[1] <= n
          /\ s.fed[2] # NoCard => s.fed[2] <= n
          /\ s.fed[3] # NoCard => s.fed[3] <= n
      BY <1>1, <1>4, <2>1, <2>3
    <2>6. /\ s.fed[1] # NoCard /\ s.fed[2] # NoCard => s.fed[1] < s.fed[2]
          /\ s.fed[1] # NoCard /\ s.fed[3] # NoCard => s.fed[1] < s.fed[3]
          /\ s.fed[2] # NoCard /\ s.fed[3] # NoCard => s.fed[2] < s.fed[3]
      BY <1>1, <1>4, <2>3
    <2> QED  BY <1>2, <2>4, <2>5, <2>6
  <1>10. \A c \in taken : c \in Nat /\ (r.fed[2] # NoCard => c < r.fed[2])
    <2>1. \A c \in taken : c \in Nat
      BY <1>3
    <2>2. \A c \in taken : \A j \in Stations : 1 < j /\ r.fed[j] # NoCard => c < r.fed[j]
      BY DEF InOrder
    <2>3. \A c \in taken : r.fed[2] # NoCard => c < r.fed[2]
      BY <2>2, <1>2
    <2> QED  BY <2>1, <2>3
  <1>8. \A c \in taken \cup ({s.source_buffer} \ {NoCard}) :
           /\ c <= n
           /\ \A j \in Stations : 1 < j /\ s.fed[j] # NoCard => c < s.fed[j]
           /\ \A k \in DOMAIN s.hopper : c < s.hopper[k]
    <2>1. CASE r.fed[2] # NoCard
      <3>1. \A c \in taken : c \in Nat /\ c < r.fed[2]
        BY <2>1, <1>10
      <3>2. r.fed[2] \in Nat /\ s.source_buffer = r.fed[2] /\ s.fed[1] = r.fed[2]
        <4>1. r.fed[2] \in ReadCards
          BY <2>1, <1>2
        <4> QED  BY <4>1, <2>1, <1>1, <1>3
      <3>3. s.fed \in [1 .. 3 -> ReadCards \cup {NoCard}]
        BY <1>1 DEF Readers, Stations, read_feed_size
      <3>4. \A k \in DOMAIN s.hopper : s.hopper[k] \in Nat
        BY <1>3, <1>4, <1>5
      <3>5. /\ r.fed[2] <= n
            /\ \A j \in Stations : 1 < j /\ s.fed[j] # NoCard => r.fed[2] < s.fed[j]
            /\ \A k \in DOMAIN s.hopper : r.fed[2] < s.hopper[k]
        BY <1>7, <3>2, <1>2, <2>1
      <3> SUFFICES ASSUME NEW c \in taken \cup {r.fed[2]}
                   PROVE  /\ c <= n
                          /\ \A j \in Stations : 1 < j /\ s.fed[j] # NoCard => c < s.fed[j]
                          /\ \A k \in DOMAIN s.hopper : c < s.hopper[k]
        BY <3>2
      <3>6. c \in Nat /\ (c = r.fed[2] \/ c < r.fed[2])
        BY <3>1, <3>2
      <3>7. \A j \in Stations : s.fed[j] # NoCard => s.fed[j] \in Nat
        BY <3>3, <1>2, <1>3
      <3> QED  BY <3>2, <3>4, <3>5, <3>6, <3>7
    <2>2. CASE r.fed[2] = NoCard
      <3>1. \A c \in taken \cup ({r.source_buffer} \ {NoCard}) :
               /\ c <= n
               /\ r.fed[3] # NoCard => c < r.fed[3]
               /\ \A k \in DOMAIN r.hopper : c < r.hopper[k]
        BY <1>2 DEF InOrder
      <3>2. s.source_buffer = r.source_buffer
        BY <2>2, <1>1
      <3> QED  BY <3>1, <3>2, <1>1, <1>2, <1>4, <1>5
    <2> QED  BY <2>1, <2>2
  <1>9. Buffered(s, taken)
    <2>1. r.stacker # <<>> => r.stacker[Len(r.stacker)] \in ReadCards
      BY <1>2
    <2>2. r.fed[1] # NoCard =>
             /\ Append(r.stacker, r.fed[1]) # <<>>
             /\ Append(r.stacker, r.fed[1])[Len(Append(r.stacker, r.fed[1]))] = r.fed[1]
      BY <1>2
    <2> QED  BY <1>1, <2>1, <2>2 DEF Buffered, Latest
  <1>11. Unread(s, taken)
    <2>1. CASE r.fed[2] = NoCard
      BY <2>1, <1>1, <1>3 DEF Unread
    <2>2. CASE r.fed[2] # NoCard
      <3>1. r.fed[2] \in Nat
        <4>1. r.fed[2] \in ReadCards
          BY <2>2, <1>2
        <4> QED  BY <4>1, <1>3
      <3> QED  BY <2>2, <3>1, <1>1, <1>10 DEF Unread
    <2> QED  BY <2>1, <2>2
  <1>12. InOrder(s, n, taken)
    BY <1>6, <1>7, <1>8 DEF InOrder
  <1> QED  BY <1>9, <1>11, <1>12 DEF s

(* Flags may change without the cards.                                        *)
LEMMA SameCards ==
    ASSUME NEW r, NEW s, NEW n, NEW taken,
           s.hopper = r.hopper, s.fed = r.fed, s.stacker = r.stacker,
           s.source_buffer = r.source_buffer,
           InOrder(r, n, taken), Buffered(r, taken)
    PROVE  InOrder(s, n, taken) /\ Buffered(s, taken)
  BY DEF InOrder, Buffered, Latest

LEMMA FlagFacts ==
    ASSUME NEW r \in Readers, NEW b \in BOOLEAN
    PROVE  /\ [r EXCEPT !.running = b] \in Readers
           /\ [r EXCEPT !.waiting = b] \in Readers
           /\ [r EXCEPT !.end_of_file = b] \in Readers
           /\ [r EXCEPT !.end_of_file = b, !.pending = TRUE] \in Readers
           /\ resume_source_client(r) \in Readers
  BY DEF Readers, resume_source_client

(* The cards that read_start runs in.                                         *)
LEMMA RunInKeeps ==
    ASSUME NEW r \in Readers, NEW n \in Nat, NEW taken \in SUBSET ReadCards,
           InOrder(r, n, taken), Buffered(r, taken), NEW k \in 0 .. 3
    PROVE  /\ RunIn(r, k) \in Readers
           /\ InOrder(RunIn(r, k), n, taken) /\ Buffered(RunIn(r, k), taken)
           /\ k = 0 => RunIn(r, k) = r
           /\ k # 0 => Unread(RunIn(r, k), taken)
  <1> DEFINE s == advance_read_cards(r)
             t == advance_read_cards(s)
             u == advance_read_cards(t)
  <1>1. /\ s \in Readers /\ InOrder(s, n, taken) /\ Buffered(s, taken)
        /\ Unread(s, taken)
    BY AdvanceReads, AdvanceInOrder
  <1> HIDE DEF s
  <1>2. /\ t \in Readers /\ InOrder(t, n, taken) /\ Buffered(t, taken)
        /\ Unread(t, taken)
    BY <1>1, AdvanceReads, AdvanceInOrder
  <1> HIDE DEF t
  <1>3. /\ u \in Readers /\ InOrder(u, n, taken) /\ Buffered(u, taken)
        /\ Unread(u, taken)
    BY <1>2, AdvanceReads, AdvanceInOrder
  <1> HIDE DEF u
  <1>4. /\ k = 0 => RunIn(r, k) = r
        /\ k = 1 => RunIn(r, k) = s
        /\ k = 2 => RunIn(r, k) = t
        /\ k = 3 => RunIn(r, k) = u
    BY DEF RunIn, s, t, u
  <1>5. k \in {0, 1, 2, 3}
    OBVIOUS
  <1> QED  BY <1>1, <1>2, <1>3, <1>4, <1>5

LEMMA RunInCardsRange ==
    ASSUME NEW r \in Readers
    PROVE  RunInCards(r) \in 0 .. 3 /\ (r.pending => RunInCards(r) # 0)
  <1>1. r.hopper \in Seq(ReadCards)
    BY DEF Readers
  <1>2. r.hopper # <<>> => Len(r.hopper) \in Nat \ {0}
    BY <1>1
  <1> DEFINE few == IF Len(r.hopper) < read_feed_size THEN Len(r.hopper)
                    ELSE read_feed_size
  <1>3. CASE r.pending \/ r.hopper = <<>>
    <2>1. RunInCards(r) = 1
      BY <1>3, Zenon DEF RunInCards
    <2> QED  BY <2>1
  <1>4. CASE ~r.pending /\ r.hopper # <<>> /\ Full(r.fed)
    <2>1. RunInCards(r) = 0
      BY <1>4, Zenon DEF RunInCards
    <2> QED  BY <2>1, <1>4
  <1>5. CASE ~r.pending /\ r.hopper # <<>> /\ ~Full(r.fed)
    <2>1. RunInCards(r) = few
      BY <1>5, Zenon DEF RunInCards
    <2>2. Len(r.hopper) \in Nat
      BY <1>1
    <2>3. few \in 0 .. 3
      <3>1. CASE Len(r.hopper) < read_feed_size
        <4>1. few = Len(r.hopper)
          BY <3>1, Zenon
        <4>2. Len(r.hopper) \in 0 .. 3
          <5> DEFINE m == Len(r.hopper)
          <5>1. m \in Nat /\ m < 3
            BY <3>1, <2>2 DEF read_feed_size
          <5> HIDE DEF m
          <5>2. m \in 0 .. 3
            BY <5>1
          <5> QED  BY <5>2 DEF m
        <4> QED  BY <4>1, <4>2, Zenon
      <3>2. CASE ~(Len(r.hopper) < read_feed_size)
        BY <3>2 DEF read_feed_size
      <3> QED  BY <3>1, <3>2
    <2> QED  BY <2>1, <2>3, <1>5, Zenon
  <1> QED  BY <1>3, <1>4, <1>5, Zenon

(* read_start resumes the program only with a card it has not transferred at *)
(* the last station, or with none.                                           *)
LEMMA ReadStartKeeps ==
    ASSUME NEW r \in Readers, NEW n \in Nat, NEW taken \in SUBSET ReadCards,
           InOrder(r, n, taken), Buffered(r, taken),
           r.waiting => r.pending, ~r.waiting => Unread(r, taken)
    PROVE  /\ read_start(r) \in Readers
           /\ InOrder(read_start(r), n, taken) /\ Buffered(read_start(r), taken)
           /\ ~read_start(r).waiting /\ Unread(read_start(r), taken)
           /\ Waits(read_start(r), taken)
  <1> DEFINE s == [r EXCEPT !.running = TRUE]
             k == RunInCards(r)
             t == RunIn(s, k)
  <1>1. /\ s \in Readers
        /\ s.hopper = r.hopper /\ s.fed = r.fed /\ s.stacker = r.stacker
        /\ s.source_buffer = r.source_buffer
    BY FlagFacts DEF Readers
  <1>2. InOrder(s, n, taken) /\ Buffered(s, taken)
    BY <1>1, SameCards
  <1>3. k \in 0 .. 3 /\ (r.pending => k # 0)
    BY RunInCardsRange
  <1>4. Unread(s, taken) <=> Unread(r, taken)
    BY <1>1 DEF Unread
  <1> HIDE DEF s, k
  <1>5. /\ t \in Readers
        /\ InOrder(t, n, taken) /\ Buffered(t, taken)
        /\ k = 0 => t = s
        /\ k # 0 => Unread(t, taken)
    BY <1>1, <1>2, <1>3, RunInKeeps
  <1>6. Unread(t, taken)
    BY <1>3, <1>4, <1>5
  <1>7. read_start(r) = resume_source_client(t)
    BY DEF read_start, s, k, t
  <1> HIDE DEF t
  <1>8. /\ resume_source_client(t) \in Readers
        /\ resume_source_client(t).hopper = t.hopper
        /\ resume_source_client(t).fed = t.fed
        /\ resume_source_client(t).stacker = t.stacker
        /\ resume_source_client(t).source_buffer = t.source_buffer
        /\ ~resume_source_client(t).waiting
    BY <1>5, FlagFacts DEF resume_source_client, Readers
  <1>9. InOrder(resume_source_client(t), n, taken) /\ Buffered(resume_source_client(t), taken)
    BY <1>5, <1>8, SameCards
  <1> QED  BY <1>6, <1>7, <1>8, <1>9 DEF Unread, Waits

(* advance_source records the request, and resumes the program when it has    *)
(* moved the cards.                                                           *)
LEMMA AdvanceSourceKeeps ==
    ASSUME NEW r \in Readers, NEW n \in Nat, NEW taken \in SUBSET ReadCards,
           InOrder(r, n, taken), Buffered(r, taken), Waits(r, taken),
           ~r.waiting => Unread(r, taken)
    PROVE  /\ advance_source(r) \in Readers
           /\ InOrder(advance_source(r), n, taken) /\ Buffered(advance_source(r), taken)
           /\ advance_source(r).waiting => advance_source(r).pending
           /\ Waits(advance_source(r), taken)
           /\ ~advance_source(r).waiting => Unread(advance_source(r), taken)
  <1> DEFINE e == r.end_of_file /\ ~Empty(r.fed)
             s == [r EXCEPT !.end_of_file = e, !.pending = TRUE]
             a == advance_read_cards(s)
             t == resume_source_client(a)
  <1>1. e \in BOOLEAN
    BY Zenon
  <1> HIDE DEF e
  <1>2. /\ s \in Readers
        /\ s.hopper = r.hopper /\ s.fed = r.fed /\ s.stacker = r.stacker
        /\ s.source_buffer = r.source_buffer
        /\ s.waiting = r.waiting /\ s.pending
    BY <1>1, FlagFacts DEF Readers
  <1>3. InOrder(s, n, taken) /\ Buffered(s, taken)
    BY <1>2, SameCards
  <1>4. (~s.waiting => Unread(s, taken)) /\ Waits(s, taken)
    BY <1>2 DEF Unread, Waits
  <1>5. advance_source(r) = IF s.running /\ (s.hopper # <<>> \/ s.end_of_file) THEN t ELSE s
    BY Zenon DEF advance_source, e
  <1> HIDE DEF s
  <1>6. /\ a \in Readers /\ InOrder(a, n, taken) /\ Buffered(a, taken)
        /\ Unread(a, taken)
    BY <1>2, <1>3, AdvanceReads, AdvanceInOrder
  <1> HIDE DEF a
  <1>7. /\ t \in Readers
        /\ t.hopper = a.hopper /\ t.fed = a.fed /\ t.stacker = a.stacker
        /\ t.source_buffer = a.source_buffer
        /\ ~t.waiting
    BY <1>6, FlagFacts DEF resume_source_client, Readers
  <1>8. InOrder(t, n, taken) /\ Buffered(t, taken)
    BY <1>6, <1>7, SameCards
  <1>9. Unread(t, taken) /\ Waits(t, taken)
    BY <1>6, <1>7 DEF Unread, Waits
  <1> HIDE DEF t
  <1> QED  BY <1>2, <1>3, <1>4, <1>5, <1>7, <1>8, <1>9

LEMMA ReaderInitInv == ReaderInit => ReaderInv
  <1> SUFFICES ASSUME ReaderInit PROVE ReaderInv
    OBVIOUS
  <1>1. reader.hopper = <<>> /\ DOMAIN reader.hopper = {}
    BY DEF ReaderInit
  <1>2. /\ reader.fed = [i \in Stations |-> NoCard] /\ reader.stacker = <<>>
        /\ reader.source_buffer = NoCard /\ ~reader.waiting
        /\ transferred = {} /\ loaded = 0
    BY DEF ReaderInit
  <1>3. ReaderTypeOK
    <2>1. reader \in Readers
      BY DEF ReaderInit, Readers
    <2>2. run_out \in BOOLEAN
      BY DEF ReaderInit
    <2> QED  BY <1>2, <2>1, <2>2, ReadDecksAssumption DEF ReaderTypeOK
  <1>4. InOrder(reader, loaded, transferred)
    BY <1>1, <1>2 DEF InOrder
  <1>5. BufferHoldsLastCard /\ RequestsMatchCards
    BY <1>2 DEF BufferHoldsLastCard, LatestCard, RequestsMatchCards, Stations,
       read_feed_size
  <1> QED  BY <1>3, <1>4, <1>5 DEF ReaderInv

LEMMA NoReadCard == NoCard \notin ReadCards
  BY NoCardAssumption, ReadDecksAssumption DEF ReadCards

(* ReaderInv in terms of the operators the lemmas are about.                  *)
LEMMA ReaderInvFacts ==
    ReaderInv <=>
       /\ reader \in Readers
       /\ loaded \in 0 .. MaxReadCards /\ transferred \in SUBSET ReadCards
       /\ InOrder(reader, loaded, transferred) /\ Buffered(reader, transferred)
       /\ run_out \in BOOLEAN
       /\ reader.waiting => reader.pending
       /\ Waits(reader, transferred)
       /\ ~reader.waiting => Unread(reader, transferred)
  BY NoReadCard DEF ReaderInv, ReaderTypeOK, BufferHoldsLastCard, LatestCard, Buffered, Latest,
         RequestsMatchCards, Unread, Waits

LEMMA ReaderInvAfter ==
    ASSUME /\ reader' \in Readers
           /\ loaded' \in 0 .. MaxReadCards /\ transferred' \in SUBSET ReadCards
           /\ InOrder(reader', loaded', transferred') /\ Buffered(reader', transferred')
           /\ run_out' \in BOOLEAN
           /\ reader'.waiting => reader'.pending
           /\ Waits(reader', transferred')
           /\ ~reader'.waiting => Unread(reader', transferred')
    PROVE  ReaderInv'
  BY NoReadCard DEF ReaderInv, ReaderTypeOK, BufferHoldsLastCard, LatestCard, Buffered, Latest,
         RequestsMatchCards, Unread, Waits, InOrder

(* A new deck: its cards come after all others.                               *)
LEMMA LoadInvariant == ReaderInv /\ LoadReadHopper => ReaderInv'
  <1> SUFFICES ASSUME ReaderInv, LoadReadHopper PROVE ReaderInv'
    OBVIOUS
  <1>1. PICK n \in ReadDecks :
           /\ loaded + n <= MaxReadCards
           /\ reader' = [reader EXCEPT !.hopper = [i \in 1 .. n |-> loaded + i]]
           /\ loaded' = loaded + n
           /\ UNCHANGED <<transferred, run_out>>
    BY DEF LoadReadHopper
  <1> DEFINE h == [i \in 1 .. n |-> loaded + i]
  <1>2. /\ reader \in Readers
        /\ loaded \in 0 .. MaxReadCards /\ transferred \in SUBSET ReadCards
        /\ InOrder(reader, loaded, transferred) /\ Buffered(reader, transferred)
        /\ run_out \in BOOLEAN
        /\ reader.waiting => reader.pending
        /\ Waits(reader, transferred)
        /\ ~reader.waiting => Unread(reader, transferred)
    BY ReaderInvFacts
  <1>3. n \in Nat /\ loaded \in Nat /\ MaxReadCards \in Nat
    BY <1>2, ReadDecksAssumption
  <1>4. h \in Seq(ReadCards) /\ DOMAIN h = 1 .. n
    BY <1>1, <1>3 DEF ReadCards
  <1>5. \A k \in 1 .. n : h[k] = loaded + k
    OBVIOUS
  <1> HIDE DEF h
  <1>6. /\ reader' \in Readers
        /\ reader'.hopper = h /\ reader'.fed = reader.fed
        /\ reader'.stacker = reader.stacker
        /\ reader'.source_buffer = reader.source_buffer
        /\ reader'.waiting = reader.waiting /\ reader'.pending = reader.pending
    BY <1>1, <1>2, <1>4 DEF Readers, h
  <1>7. /\ reader.fed \in [1 .. 3 -> ReadCards \cup {NoCard}] /\ Stations = 1 .. 3
        /\ reader.source_buffer \in ReadCards \cup {NoCard}
    BY <1>2 DEF Readers, Stations, read_feed_size
  <1>8. ReadCards \subseteq Nat
    BY ReadDecksAssumption DEF ReadCards
  <1>9. \A i \in Stations : reader.fed[i] # NoCard => reader.fed[i] \in Nat
    BY <1>7, <1>8
  <1>10. \A c \in transferred \cup ({reader.source_buffer} \ {NoCard}) : c \in Nat
    BY <1>2, <1>7, <1>8
  <1>11. InOrder(reader', loaded', transferred')
    <2>1. /\ \A k \in DOMAIN h : h[k] <= loaded + n
          /\ \A k, m \in DOMAIN h : k < m => h[k] < h[m]
      BY <1>3, <1>4, <1>5
    <2>2. \A i \in Stations : reader.fed[i] # NoCard =>
             /\ reader.fed[i] <= loaded
             /\ \A j \in Stations : i < j /\ reader.fed[j] # NoCard => reader.fed[i] < reader.fed[j]
      BY <1>2 DEF InOrder
    <2>3. \A i \in Stations : reader.fed[i] # NoCard =>
             /\ reader.fed[i] <= loaded + n
             /\ \A k \in DOMAIN h : reader.fed[i] < h[k]
      BY <2>2, <1>3, <1>4, <1>5, <1>9
    <2>4. \A c \in transferred \cup ({reader.source_buffer} \ {NoCard}) :
             /\ c <= loaded
             /\ \A j \in Stations : 1 < j /\ reader.fed[j] # NoCard => c < reader.fed[j]
      BY <1>2 DEF InOrder
    <2>5. \A c \in transferred \cup ({reader.source_buffer} \ {NoCard}) :
             /\ c <= loaded + n
             /\ \A k \in DOMAIN h : c < h[k]
      BY <2>4, <1>3, <1>4, <1>5, <1>10
    <2> HIDE DEF h
    <2> QED  BY <1>1, <1>6, <2>1, <2>2, <2>3, <2>4, <2>5 DEF InOrder
  <1>12. /\ Buffered(reader', transferred') /\ Waits(reader', transferred')
         /\ ~reader'.waiting => Unread(reader', transferred')
    BY <1>1, <1>2, <1>6 DEF Buffered, Latest, Unread, Waits
  <1>13. /\ loaded' \in 0 .. MaxReadCards /\ transferred' \in SUBSET ReadCards
         /\ run_out' \in BOOLEAN
    BY <1>1, <1>2, <1>3
  <1> QED  BY <1>2, <1>6, <1>11, <1>12, <1>13, ReaderInvAfter

LEMMA ReadInvariant == ReaderInv /\ Read => ReaderInv'
  <1> SUFFICES ASSUME ReaderInv, Read PROVE ReaderInv'
    OBVIOUS
  <1>1. PICK left \in {reader.source_buffer, NoCard} :
           reader' = advance_source([reader EXCEPT !.source_buffer = left, !.waiting = TRUE])
    BY DEF Read
  <1> DEFINE r == [reader EXCEPT !.source_buffer = left, !.waiting = TRUE]
             taken == transferred \cup ({reader.source_buffer} \ {NoCard})
  <1>2. transferred' = taken /\ loaded' = loaded /\ run_out' = run_out
    BY DEF Read
  <1>3. /\ reader \in Readers
        /\ loaded \in 0 .. MaxReadCards /\ transferred \in SUBSET ReadCards
        /\ InOrder(reader, loaded, transferred) /\ Buffered(reader, transferred)
        /\ run_out \in BOOLEAN
    BY ReaderInvFacts
  <1>4. taken \in SUBSET ReadCards /\ loaded \in Nat
    BY <1>3 DEF Readers
  <1>5. /\ r \in Readers /\ r.waiting
        /\ r.hopper = reader.hopper /\ r.fed = reader.fed /\ r.stacker = reader.stacker
        /\ r.source_buffer = left
    BY <1>3 DEF Readers
  <1>6. InOrder(r, loaded, taken)
    BY <1>3, <1>5 DEF InOrder
  <1>7. Buffered(r, taken)
    <2>1. Latest(r) = Latest(reader)
      BY <1>5 DEF Latest
    <2> QED  BY <1>3, <1>5, <2>1 DEF Buffered
  <1>8. Waits(r, taken)
    BY <1>3, <1>5 DEF Buffered, Latest, Waits
  <1> HIDE DEF r, taken
  <1>9. /\ advance_source(r) \in Readers
        /\ InOrder(advance_source(r), loaded, taken) /\ Buffered(advance_source(r), taken)
        /\ advance_source(r).waiting => advance_source(r).pending
        /\ Waits(advance_source(r), taken)
        /\ ~advance_source(r).waiting => Unread(advance_source(r), taken)
    BY <1>4, <1>5, <1>6, <1>7, <1>8, AdvanceSourceKeeps
  <1>10. reader' = advance_source(r)
    BY <1>1 DEF r
  <1> QED  BY <1>2, <1>3, <1>4, <1>9, <1>10, ReaderInvAfter

LEMMA ReaderKeysInvariant ==
    ReaderInv /\ (ReadStart \/ EndOfFile \/ StopReading) => ReaderInv'
  <1> SUFFICES ASSUME ReaderInv, ReadStart \/ EndOfFile \/ StopReading PROVE ReaderInv'
    OBVIOUS
  <1>1. /\ reader \in Readers
        /\ loaded \in 0 .. MaxReadCards /\ transferred \in SUBSET ReadCards
        /\ InOrder(reader, loaded, transferred) /\ Buffered(reader, transferred)
        /\ run_out \in BOOLEAN
        /\ reader.waiting => reader.pending
        /\ Waits(reader, transferred)
        /\ ~reader.waiting => Unread(reader, transferred)
        /\ loaded \in Nat
    BY ReaderInvFacts
  <1>2. CASE ReadStart
    <2>1. /\ reader' = read_start(reader) /\ loaded' = loaded /\ transferred' = transferred
          /\ run_out' \in BOOLEAN
      BY <1>1, <1>2, Zenon DEF ReadStart
    <2>2. /\ read_start(reader) \in Readers
          /\ InOrder(read_start(reader), loaded, transferred)
          /\ Buffered(read_start(reader), transferred)
          /\ ~read_start(reader).waiting /\ Unread(read_start(reader), transferred)
          /\ Waits(read_start(reader), transferred)
      BY <1>1, ReadStartKeeps
    <2> QED  BY <1>1, <2>1, <2>2, ReaderInvAfter
  <1>3. CASE EndOfFile
    <2> DEFINE r == [reader EXCEPT !.end_of_file = TRUE]
    <2>1. /\ reader' = advance_source(r) /\ loaded' = loaded /\ transferred' = transferred
          /\ run_out' \in BOOLEAN
      BY <1>3 DEF EndOfFile, end_of_file
    <2>2. /\ r \in Readers /\ r.waiting = reader.waiting
          /\ r.hopper = reader.hopper /\ r.fed = reader.fed
          /\ r.stacker = reader.stacker /\ r.source_buffer = reader.source_buffer
      BY <1>1, FlagFacts DEF Readers
    <2>3. InOrder(r, loaded, transferred) /\ Buffered(r, transferred)
      BY <1>1, <2>2, SameCards
    <2>4. (~r.waiting => Unread(r, transferred)) /\ Waits(r, transferred)
      BY <1>1, <2>2 DEF Unread, Waits
    <2> HIDE DEF r
    <2>5. /\ advance_source(r) \in Readers
          /\ InOrder(advance_source(r), loaded, transferred)
          /\ Buffered(advance_source(r), transferred)
          /\ advance_source(r).waiting => advance_source(r).pending
          /\ Waits(advance_source(r), transferred)
          /\ ~advance_source(r).waiting => Unread(advance_source(r), transferred)
      BY <1>1, <2>2, <2>3, <2>4, AdvanceSourceKeeps
    <2> QED  BY <1>1, <2>1, <2>5, ReaderInvAfter
  <1>4. CASE StopReading
    <2>1. reader' = [reader EXCEPT !.running = FALSE]
          /\ loaded' = loaded /\ transferred' = transferred /\ run_out' = run_out
      BY <1>4 DEF StopReading, read_stop
    <2>2. /\ reader' \in Readers
          /\ reader'.waiting = reader.waiting /\ reader'.pending = reader.pending
          /\ reader'.hopper = reader.hopper /\ reader'.fed = reader.fed
          /\ reader'.stacker = reader.stacker
          /\ reader'.source_buffer = reader.source_buffer
      BY <1>1, <2>1 DEF Readers
    <2>3. InOrder(reader', loaded, transferred) /\ Buffered(reader', transferred)
      BY <1>1, <2>2, SameCards
    <2>4. (~reader'.waiting => Unread(reader', transferred)) /\ Waits(reader', transferred)
      BY <1>1, <2>2 DEF Unread, Waits
    <2> QED  BY <1>1, <2>1, <2>2, <2>3, <2>4, ReaderInvAfter
  <1> QED  BY <1>2, <1>3, <1>4

LEMMA ReaderNextInv == ReaderInv /\ [Next]_unit_vars => ReaderInv'
  <1> SUFFICES ASSUME ReaderInv, [Next]_unit_vars PROVE ReaderInv'
    OBVIOUS
  <1>1. ReaderStep \/ StopReading \/ UNCHANGED rvars
    BY DEF Next, ReadSide, PunchSide, Stop, unit_vars, rvars
  <1>2. CASE UNCHANGED rvars
    BY <1>2 DEF rvars, ReaderInv, ReaderTypeOK, BufferHoldsLastCard, LatestCard,
       RequestsMatchCards, InOrder
  <1> QED
    BY <1>1, <1>2, LoadInvariant, ReadInvariant, ReaderKeysInvariant DEF ReaderStep

(* The members are those that input_output_unit.hpp declares: cards in the    *)
(* hopper and the stacker, at most one at a station.                          *)
THEOREM ReaderTypeCorrect == Spec => []ReaderTypeOK
  <1>1. Init => ReaderInv
    BY ReaderInitInv DEF Init
  <1>2. ReaderInv => ReaderTypeOK
    BY DEF ReaderInv
  <1> QED  BY <1>1, <1>2, ReaderNextInv, PTL DEF Spec

(* advance_read_cards: the buffer holds the last card that came to the last   *)
(* station, however many cards pass in one read_start.                        *)
THEOREM BufferCurrent == Spec => []BufferHoldsLastCard
  <1>1. Init => ReaderInv
    BY ReaderInitInv DEF Init
  <1>2. ReaderInv => BufferHoldsLastCard
    BY DEF ReaderInv
  <1> QED  BY <1>1, <1>2, ReaderNextInv, PTL DEF Spec

(* read_start and advance_source: in whatever order the program reads and     *)
(* keys are pressed, it waits exactly while the card at the last station is   *)
(* one it has taken, and its request is not forgotten.                        *)
THEOREM RequestsMatched == Spec => []RequestsMatchCards
  <1>1. Init => ReaderInv
    BY ReaderInitInv DEF Init
  <1>2. ReaderInv => RequestsMatchCards
    BY DEF ReaderInv
  <1> QED  BY <1>1, <1>2, ReaderNextInv, PTL DEF Spec

(* Until cards are run out there is no gap in the feed, and before the first  *)
(* card comes to the last station there is nothing in the buffer.             *)
Supplied(r) ==
    /\ ~r.end_of_file
    /\ r.fed[1] # NoCard => r.fed[2] # NoCard
    /\ r.fed[2] # NoCard => r.fed[3] # NoCard
    /\ r.fed[1] = NoCard => r.source_buffer = NoCard

SupplyInv == ReaderInv /\ (run_out \/ Supplied(reader))

LEMMA AdvanceSupplied ==
    ASSUME NEW r \in Readers, Supplied(r), r.hopper # <<>>
    PROVE  /\ Supplied(advance_read_cards(r))
           /\ Len(advance_read_cards(r).hopper) = Len(r.hopper) - 1
  <1>1. r.hopper \in Seq(ReadCards)
    BY DEF Readers
  <1>2. Head(r.hopper) \in ReadCards /\ Len(Tail(r.hopper)) = Len(r.hopper) - 1
    BY <1>1
  <1> QED  BY <1>2, NoReadCard, AdvanceReads DEF Supplied

LEMMA RunInReaders ==
    ASSUME NEW r \in Readers, NEW k \in 0 .. 3
    PROVE  RunIn(r, k) \in Readers
  <1> DEFINE s == advance_read_cards(r)
             t == advance_read_cards(s)
             u == advance_read_cards(t)
  <1>1. s \in Readers
    BY AdvanceReads
  <1> HIDE DEF s
  <1>2. t \in Readers
    BY <1>1, AdvanceReads
  <1> HIDE DEF t
  <1>3. u \in Readers
    BY <1>2, AdvanceReads
  <1> HIDE DEF u
  <1> QED  BY <1>1, <1>2, <1>3 DEF RunIn, s, t, u

LEMMA RunInSupplied ==
    ASSUME NEW r \in Readers, Supplied(r), NEW k \in 0 .. 3, k <= Len(r.hopper)
    PROVE  Supplied(RunIn(r, k))
  <1> DEFINE s == advance_read_cards(r)
             t == advance_read_cards(s)
             u == advance_read_cards(t)
  <1>1. /\ s \in Readers /\ t \in Readers /\ u \in Readers
        /\ r.hopper \in Seq(ReadCards)
        /\ s.hopper \in Seq(ReadCards) /\ t.hopper \in Seq(ReadCards)
    <2>1. s \in Readers
      BY AdvanceReads
    <2> HIDE DEF s
    <2>2. t \in Readers
      BY <2>1, AdvanceReads
    <2> HIDE DEF t
    <2>3. u \in Readers
      BY <2>2, AdvanceReads
    <2> HIDE DEF u
    <2> QED  BY <2>1, <2>2, <2>3 DEF Readers
  <1>2. /\ Len(r.hopper) \in Nat /\ (Len(r.hopper) # 0 => r.hopper # <<>>)
        /\ Len(s.hopper) \in Nat /\ (Len(s.hopper) # 0 => s.hopper # <<>>)
        /\ Len(t.hopper) \in Nat /\ (Len(t.hopper) # 0 => t.hopper # <<>>)
    <2> HIDE DEF s, t
    <2> QED  BY <1>1
  <1>3. k \in {0, 1, 2, 3}
    OBVIOUS
  <1>4. k = 0 => Supplied(RunIn(r, k))
    BY DEF RunIn
  <1>5. k > 0 => Supplied(s) /\ Len(s.hopper) = Len(r.hopper) - 1
    BY <1>2, AdvanceSupplied
  <1> HIDE DEF s
  <1>6. k > 1 => Supplied(t) /\ Len(t.hopper) = Len(s.hopper) - 1
    BY <1>1, <1>2, <1>5, AdvanceSupplied
  <1> HIDE DEF t
  <1>7. k > 2 => Supplied(u)
    BY <1>1, <1>2, <1>5, <1>6, AdvanceSupplied
  <1> HIDE DEF u
  <1>8. /\ k = 1 => RunIn(r, k) = s
        /\ k = 2 => RunIn(r, k) = t
        /\ k = 3 => RunIn(r, k) = u
    BY DEF RunIn, s, t, u
  <1> QED  BY <1>3, <1>4, <1>5, <1>6, <1>7, <1>8

(* read_start runs in no more cards than there are in the hopper.             *)
LEMMA RunInCardsThere ==
    ASSUME NEW r \in Readers, r.hopper # <<>>
    PROVE  RunInCards(r) <= Len(r.hopper)
  <1>1. r.hopper \in Seq(ReadCards)
    BY DEF Readers
  <1>2. Len(r.hopper) \in Nat \ {0}
    BY <1>1
  <1> DEFINE few == IF Len(r.hopper) < read_feed_size THEN Len(r.hopper)
                    ELSE read_feed_size
             m == Len(r.hopper)
  <1>3. RunInCards(r) \in {0, 1, few}
    BY Zenon DEF RunInCards
  <1>4. few <= m
    <2> HIDE DEF m
    <2>1. m \in Nat /\ read_feed_size \in Nat
      BY <1>2 DEF read_feed_size, m
    <2> QED  BY <2>1 DEF m
  <1> HIDE DEF few
  <1>5. 0 <= m /\ 1 <= m
    BY <1>2
  <1> QED  BY <1>3, <1>4, <1>5

LEMMA SupplyNextInv == SupplyInv /\ [Next]_unit_vars => SupplyInv'
  <1> SUFFICES ASSUME SupplyInv, [Next]_unit_vars, ~run_out'
               PROVE  Supplied(reader)'
    BY ReaderNextInv DEF SupplyInv
  <1>1. reader \in Readers
    BY DEF SupplyInv, ReaderInv, ReaderTypeOK
  <1>2. ReaderStep \/ StopReading \/ UNCHANGED rvars
    BY DEF Next, ReadSide, PunchSide, Stop, unit_vars, rvars
  <1>3. Supplied(reader)
    <2>1. ~run_out
      BY <1>2, Zenon DEF ReaderStep, LoadReadHopper, ReadStart, EndOfFile, StopReading, Read, rvars
    <2> QED  BY <2>1 DEF SupplyInv
  <1>4. CASE LoadReadHopper
    <2>1. PICK h : reader' = [reader EXCEPT !.hopper = h]
      BY <1>4 DEF LoadReadHopper
    <2> QED  BY <1>1, <1>3, <2>1 DEF Supplied, Readers
  <1>5. CASE ReadStart
    <2> DEFINE s == [reader EXCEPT !.running = TRUE]
               k == RunInCards(reader)
               t == RunIn(s, k)
    <2>1. reader.hopper # <<>>
      BY <1>5 DEF ReadStart, RunsOut
    <2>2. s \in Readers /\ s.hopper = reader.hopper /\ Supplied(s)
      BY <1>1, <1>3 DEF Supplied, Readers
    <2>3. k \in 0 .. 3 /\ k <= Len(reader.hopper)
      BY <1>1, <2>1, RunInCardsRange, RunInCardsThere
    <2>4. RunInCards(s) = k
      BY <1>1 DEF RunInCards, Readers
    <2>5. reader' = resume_source_client(t)
      BY <1>5, <2>4 DEF ReadStart, read_start
    <2> HIDE DEF s, k
    <2>6. Supplied(t) /\ t \in Readers
      BY <2>2, <2>3, RunInSupplied, RunInReaders
    <2> HIDE DEF t
    <2> QED  BY <2>5, <2>6 DEF Supplied, Readers, resume_source_client
  <1>6. CASE Read
    <2>1. PICK left \in {reader.source_buffer, NoCard} :
             reader' = advance_source([reader EXCEPT !.source_buffer = left, !.waiting = TRUE])
      BY <1>6 DEF Read
    <2> DEFINE r == [reader EXCEPT !.source_buffer = left, !.waiting = TRUE]
               s == [r EXCEPT !.end_of_file = r.end_of_file /\ ~Empty(r.fed),
                              !.pending = TRUE]
               a == advance_read_cards(s)
    <2>2. s \in Readers /\ Supplied(s)
      BY <1>1, <1>3 DEF Readers, Supplied
    <2>3. reader' = IF s.running /\ (s.hopper # <<>> \/ s.end_of_file)
                    THEN resume_source_client(a) ELSE s
      BY <2>1 DEF advance_source
    <2> HIDE DEF s
    <2>4. s.hopper # <<>> => Supplied(a) /\ a \in Readers
      BY <2>2, AdvanceSupplied, AdvanceReads
    <2> HIDE DEF a
    <2>5. ~s.end_of_file
      BY <2>2 DEF Supplied
    <2> QED  BY <2>2, <2>3, <2>4, <2>5 DEF Supplied, Readers, resume_source_client
  <1>7. CASE StopReading
    BY <1>1, <1>3, <1>7 DEF StopReading, read_stop, Supplied, Readers
  <1>8. CASE UNCHANGED rvars
    BY <1>3, <1>8 DEF rvars, Supplied
  <1>9. ~EndOfFile
    BY DEF EndOfFile
  <1> QED  BY <1>2, <1>4, <1>5, <1>6, <1>7, <1>8, <1>9 DEF ReaderStep

(* What a program that reads finds in the buffer: the card at the last        *)
(* station, which it has not taken, or nothing, or the words of a card run   *)
(* out.                                                                      *)
LEMMA ReadsUntaken ==
    SupplyInv /\ Read /\ reader.source_buffer \in transferred =>
       run_out /\ reader.fed[1] = NoCard
  <1> SUFFICES ASSUME SupplyInv, ~reader.waiting, reader.source_buffer \in transferred
               PROVE  run_out /\ reader.fed[1] = NoCard
    BY DEF Read
  <1>1. /\ Buffered(reader, transferred) /\ Unread(reader, transferred)
        /\ transferred \subseteq ReadCards
    BY ReaderInvFacts DEF SupplyInv
  <1>2. reader.source_buffer # NoCard
    BY <1>1, NoReadCard
  <1>3. reader.fed[1] = NoCard
    BY <1>1, <1>2 DEF Buffered, Latest, Unread
  <1> QED  BY <1>2, <1>3 DEF SupplyInv, Supplied

(* Read: no card is taken twice by the program, whatever the decks, however   *)
(* stops, starts and reloads come between its instructions, unless the cards  *)
(* were run out; then it can only be one that has left the feed.              *)
THEOREM TransferredOnce == Spec => CardTransferredOnce
  <1>1. Init => SupplyInv
    <2> SUFFICES ASSUME Init PROVE SupplyInv
      OBVIOUS
    <2>1. Supplied(reader)
      BY DEF Init, ReaderInit, Supplied, Stations, read_feed_size
    <2> QED  BY <2>1, ReaderInitInv DEF Init, SupplyInv
  <1>2. SupplyInv => [Read /\ reader.source_buffer \in transferred =>
                        run_out /\ reader.fed[1] = NoCard]_rvars
    BY ReadsUntaken
  <1> QED  BY <1>1, <1>2, SupplyNextInv, PTL DEF Spec, CardTransferredOnce

(* An advance moves cards between the parts of the feed, and no more.          *)
LEMMA AdvanceKeepsCards ==
    ASSUME NEW r \in Readers
    PROVE  Cards(advance(r)) = Cards(r)
  <1> DEFINE C == ReadCards \cup {NoCard}
             At(i) == CardAt(r.fed[i])
             c == IF r.hopper = <<>> THEN NoCard ELSE Head(r.hopper)
             h == IF r.hopper = <<>> THEN <<>> ELSE Tail(r.hopper)
             s == advance(r)
  <1>1. /\ r.fed \in [1 .. 3 -> C] /\ r.hopper \in Seq(ReadCards)
        /\ r.stacker \in Seq(ReadCards)
    BY DEF Readers, Stations, read_feed_size
  <1>2. NoCard \notin ReadCards
    BY NoCardAssumption, ReadDecksAssumption DEF ReadCards
  <1>3. /\ At(1) \in Seq(ReadCards) /\ At(2) \in Seq(ReadCards)
        /\ At(3) \in Seq(ReadCards)
    BY <1>1 DEF CardAt
  <1>4. /\ s.fed[1] = r.fed[2] /\ s.fed[2] = r.fed[3] /\ s.fed[3] = c
        /\ s.hopper = h
        /\ s.stacker = IF r.fed[1] = NoCard THEN r.stacker
                       ELSE Append(r.stacker, r.fed[1])
    BY AdvanceReader
  <1> HIDE DEF s
  <1>5. s.stacker = r.stacker \o At(1)
    <2>1. CASE r.fed[1] = NoCard
      <3>1. At(1) = <<>> /\ r.stacker \o <<>> = r.stacker
        BY <2>1, <1>1 DEF CardAt
      <3> QED  BY <2>1, <3>1, <1>4, Zenon
    <2>2. CASE r.fed[1] # NoCard
      <3>1. r.fed[1] \in ReadCards
        BY <2>2, <1>1
      <3>2. Append(r.stacker, r.fed[1]) = r.stacker \o <<r.fed[1]>>
        BY <3>1, <1>1
      <3>3. At(1) = <<r.fed[1]>>
        BY <2>2, Zenon DEF CardAt
      <3> QED  BY <2>2, <3>2, <3>3, <1>4, Zenon
    <2> QED  BY <2>1, <2>2
  <1>6. /\ CardAt(c) \o h = r.hopper
        /\ CardAt(c) \in Seq(ReadCards) /\ h \in Seq(ReadCards)
    <2>1. CASE r.hopper = <<>>
      BY <2>1, <1>1 DEF CardAt
    <2>2. CASE r.hopper # <<>>
      <3>1. /\ Head(r.hopper) \in ReadCards /\ Tail(r.hopper) \in Seq(ReadCards)
            /\ <<Head(r.hopper)>> \o Tail(r.hopper) = r.hopper
        BY <2>2, <1>1
      <3>2. CardAt(c) = <<Head(r.hopper)>> /\ h = Tail(r.hopper)
        BY <2>2, <3>1, <1>2 DEF CardAt
      <3>3. <<Head(r.hopper)>> \in Seq(ReadCards)
        BY <3>1
      <3> HIDE DEF c, h
      <3> QED  BY <3>1, <3>2, <3>3, Zenon
    <2> QED  BY <2>1, <2>2
  <1> DEFINE front == r.stacker \o At(1) \o At(2) \o At(3)
  <1>7. front \in Seq(ReadCards)
    BY <1>1, <1>3
  <1>8. Cards(s) = front \o CardAt(c) \o h
    BY <1>4, <1>5 DEF Cards
  <1>9. Cards(r) = front \o r.hopper
    BY DEF Cards
  <1> HIDE DEF front, h, c
  <1>10. (front \o CardAt(c)) \o h = front \o (CardAt(c) \o h)
    <2>1. \A x, y, z \in Seq(ReadCards) : (x \o y) \o z = x \o (y \o z)
      BY ConcatAssociative
    <2> DEFINE p == CardAt(c)
    <2>2. p \in Seq(ReadCards)
      BY <1>6
    <2> HIDE DEF p
    <2>3. (front \o p) \o h = front \o (p \o h)
      BY <1>6, <1>7, <2>1, <2>2
    <2> QED  BY <2>3 DEF p
  <1> QED  BY <1>6, <1>8, <1>9, <1>10 DEF s

LEMMA CardsOfParts ==
    ASSUME NEW r, NEW s, s.hopper = r.hopper, s.fed = r.fed, s.stacker = r.stacker
    PROVE  Cards(s) = Cards(r)
  BY DEF Cards

LEMMA AdvanceReadKeepsCards ==
    ASSUME NEW r \in Readers
    PROVE  advance_read_cards(r) \in Readers /\ Cards(advance_read_cards(r)) = Cards(r)
  <1>1. /\ advance_read_cards(r).hopper = advance(r).hopper
        /\ advance_read_cards(r).fed = advance(r).fed
        /\ advance_read_cards(r).stacker = advance(r).stacker
    BY AdvanceReader DEF advance_read_cards, Readers
  <1> QED  BY <1>1, CardsOfParts, AdvanceKeepsCards, AdvanceReads

LEMMA FlagsKeepCards ==
    ASSUME NEW r \in Readers, NEW b
    PROVE  /\ Cards([r EXCEPT !.running = b]) = Cards(r)
           /\ Cards([r EXCEPT !.waiting = b]) = Cards(r)
           /\ Cards([r EXCEPT !.end_of_file = b]) = Cards(r)
           /\ Cards([r EXCEPT !.end_of_file = b, !.pending = TRUE]) = Cards(r)
           /\ Cards(resume_source_client(r)) = Cards(r)
  BY CardsOfParts DEF Readers, resume_source_client

LEMMA ReadStartKeepsCards ==
    ASSUME NEW r \in Readers
    PROVE  Cards(read_start(r)) = Cards(r)
  <1> DEFINE s == [r EXCEPT !.running = TRUE]
             k == RunInCards(r)
             a == advance_read_cards(s)
             b == advance_read_cards(a)
             c == advance_read_cards(b)
             t == RunIn(s, k)
  <1>1. s \in Readers /\ Cards(s) = Cards(r)
    BY FlagFacts, FlagsKeepCards
  <1>2. k \in {0, 1, 2, 3}
    BY RunInCardsRange
  <1>3. read_start(r) = resume_source_client(t)
    BY DEF read_start
  <1> HIDE DEF s, k
  <1>4. a \in Readers /\ Cards(a) = Cards(r)
    BY <1>1, AdvanceReadKeepsCards
  <1> HIDE DEF a
  <1>5. b \in Readers /\ Cards(b) = Cards(r)
    BY <1>4, AdvanceReadKeepsCards
  <1> HIDE DEF b
  <1>6. c \in Readers /\ Cards(c) = Cards(r)
    BY <1>5, AdvanceReadKeepsCards
  <1> HIDE DEF c
  <1>7. /\ k = 0 => t = s
        /\ k = 1 => t = a
        /\ k = 2 => t = b
        /\ k = 3 => t = c
    BY DEF RunIn, a, b, c
  <1> HIDE DEF t
  <1>8. t \in Readers /\ Cards(t) = Cards(r)
    BY <1>1, <1>2, <1>4, <1>5, <1>6, <1>7
  <1> QED  BY <1>3, <1>8, FlagsKeepCards

LEMMA AdvanceSourceKeepsCards ==
    ASSUME NEW r \in Readers
    PROVE  Cards(advance_source(r)) = Cards(r)
  <1> DEFINE e == r.end_of_file /\ ~Empty(r.fed)
             s == [r EXCEPT !.end_of_file = e, !.pending = TRUE]
             a == advance_read_cards(s)
  <1>1. e \in BOOLEAN
    BY Zenon
  <1>2. advance_source(r) = IF s.running /\ (s.hopper # <<>> \/ s.end_of_file)
                            THEN resume_source_client(a) ELSE s
    BY Zenon DEF advance_source
  <1> HIDE DEF e
  <1>3. s \in Readers /\ Cards(s) = Cards(r)
    BY <1>1, FlagFacts, FlagsKeepCards
  <1> HIDE DEF s
  <1>4. a \in Readers /\ Cards(a) = Cards(r)
    BY <1>3, AdvanceReadKeepsCards
  <1> HIDE DEF a
  <1>5. Cards(resume_source_client(a)) = Cards(r)
    BY <1>4, FlagsKeepCards
  <1> QED  BY <1>2, <1>3, <1>5, Zenon

(* No key and no program loses a card, doubles one or changes the order of    *)
(* the cards; only a new deck in the hopper does (advance, load_read_hopper). *)
THEOREM CardsConserved == Spec => ReaderKeepsCards
  <1>1. ReaderInv /\ [Next]_unit_vars => [Cards(reader)' # Cards(reader) => LoadReadHopper]_rvars
    <2> SUFFICES ASSUME ReaderInv, [Next]_unit_vars, ~LoadReadHopper
                 PROVE  Cards(reader)' = Cards(reader)
      OBVIOUS
    <2>1. reader \in Readers
      BY ReaderInvFacts
    <2>2. \/ ReadStart \/ EndOfFile \/ Read \/ StopReading
          \/ UNCHANGED rvars
      BY DEF Next, ReadSide, PunchSide, Stop, ReaderStep, unit_vars, rvars
    <2>3. CASE ReadStart
      BY <2>1, <2>3, ReadStartKeepsCards DEF ReadStart
    <2>4. CASE EndOfFile
      <3> DEFINE r == [reader EXCEPT !.end_of_file = TRUE]
      <3>1. reader' = advance_source(r)
        BY <2>4 DEF EndOfFile, end_of_file
      <3>2. r \in Readers /\ Cards(r) = Cards(reader)
        BY <2>1, FlagFacts, FlagsKeepCards
      <3> HIDE DEF r
      <3> QED  BY <3>1, <3>2, AdvanceSourceKeepsCards
    <2>5. CASE Read
      <3>1. PICK left \in {reader.source_buffer, NoCard} :
               reader' = advance_source([reader EXCEPT !.source_buffer = left,
                                                       !.waiting = TRUE])
        BY <2>5 DEF Read
      <3> DEFINE r == [reader EXCEPT !.source_buffer = left, !.waiting = TRUE]
      <3>2. r \in Readers /\ Cards(r) = Cards(reader)
        BY <2>1 DEF Readers, Cards
      <3>3. reader' = advance_source(r)
        BY <3>1
      <3> HIDE DEF r
      <3> QED  BY <3>2, <3>3, AdvanceSourceKeepsCards
    <2>6. CASE StopReading
      BY <2>1, <2>6, FlagsKeepCards DEF StopReading, read_stop
    <2>7. CASE UNCHANGED rvars
      BY <2>7 DEF rvars, Cards
    <2> QED  BY <2>2, <2>3, <2>4, <2>5, <2>6, <2>7
  <1>2. Init => ReaderInv
    BY ReaderInitInv DEF Init
  <1> QED  BY <1>1, <1>2, ReaderNextInv, PTL DEF Spec, ReaderKeepsCards

----------------------------------------------------------------------------
(* The punch.                                                                *)

(* The first m records lie in the stacker, in order, and none in the feed.    *)
Punched(p, m) ==
    /\ \A i, j \in DOMAIN p.stacker :
          i < j /\ p.stacker[i] # BlankCard /\ p.stacker[j] # BlankCard =>
             p.stacker[i] < p.stacker[j]
    /\ \A i \in DOMAIN p.stacker :
          p.stacker[i] # BlankCard => p.stacker[i] \in 1 .. m
    /\ \A n \in 1 .. m : \E i \in DOMAIN p.stacker : p.stacker[i] = n
    /\ p.fed[1] \notin Records /\ p.fed[2] \notin Records

Gapless(p) == p.fed[1] # NoCard /\ p.hopper # <<>> => p.fed[2] # NoCard

(* The unit p when w records have been written.  Used as it should be, it     *)
(* has a card at the punching station as soon as it runs or has been asked to *)
(* punch, and no gap behind that card when there are cards in the hopper.     *)
PunchState(p, w, m) ==
    /\ p \in PunchUnits
    /\ p.crashed => m
    /\ ~p.crashed =>
          /\ Punched(p, IF p.pending THEN w - 1 ELSE w)
          /\ p.sink_buffer = IF p.pending THEN <<w>> ELSE <<>>
          /\ p.pending => p.waiting
          /\ p.waiting => ~p.running
    /\ ~p.crashed /\ ~m =>
          /\ p.running \/ p.pending => p.fed[1] # NoCard
          /\ Gapless(p)

(* The inductive invariant of the punching side.                              *)
PunchInv ==
    /\ PunchState(punch_unit, written, misused)
    /\ written \in 0 .. MaxRecords
    /\ misused \in BOOLEAN

LEMMA CardKinds ==
    /\ Records \subseteq Nat /\ NoCard \notin PunchCards
    /\ BlankCard \notin Records /\ NoCard # BlankCard
  BY PunchDecksAssumption, BlankCardAssumption DEF Records, PunchCards

(* One advance of the punch.                                                  *)
LEMMA AdvancePunch ==
    ASSUME NEW p \in PunchUnits
    PROVE  /\ advance(p) \in PunchUnits
           /\ advance(p).fed[1] = p.fed[2]
           /\ advance(p).fed[2] = IF p.hopper = <<>> THEN NoCard ELSE BlankCard
           /\ advance(p).hopper = IF p.hopper = <<>> THEN <<>> ELSE Tail(p.hopper)
           /\ advance(p).stacker = IF p.fed[1] = NoCard THEN p.stacker
                                   ELSE Append(p.stacker, p.fed[1])
           /\ advance(p).sink_buffer = p.sink_buffer
           /\ advance(p).running = p.running /\ advance(p).pending = p.pending
           /\ advance(p).waiting = p.waiting /\ advance(p).crashed = p.crashed
  <1> DEFINE C == PunchCards \cup {NoCard}
             c == IF p.hopper = <<>> THEN NoCard ELSE Head(p.hopper)
             f == Append(Tail(p.fed), c)
             k == IF p.fed[1] = NoCard THEN p.stacker ELSE Append(p.stacker, p.fed[1])
             h == IF p.hopper = <<>> THEN p.hopper ELSE Tail(p.hopper)
  <1>1. /\ p.fed \in [1 .. 2 -> C] /\ p.hopper \in Seq({BlankCard})
        /\ p.stacker \in Seq(PunchCards)
    BY DEF PunchUnits, punch_feed_size
  <1>2. /\ c \in C /\ h \in Seq({BlankCard})
        /\ c = IF p.hopper = <<>> THEN NoCard ELSE BlankCard
    BY <1>1 DEF PunchCards
  <1>3. f \in [1 .. 2 -> C] /\ f[1] = p.fed[2] /\ f[2] = c
    <2> HIDE DEF c, C
    <2>1. punch_feed_size \in Nat \ {0} /\ p.fed \in [1 .. punch_feed_size -> C]
      BY <1>1 DEF punch_feed_size
    <2>2. f \in [1 .. punch_feed_size -> C]
      BY <1>2, <2>1, FeedStations, Zenon
    <2>3. \A i \in 1 .. punch_feed_size - 1 : f[i] = p.fed[i + 1]
      BY <1>2, <2>1, FeedMoves
    <2>4. f[punch_feed_size] = c
      BY <1>2, <2>1, FeedTakes
    <2> HIDE DEF f
    <2> QED  BY <2>2, <2>3, <2>4 DEF punch_feed_size
  <1>4. k \in Seq(PunchCards)
    BY <1>1
  <1>5. advance(p) = [p EXCEPT !.fed = f, !.stacker = k, !.hopper = h]
    BY DEF advance
  <1> HIDE DEF f, k, c, h, C
  <1>6. \A q : q = [p EXCEPT !.fed = f, !.stacker = k, !.hopper = h] =>
           /\ q \in PunchUnits
           /\ q.fed = f /\ q.hopper = h /\ q.stacker = k
           /\ q.sink_buffer = p.sink_buffer
           /\ q.running = p.running /\ q.pending = p.pending
           /\ q.waiting = p.waiting /\ q.crashed = p.crashed
    BY <1>2, <1>3, <1>4 DEF PunchUnits, punch_feed_size, C
  <1>7. /\ advance(p) \in PunchUnits
        /\ advance(p).fed = f /\ advance(p).hopper = h /\ advance(p).stacker = k
        /\ advance(p).sink_buffer = p.sink_buffer
        /\ advance(p).running = p.running /\ advance(p).pending = p.pending
        /\ advance(p).waiting = p.waiting /\ advance(p).crashed = p.crashed
    BY <1>5, <1>6, Zenon
  <1> QED  BY <1>2, <1>3, <1>7 DEF k, h

(* A card that is stacked: blank cards do not count.                          *)
LEMMA StackBlank ==
    ASSUME NEW p, NEW q, NEW m \in Nat,
           p.stacker \in Seq(PunchCards), Punched(p, m),
           q.stacker = Append(p.stacker, BlankCard),
           q.fed[1] \notin Records, q.fed[2] \notin Records
    PROVE  Punched(q, m)
  <1>1. /\ Len(p.stacker) \in Nat /\ DOMAIN p.stacker = 1 .. Len(p.stacker)
        /\ DOMAIN q.stacker = 1 .. Len(p.stacker) + 1
        /\ \A i \in 1 .. Len(p.stacker) : q.stacker[i] = p.stacker[i]
        /\ q.stacker[Len(p.stacker) + 1] = BlankCard
    BY DEF PunchCards
  <1>2. \A i \in DOMAIN q.stacker : q.stacker[i] # BlankCard =>
           i \in DOMAIN p.stacker /\ q.stacker[i] = p.stacker[i]
    BY <1>1
  <1>3. \A i, j \in DOMAIN q.stacker :
           i < j /\ q.stacker[i] # BlankCard /\ q.stacker[j] # BlankCard =>
              q.stacker[i] < q.stacker[j]
    BY <1>2 DEF Punched
  <1>4. \A i \in DOMAIN q.stacker : q.stacker[i] # BlankCard => q.stacker[i] \in 1 .. m
    BY <1>2 DEF Punched
  <1>5. \A n \in 1 .. m : \E i \in DOMAIN q.stacker : q.stacker[i] = n
    <2> SUFFICES ASSUME NEW n \in 1 .. m PROVE \E i \in DOMAIN q.stacker : q.stacker[i] = n
      OBVIOUS
    <2>1. PICK i \in DOMAIN p.stacker : p.stacker[i] = n
      BY DEF Punched
    <2>2. i \in DOMAIN q.stacker /\ q.stacker[i] = n
      BY <1>1, <2>1
    <2> QED  BY <2>2
  <1> QED  BY <1>3, <1>4, <1>5 DEF Punched

LEMMA StackRecord ==
    ASSUME NEW p, NEW q, NEW m \in Nat, m + 1 \in Records,
           p.stacker \in Seq(PunchCards), Punched(p, m),
           q.stacker = Append(p.stacker, m + 1),
           q.fed[1] \notin Records, q.fed[2] \notin Records
    PROVE  Punched(q, m + 1)
  <1>1. /\ Len(p.stacker) \in Nat /\ DOMAIN p.stacker = 1 .. Len(p.stacker)
        /\ DOMAIN q.stacker = 1 .. Len(p.stacker) + 1
        /\ \A i \in 1 .. Len(p.stacker) : q.stacker[i] = p.stacker[i]
        /\ q.stacker[Len(p.stacker) + 1] = m + 1
    BY DEF PunchCards
  <1>2. /\ \A i, j \in DOMAIN p.stacker :
              i < j /\ p.stacker[i] # BlankCard /\ p.stacker[j] # BlankCard =>
                 p.stacker[i] < p.stacker[j]
        /\ \A i \in DOMAIN p.stacker :
              p.stacker[i] # BlankCard => p.stacker[i] \in 1 .. m
    BY DEF Punched
  <1>3. \A i, j \in DOMAIN q.stacker :
           i < j /\ q.stacker[i] # BlankCard /\ q.stacker[j] # BlankCard =>
              q.stacker[i] < q.stacker[j]
    BY <1>1, <1>2
  <1>4. \A i \in DOMAIN q.stacker :
           q.stacker[i] # BlankCard => q.stacker[i] \in 1 .. m + 1
    BY <1>1, <1>2
  <1>5. \A n \in 1 .. m + 1 : \E i \in DOMAIN q.stacker : q.stacker[i] = n
    <2> SUFFICES ASSUME NEW n \in 1 .. m + 1
                 PROVE  \E i \in DOMAIN q.stacker : q.stacker[i] = n
      OBVIOUS
    <2>1. CASE n = m + 1
      BY <1>1, <2>1
    <2>2. CASE n \in 1 .. m
      <3>1. PICK i \in DOMAIN p.stacker : p.stacker[i] = n
        BY <2>2 DEF Punched
      <3>2. i \in DOMAIN q.stacker /\ q.stacker[i] = n
        BY <1>1, <3>1
      <3> QED  BY <3>2
    <2> QED  BY <2>1, <2>2
  <1> QED  BY <1>3, <1>4, <1>5 DEF Punched

LEMMA AdvanceKeepsPunched ==
    ASSUME NEW p \in PunchUnits, NEW m \in Nat, Punched(p, m)
    PROVE  Punched(advance(p), m)
  <1> DEFINE q == advance(p)
  <1>1. /\ q.fed[1] = p.fed[2]
        /\ q.fed[2] = IF p.hopper = <<>> THEN NoCard ELSE BlankCard
        /\ q.stacker = IF p.fed[1] = NoCard THEN p.stacker ELSE Append(p.stacker, p.fed[1])
    BY AdvancePunch
  <1> HIDE DEF q
  <1>2. /\ p.stacker \in Seq(PunchCards)
        /\ p.fed[1] \in PunchCards \cup {NoCard}
    BY DEF PunchUnits, punch_feed_size
  <1>3. p.fed[1] \notin Records /\ p.fed[2] \notin Records
    BY DEF Punched
  <1>4. q.fed[1] \notin Records /\ q.fed[2] \notin Records
    BY <1>1, <1>3, CardKinds DEF PunchCards
  <1>5. CASE p.fed[1] = NoCard
    BY <1>1, <1>4, <1>5 DEF Punched, q
  <1>6. CASE p.fed[1] # NoCard
    <2>1. p.fed[1] = BlankCard
      BY <1>2, <1>3, <1>6 DEF PunchCards
    <2>2. q.stacker = Append(p.stacker, BlankCard)
      BY <1>1, <1>6, <2>1
    <2>3. Punched(q, m)
      BY <1>2, <1>4, <2>2, StackBlank
    <2> QED  BY <2>3 DEF q
  <1> QED  BY <1>5, <1>6

(* Punching the next record and advancing stacks it.                          *)
LEMMA PunchStacks ==
    ASSUME NEW p \in PunchUnits, NEW m \in Nat, Punched(p, m),
           p.fed[1] # NoCard, m + 1 \in Records, p.sink_buffer = <<m + 1>>
    PROVE  /\ punch_and_advance(p) \in PunchUnits
           /\ Punched(punch_and_advance(p), m + 1)
           /\ punch_and_advance(p).fed[1] = p.fed[2]
           /\ punch_and_advance(p).fed[2] = IF p.hopper = <<>> THEN NoCard ELSE BlankCard
           /\ p.hopper = <<>> => punch_and_advance(p).hopper = <<>>
           /\ punch_and_advance(p).sink_buffer = <<>>
           /\ ~punch_and_advance(p).pending
           /\ punch_and_advance(p).running = p.running
           /\ punch_and_advance(p).waiting = p.waiting
           /\ punch_and_advance(p).crashed = p.crashed
  <1> DEFINE f == [p.fed EXCEPT ![1] = m + 1]
             q == punch(p)
             s == advance(q)
             t == punch_and_advance(p)
  <1>1. q = [p EXCEPT !.fed[1] = Head(p.sink_buffer), !.sink_buffer = <<>>]
    BY DEF punch
  <1>2. Head(p.sink_buffer) = m + 1
    OBVIOUS
  <1>3. f \in [1 .. 2 -> PunchCards \cup {NoCard}] /\ f[1] = m + 1 /\ f[2] = p.fed[2]
    BY DEF PunchUnits, punch_feed_size, PunchCards
  <1>4. /\ q \in PunchUnits /\ q.fed = f /\ q.sink_buffer = <<>>
        /\ q.hopper = p.hopper /\ q.stacker = p.stacker
        /\ q.running = p.running /\ q.pending = p.pending
        /\ q.waiting = p.waiting /\ q.crashed = p.crashed
    <2> HIDE DEF q
    <2>1. q = [p EXCEPT !.fed = f, !.sink_buffer = <<>>]
      BY <1>1, <1>2 DEF PunchUnits, punch_feed_size
    <2> HIDE DEF f
    <2>2. <<>> \in Seq(Records)
      OBVIOUS
    <2>3. \A u : u = [p EXCEPT !.fed = f, !.sink_buffer = <<>>] =>
             /\ u \in PunchUnits /\ u.fed = f /\ u.sink_buffer = <<>>
             /\ u.hopper = p.hopper /\ u.stacker = p.stacker
             /\ u.running = p.running /\ u.pending = p.pending
             /\ u.waiting = p.waiting /\ u.crashed = p.crashed
      <3> DEFINE C == PunchCards \cup {NoCard}
                 z == <<>>
      <3>1. f \in [1 .. 2 -> C] /\ z \in Seq(Records)
        BY <1>3, <2>2
      <3> HIDE DEF C, z
      <3>2. \A u : u = [p EXCEPT !.fed = f, !.sink_buffer = z] =>
             /\ u \in PunchUnits /\ u.fed = f /\ u.sink_buffer = z
             /\ u.hopper = p.hopper /\ u.stacker = p.stacker
             /\ u.running = p.running /\ u.pending = p.pending
             /\ u.waiting = p.waiting /\ u.crashed = p.crashed
        BY <3>1 DEF PunchUnits, punch_feed_size, C
      <3> QED  BY <3>2 DEF z
    <2> QED  BY <2>1, <2>3, Zenon
  <1> HIDE DEF q, f
  <1>5. m + 1 # NoCard
    BY CardKinds DEF PunchCards
  <1>6. /\ s \in PunchUnits
        /\ s.fed[1] = p.fed[2]
        /\ s.fed[2] = IF p.hopper = <<>> THEN NoCard ELSE BlankCard
        /\ s.stacker = Append(p.stacker, m + 1)
        /\ p.hopper = <<>> => s.hopper = <<>>
        /\ s.sink_buffer = <<>>
        /\ s.running = p.running /\ s.waiting = p.waiting /\ s.crashed = p.crashed
    BY <1>3, <1>4, <1>5, AdvancePunch
  <1>7. t = [s EXCEPT !.pending = FALSE]
    BY DEF punch_and_advance, q
  <1> HIDE DEF s, t
  <1>8. /\ t \in PunchUnits
        /\ t.fed = s.fed /\ t.stacker = s.stacker /\ t.hopper = s.hopper
        /\ t.sink_buffer = s.sink_buffer
        /\ ~t.pending
        /\ t.running = s.running /\ t.waiting = s.waiting /\ t.crashed = s.crashed
    BY <1>6, <1>7 DEF PunchUnits
  <1>9. Punched(t, m + 1)
    <2>1. p.fed[2] \notin Records
      BY DEF Punched
    <2>2. t.fed[1] \notin Records /\ t.fed[2] \notin Records
      BY <2>1, <1>6, <1>8, CardKinds DEF PunchCards
    <2>3. p.stacker \in Seq(PunchCards) /\ t.stacker = Append(p.stacker, m + 1)
      BY <1>6, <1>8 DEF PunchUnits
    <2> QED  BY <2>2, <2>3, StackRecord
  <1> QED  BY <1>6, <1>8, <1>9 DEF t

LEMMA PunchCrashes ==
    ASSUME NEW p \in PunchUnits, p.fed[1] = NoCard
    PROVE  punch_and_advance(p) \in PunchUnits /\ punch_and_advance(p).crashed
  <1> DEFINE q == [p EXCEPT !.crashed = TRUE]
             s == advance(q)
  <1>1. q \in PunchUnits /\ q.crashed
    BY DEF PunchUnits
  <1>2. punch(p) = q
    BY DEF punch
  <1> HIDE DEF q
  <1>3. s \in PunchUnits /\ s.crashed
    BY <1>1, AdvancePunch
  <1>4. punch_and_advance(p) = [s EXCEPT !.pending = FALSE]
    BY <1>2 DEF punch_and_advance
  <1> HIDE DEF s
  <1> QED  BY <1>3, <1>4 DEF PunchUnits

(* The loop of punch_start leaves a card at the punching station, if there    *)
(* are cards to go on with, and opens no gap.                                 *)
LEMMA RefillFacts ==
    ASSUME NEW p \in PunchUnits
    PROVE  /\ Refill(p) \in PunchUnits
           /\ Refill(p).sink_buffer = p.sink_buffer
           /\ Refill(p).running = p.running /\ Refill(p).pending = p.pending
           /\ Refill(p).waiting = p.waiting /\ Refill(p).crashed = p.crashed
           /\ Refill(p).hopper # <<>> => Refill(p).fed[1] # NoCard
           /\ Gapless(p) => Gapless(Refill(p))
           /\ \A m \in Nat : Punched(p, m) => Punched(Refill(p), m)
  <1> DEFINE once == IF NeedsCard(p) THEN advance(p) ELSE p
             twice == IF NeedsCard(once) THEN advance(once) ELSE once
  <1>1. Refill(p) = twice
    BY DEF Refill
  <1>2. /\ once \in PunchUnits
        /\ once.sink_buffer = p.sink_buffer
        /\ once.running = p.running /\ once.pending = p.pending
        /\ once.waiting = p.waiting /\ once.crashed = p.crashed
        /\ NeedsCard(p) => once.fed[2] = BlankCard
        /\ \A m \in Nat : Punched(p, m) => Punched(once, m)
    <2>1. CASE NeedsCard(p)
      BY <2>1, AdvancePunch, AdvanceKeepsPunched DEF NeedsCard
    <2>2. CASE ~NeedsCard(p)
      BY <2>2
    <2> QED  BY <2>1, <2>2
  <1>3. Gapless(p) => Gapless(once)
    <2>1. CASE NeedsCard(p)
      BY <2>1, <1>2, CardKinds DEF Gapless
    <2>2. CASE ~NeedsCard(p)
      BY <2>2
    <2> QED  BY <2>1, <2>2
  <1>4. NeedsCard(once) => NeedsCard(p) /\ once.fed[2] # NoCard
    <2>1. CASE NeedsCard(p)
      BY <2>1, <1>2, CardKinds
    <2>2. CASE ~NeedsCard(p)
      BY <2>2
    <2> QED  BY <2>1, <2>2
  <1> HIDE DEF once
  <1>5. /\ twice \in PunchUnits
        /\ twice.sink_buffer = once.sink_buffer
        /\ twice.running = once.running /\ twice.pending = once.pending
        /\ twice.waiting = once.waiting /\ twice.crashed = once.crashed
        /\ NeedsCard(once) => twice.fed[1] = once.fed[2] /\ twice.fed[2] = BlankCard
        /\ ~NeedsCard(once) => twice = once
        /\ \A m \in Nat : Punched(once, m) => Punched(twice, m)
    <2>1. CASE NeedsCard(once)
      BY <2>1, <1>2, AdvancePunch, AdvanceKeepsPunched DEF NeedsCard
    <2>2. CASE ~NeedsCard(once)
      <3>1. twice = once
        BY <2>2, Zenon
      <3> HIDE DEF twice
      <3> QED  BY <1>2, <2>2, <3>1
    <2> QED  BY <2>1, <2>2
  <1> HIDE DEF twice
  <1>6. twice.hopper # <<>> => twice.fed[1] # NoCard
    <2>1. CASE NeedsCard(once)
      BY <2>1, <1>4, <1>5
    <2>2. CASE ~NeedsCard(once)
      BY <2>2, <1>5 DEF NeedsCard
    <2> QED  BY <2>1, <2>2
  <1>7. Gapless(once) => Gapless(twice)
    <2>1. CASE NeedsCard(once)
      BY <2>1, <1>5, CardKinds DEF Gapless
    <2>2. CASE ~NeedsCard(once)
      BY <2>2, <1>5
    <2> QED  BY <2>1, <2>2
  <1> QED  BY <1>1, <1>2, <1>3, <1>5, <1>6, <1>7

(* Whether the unit goes on is settled by the hopper; only if it does not,    *)
(* the program waits on.                                                      *)
LEMMA ResumeFacts ==
    ASSUME NEW p \in PunchUnits, NEW t,
           t = resume_sink_client([p EXCEPT !.running = p.hopper # <<>>])
    PROVE  /\ t \in PunchUnits
           /\ t.hopper = p.hopper /\ t.stacker = p.stacker /\ t.fed = p.fed
           /\ t.sink_buffer = p.sink_buffer
           /\ t.pending = p.pending /\ t.crashed = p.crashed
           /\ t.running <=> p.hopper # <<>>
           /\ t.waiting <=> p.waiting /\ ~t.running
  <1> DEFINE e == p.hopper # <<>>
             q == [p EXCEPT !.running = e]
             g == q.waiting /\ ~q.running
  <1>1. e \in BOOLEAN /\ g \in BOOLEAN
    BY Zenon
  <1>2. t = [q EXCEPT !.waiting = g]
    BY DEF resume_sink_client
  <1> HIDE DEF e
  <1>3. /\ q \in PunchUnits
        /\ q.hopper = p.hopper /\ q.stacker = p.stacker /\ q.fed = p.fed
        /\ q.sink_buffer = p.sink_buffer
        /\ q.pending = p.pending /\ q.crashed = p.crashed
        /\ q.running = e /\ q.waiting = p.waiting
    BY <1>1 DEF PunchUnits
  <1> HIDE DEF q, g
  <1>4. /\ t \in PunchUnits
        /\ t.hopper = q.hopper /\ t.stacker = q.stacker /\ t.fed = q.fed
        /\ t.sink_buffer = q.sink_buffer
        /\ t.pending = q.pending /\ t.crashed = q.crashed
        /\ t.running = q.running /\ t.waiting = g
    BY <1>1, <1>2, <1>3 DEF PunchUnits
  <1> QED  BY <1>3, <1>4 DEF e, g

LEMMA PunchStartKeeps ==
    ASSUME NEW p, NEW w \in 0 .. MaxRecords, NEW m \in BOOLEAN,
           PunchState(p, w, m), ~p.crashed
    PROVE  PunchState(punch_start(p), w,
                      m \/ (p.hopper = <<>> /\ (p.running \/ p.pending)))
  <1> DEFINE n == m \/ (p.hopper = <<>> /\ (p.running \/ p.pending))
             k == IF p.pending THEN w - 1 ELSE w
             q == IF p.pending THEN punch_and_advance(p) ELSE p
             r == Refill(q)
             t == punch_start(p)
  <1>1. /\ p \in PunchUnits /\ Punched(p, k)
        /\ p.sink_buffer = IF p.pending THEN <<w>> ELSE <<>>
        /\ p.pending => p.waiting
        /\ p.waiting => ~p.running
        /\ ~m => /\ p.running \/ p.pending => p.fed[1] # NoCard
                 /\ Gapless(p)
    BY DEF PunchState
  <1>2. w \in Nat /\ k \in Nat /\ (p.pending => w \in Records /\ w = k + 1)
    <2>1. w \in Nat
      BY PunchDecksAssumption
    <2>2. CASE p.pending
      <3>1. p.sink_buffer \in Seq(Records) /\ p.sink_buffer = <<w>>
        BY <1>1, <2>2 DEF PunchUnits
      <3>2. w \in Records
        BY <3>1
      <3> QED  BY <2>1, <2>2, <3>2 DEF Records
    <2>3. CASE ~p.pending
      BY <2>1, <2>3
    <2> QED  BY <2>2, <2>3
  <1> HIDE DEF k
  <1>3. CASE p.hopper = <<>>
    <2>1. t = advance(p)
      BY <1>3 DEF punch_start
    <2> HIDE DEF t
    <2>2. /\ t \in PunchUnits /\ t.hopper = <<>> /\ Punched(t, k)
          /\ t.sink_buffer = p.sink_buffer
          /\ t.running = p.running /\ t.pending = p.pending
          /\ t.waiting = p.waiting /\ t.crashed = p.crashed
      BY <1>1, <1>2, <1>3, <2>1, AdvancePunch, AdvanceKeepsPunched
    <2> QED  BY <1>1, <1>3, <2>2 DEF PunchState, Gapless, k, t
  <1>4. CASE p.hopper # <<>>
    <2>1. t = resume_sink_client([r EXCEPT !.running = r.hopper # <<>>])
      BY <1>4 DEF punch_start
    <2> HIDE DEF t
    <2>2. CASE p.pending /\ p.fed[1] = NoCard
      <3>1. q \in PunchUnits /\ q.crashed
        BY <1>1, <2>2, PunchCrashes
      <3>2. m
        BY <1>1, <2>2
      <3> HIDE DEF q
      <3>3. r \in PunchUnits /\ r.crashed
        BY <3>1, RefillFacts
      <3> HIDE DEF r
      <3>4. t \in PunchUnits /\ t.crashed
        BY <2>1, <3>3, ResumeFacts
      <3> QED  BY <3>2, <3>4 DEF PunchState, t
    <2>3. CASE ~(p.pending /\ p.fed[1] = NoCard)
      <3>1. /\ q \in PunchUnits /\ Punched(q, w) /\ q.sink_buffer = <<>>
            /\ ~q.pending /\ ~q.crashed
            /\ ~m => Gapless(q)
        <4>1. CASE p.pending
          <5>1. /\ p.fed[1] # NoCard /\ k + 1 \in Records
                /\ p.sink_buffer = <<k + 1>>
            BY <1>1, <1>2, <2>3, <4>1
          <5>2. q = punch_and_advance(p)
            BY <4>1
          <5> HIDE DEF q
          <5>3. /\ q \in PunchUnits /\ Punched(q, k + 1)
                /\ q.fed[2] = IF p.hopper = <<>> THEN NoCard ELSE BlankCard
                /\ q.sink_buffer = <<>> /\ ~q.pending
                /\ q.crashed = p.crashed
            BY <1>1, <1>2, <5>1, <5>2, PunchStacks
          <5> QED  BY <1>2, <1>4, <4>1, <5>3, CardKinds DEF Gapless
        <4>2. CASE ~p.pending
          <5>1. q = p /\ k = w
            BY <4>2 DEF k
          <5> HIDE DEF q
          <5> QED  BY <1>1, <4>2, <5>1
        <4> QED  BY <4>1, <4>2
      <3> HIDE DEF q
      <3>2. /\ r \in PunchUnits /\ Punched(r, w) /\ r.sink_buffer = <<>>
            /\ ~r.pending /\ ~r.crashed
            /\ r.hopper # <<>> => r.fed[1] # NoCard
            /\ ~m => Gapless(r)
        BY <1>2, <3>1, RefillFacts
      <3> HIDE DEF r
      <3>3. /\ t \in PunchUnits
            /\ t.hopper = r.hopper /\ t.stacker = r.stacker /\ t.fed = r.fed
            /\ t.sink_buffer = <<>> /\ ~t.pending /\ ~t.crashed
            /\ t.running => t.hopper # <<>>
            /\ t.waiting => ~t.running
        BY <2>1, <3>2, ResumeFacts
      <3>4. Punched(t, w) /\ (~m => Gapless(t)) /\ (t.running => t.fed[1] # NoCard)
        BY <3>2, <3>3 DEF Punched, Gapless
      <3> QED  BY <3>3, <3>4 DEF PunchState, t
    <2> QED  BY <2>2, <2>3
  <1> QED  BY <1>3, <1>4

LEMMA WriteKeeps ==
    ASSUME NEW p, NEW w \in 0 .. MaxRecords, NEW m \in BOOLEAN, NEW v,
           PunchState(p, w, m), ~p.crashed, ~p.waiting, w < MaxRecords,
           v = [p EXCEPT !.sink_buffer = Append(@, w + 1), !.waiting = TRUE]
    PROVE  PunchState(advance_sink(v), w + 1, m \/ (~p.running /\ p.fed[1] = NoCard))
  <1> DEFINE n == m \/ (~p.running /\ p.fed[1] = NoCard)
             z == <<w + 1>>
             t == advance_sink(v)
  <1>1. /\ p \in PunchUnits /\ Punched(p, w)
        /\ p.sink_buffer = <<>> /\ ~p.pending
        /\ ~m => /\ p.running => p.fed[1] # NoCard
                 /\ Gapless(p)
    BY DEF PunchState
  <1>2. w \in Nat /\ w + 1 \in Records /\ z \in Seq(Records) /\ (w + 1) - 1 = w
    BY PunchDecksAssumption DEF Records
  <1>3. v = [p EXCEPT !.sink_buffer = z, !.waiting = TRUE]
    BY <1>1
  <1> HIDE DEF z
  <1>4. /\ v \in PunchUnits
        /\ v.hopper = p.hopper /\ v.stacker = p.stacker /\ v.fed = p.fed
        /\ v.sink_buffer = z /\ v.waiting
        /\ v.running = p.running /\ ~v.pending /\ ~v.crashed
    BY <1>1, <1>2, <1>3 DEF PunchUnits
  <1>5. Punched(v, w) /\ (~m => Gapless(v))
    BY <1>1, <1>4 DEF Punched, Gapless
  <1>6. CASE ~p.running
    <2>1. t = [v EXCEPT !.pending = TRUE]
      BY <1>4, <1>6 DEF advance_sink
    <2> HIDE DEF t
    <2>2. /\ t \in PunchUnits
          /\ t.hopper = v.hopper /\ t.stacker = v.stacker /\ t.fed = v.fed
          /\ t.sink_buffer = z /\ t.waiting /\ t.pending
          /\ ~t.running /\ ~t.crashed
      BY <1>4, <1>6, <2>1 DEF PunchUnits
    <2>3. Punched(t, w) /\ (~m => Gapless(t))
      BY <1>5, <2>2 DEF Punched, Gapless
    <2>4. ~n => t.fed[1] # NoCard
      BY <1>4, <1>6, <2>2
    <2> QED  BY <1>2, <2>2, <2>3, <2>4 DEF PunchState, t, z
  <1>7. CASE p.running /\ p.fed[1] = NoCard
    <2> DEFINE q == punch_and_advance(v)
    <2>1. t = resume_sink_client([q EXCEPT !.running = q.hopper # <<>>])
      BY <1>4, <1>7 DEF advance_sink
    <2>2. q \in PunchUnits /\ q.crashed
      BY <1>4, <1>7, PunchCrashes
    <2> HIDE DEF q, t
    <2>3. t \in PunchUnits /\ t.crashed
      BY <2>1, <2>2, ResumeFacts
    <2>4. m
      BY <1>1, <1>7
    <2> QED  BY <2>3, <2>4 DEF PunchState, t
  <1>8. CASE p.running /\ p.fed[1] # NoCard
    <2> DEFINE q == punch_and_advance(v)
    <2>1. t = resume_sink_client([q EXCEPT !.running = q.hopper # <<>>])
      BY <1>4, <1>8 DEF advance_sink
    <2>2. v.fed[1] # NoCard /\ v.sink_buffer = <<w + 1>>
      BY <1>4, <1>8 DEF z
    <2>3. /\ q \in PunchUnits /\ Punched(q, w + 1)
          /\ q.fed[1] = v.fed[2]
          /\ q.fed[2] = IF v.hopper = <<>> THEN NoCard ELSE BlankCard
          /\ v.hopper = <<>> => q.hopper = <<>>
          /\ q.sink_buffer = <<>> /\ ~q.pending /\ ~q.crashed
      BY <1>2, <1>4, <1>5, <2>2, PunchStacks
    <2> HIDE DEF q, t
    <2>4. /\ t \in PunchUnits
          /\ t.hopper = q.hopper /\ t.stacker = q.stacker /\ t.fed = q.fed
          /\ t.sink_buffer = <<>> /\ ~t.pending /\ ~t.crashed
          /\ t.running => t.hopper # <<>>
          /\ t.waiting => ~t.running
      BY <2>1, <2>3, ResumeFacts
    <2>5. Punched(t, w + 1)
      BY <2>3, <2>4 DEF Punched
    <2>6. Gapless(t)
      BY <2>3, <2>4, CardKinds DEF Gapless
    <2>7. ~m /\ t.running => t.fed[1] # NoCard
      BY <1>5, <2>2, <2>3, <2>4 DEF Gapless
    <2> QED  BY <2>4, <2>5, <2>6, <2>7 DEF PunchState, t
  <1> QED  BY <1>6, <1>7, <1>8

LEMMA LoadKeeps ==
    ASSUME NEW p, NEW w, NEW m \in BOOLEAN, NEW k \in Nat,
           PunchState(p, w, m), ~p.crashed
    PROVE  PunchState([p EXCEPT !.hopper = [i \in 1 .. k |-> BlankCard]], w,
                      m \/ (p.fed[1] # NoCard /\ p.fed[2] = NoCard))
  <1> DEFINE h == [i \in 1 .. k |-> BlankCard]
             t == [p EXCEPT !.hopper = h]
  <1>1. h \in Seq({BlankCard})
    OBVIOUS
  <1> HIDE DEF h
  <1>2. p \in PunchUnits
    BY DEF PunchState
  <1>3. /\ t \in PunchUnits
        /\ t.stacker = p.stacker /\ t.fed = p.fed
        /\ t.sink_buffer = p.sink_buffer
        /\ t.running = p.running /\ t.pending = p.pending
        /\ t.waiting = p.waiting /\ t.crashed = p.crashed
    BY <1>1, <1>2 DEF PunchUnits
  <1> HIDE DEF t
  <1>4. \A k1 \in {w, w - 1} : Punched(p, k1) => Punched(t, k1)
    BY <1>3 DEF Punched
  <1> QED  BY <1>3, <1>4 DEF PunchState, Gapless, t, h

LEMMA StopKeeps ==
    ASSUME NEW p, NEW w, NEW m \in BOOLEAN, PunchState(p, w, m), ~p.crashed
    PROVE  PunchState(punch_stop(p), w, m)
  <1> DEFINE t == punch_stop(p)
  <1>1. p \in PunchUnits
    BY DEF PunchState
  <1>2. /\ t \in PunchUnits
        /\ t.hopper = p.hopper /\ t.stacker = p.stacker /\ t.fed = p.fed
        /\ t.sink_buffer = p.sink_buffer
        /\ ~t.running /\ t.pending = p.pending
        /\ t.waiting = p.waiting /\ t.crashed = p.crashed
    BY <1>1 DEF PunchUnits, punch_stop
  <1> HIDE DEF t
  <1>3. \A k \in {w, w - 1} : Punched(p, k) => Punched(t, k)
    BY <1>2 DEF Punched
  <1> QED  BY <1>2, <1>3 DEF PunchState, Gapless, t

LEMMA PunchInitInv == PunchInit => PunchInv
  <1> SUFFICES ASSUME PunchInit PROVE PunchInv
    OBVIOUS
  <1> DEFINE f == [i \in 1 .. punch_feed_size |-> NoCard]
             z == <<>>
  <1>1. /\ punch_unit = [hopper |-> z, stacker |-> z, fed |-> f, sink_buffer |-> z,
                         running |-> FALSE, pending |-> FALSE,
                         waiting |-> FALSE, crashed |-> FALSE]
        /\ written = 0 /\ misused = FALSE
    BY DEF PunchInit
  <1>2. f \in [1 .. punch_feed_size -> PunchCards \cup {NoCard}]
    OBVIOUS
  <1>3. f[1] = NoCard /\ f[2] = NoCard
    BY DEF punch_feed_size
  <1>4. /\ z \in Seq({BlankCard}) /\ z \in Seq(PunchCards) /\ z \in Seq(Records)
        /\ DOMAIN z = {}
    OBVIOUS
  <1> HIDE DEF f, z
  <1>5. punch_unit \in PunchUnits
    BY <1>1, <1>2, <1>4 DEF PunchUnits
  <1>6. /\ punch_unit.fed = f /\ punch_unit.hopper = z /\ punch_unit.stacker = z
        /\ punch_unit.sink_buffer = z
        /\ ~punch_unit.running /\ ~punch_unit.pending
        /\ ~punch_unit.waiting /\ ~punch_unit.crashed
    BY <1>1
  <1>7. Punched(punch_unit, 0)
    BY <1>3, <1>4, <1>6, CardKinds DEF Punched, PunchCards
  <1>8. written \in 0 .. MaxRecords
    BY <1>1, PunchDecksAssumption
  <1> QED  BY <1>1, <1>5, <1>6, <1>7, <1>8 DEF PunchInv, PunchState, Gapless, z

LEMMA PunchNextInv == PunchInv /\ [Next]_unit_vars => PunchInv'
  <1> SUFFICES ASSUME PunchInv, [Next]_unit_vars PROVE PunchInv'
    OBVIOUS
  <1>1. /\ PunchState(punch_unit, written, misused)
        /\ written \in 0 .. MaxRecords /\ misused \in BOOLEAN
    BY DEF PunchInv
  <1>2. LoadPunchHopper \/ PunchStart \/ Write \/ StopPunching \/ UNCHANGED pvars
    BY DEF Next, ReadSide, PunchSide, PunchStep, Stop, unit_vars
  <1>3. CASE LoadPunchHopper
    <2>1. PICK n \in PunchDecks :
             /\ ~punch_unit.crashed
             /\ punch_unit' = [punch_unit EXCEPT !.hopper = [i \in 1 .. n |-> BlankCard]]
             /\ misused' = (misused \/ LoadsBehindGap)
             /\ written' = written
      BY <1>3 DEF LoadPunchHopper
    <2>2. n \in Nat
      BY PunchDecksAssumption
    <2>3. misused' = (misused \/ (punch_unit.fed[1] # NoCard /\ punch_unit.fed[2] = NoCard))
      BY <2>1 DEF LoadsBehindGap
    <2>4. PunchState(punch_unit', written, misused')
      <3>1. PunchState([punch_unit EXCEPT !.hopper = [i \in 1 .. n |-> BlankCard]], written,
                misused \/ (punch_unit.fed[1] # NoCard /\ punch_unit.fed[2] = NoCard))
        BY <1>1, <2>1, <2>2, LoadKeeps
      <3> QED  BY <2>1, <2>3, <3>1
    <2>5. misused' \in BOOLEAN
      BY <1>1, <2>3, Zenon
    <2> QED  BY <1>1, <2>1, <2>4, <2>5 DEF PunchInv, PunchState, Punched, Gapless
  <1>4. CASE PunchStart
    <2>1. /\ ~punch_unit.crashed /\ punch_unit' = punch_start(punch_unit)
          /\ written' = written
          /\ misused' = (misused \/ (punch_unit.hopper = <<>>
                                     /\ (punch_unit.running \/ punch_unit.pending)))
      BY <1>4 DEF PunchStart, RunsOutUnderWork
    <2>2. PunchState(punch_unit', written, misused')
      BY <1>1, <2>1, PunchStartKeeps, Zenon
    <2>3. misused' \in BOOLEAN
      BY <1>1, <2>1, Zenon
    <2> QED  BY <1>1, <2>1, <2>2, <2>3 DEF PunchInv, PunchState, Punched, Gapless
  <1>5. CASE Write
    <2> DEFINE v == [punch_unit EXCEPT !.sink_buffer = Append(@, written + 1),
                                       !.waiting = TRUE]
    <2>1. /\ ~punch_unit.crashed /\ ~punch_unit.waiting /\ written < MaxRecords
          /\ written' = written + 1
          /\ punch_unit' = advance_sink(v)
          /\ misused' = (misused \/ (~punch_unit.running /\ punch_unit.fed[1] = NoCard))
      BY <1>5 DEF Write, WritesBeforeRunIn
    <2>2. PunchState(punch_unit', written', misused')
      BY <1>1, <2>1, WriteKeeps
    <2>3. misused' \in BOOLEAN
      BY <1>1, <2>1, Zenon
    <2>4. written' \in 0 .. MaxRecords
      BY <1>1, <2>1, PunchDecksAssumption
    <2> QED  BY <2>2, <2>3, <2>4 DEF PunchInv, PunchState, Punched, Gapless
  <1>6. CASE StopPunching
    <2>1. /\ ~punch_unit.crashed /\ punch_unit' = punch_stop(punch_unit)
          /\ written' = written /\ misused' = misused
      BY <1>6 DEF StopPunching
    <2>2. PunchState(punch_unit', written', misused')
      BY <1>1, <2>1, StopKeeps
    <2> QED  BY <1>1, <2>1, <2>2 DEF PunchInv, PunchState, Punched, Gapless
  <1>7. CASE UNCHANGED pvars
    BY <1>1, <1>7 DEF pvars, PunchInv, PunchState, Punched, Gapless
  <1> QED  BY <1>2, <1>3, <1>4, <1>5, <1>6, <1>7

LEMMA PunchInvOrder == PunchInv => RecordsPunchedInOrder
  <1> SUFFICES ASSUME PunchInv, ~punch_unit.crashed PROVE RecordsPunchedInOrder
    BY DEF RecordsPunchedInOrder
  <1> DEFINE p == punch_unit
             m == IF p.pending THEN written - 1 ELSE written
  <1>1. /\ p \in PunchUnits /\ written \in Nat
        /\ Punched(p, m)
        /\ p.sink_buffer = IF p.pending THEN <<written>> ELSE <<>>
        /\ p.pending => p.waiting
    BY PunchDecksAssumption DEF PunchInv, PunchState
  <1>2. written - Len(p.sink_buffer) = m
    <2>1. CASE p.pending
      BY <1>1, <2>1
    <2>2. CASE ~p.pending
      BY <1>1, <2>2
    <2> QED  BY <2>1, <2>2
  <1> HIDE DEF m
  <1>3. \A i, j \in RecordPlaces : i < j => p.stacker[i] < p.stacker[j]
    BY <1>1 DEF RecordPlaces, Punched
  <1>4. {p.stacker[i] : i \in RecordPlaces} = 1 .. m
    <2>1. \A i \in RecordPlaces : p.stacker[i] \in 1 .. m
      BY <1>1 DEF RecordPlaces, Punched
    <2>2. \A n \in 1 .. m : \E i \in RecordPlaces : p.stacker[i] = n
      <3> SUFFICES ASSUME NEW n \in 1 .. m
                   PROVE  \E i \in RecordPlaces : p.stacker[i] = n
        OBVIOUS
      <3>1. PICK i \in DOMAIN p.stacker : p.stacker[i] = n
        BY <1>1 DEF Punched
      <3>2. n \in Nat
        OBVIOUS
      <3>3. p.stacker[i] # BlankCard
        BY <3>1, <3>2, BlankCardAssumption
      <3> QED  BY <3>1, <3>3 DEF RecordPlaces
    <2> QED  BY <2>1, <2>2
  <1>5. \A i \in 1 .. punch_feed_size : ~(p.fed[i] \in Records)
    BY <1>1 DEF Punched, punch_feed_size
  <1> QED  BY <1>1, <1>2, <1>3, <1>4, <1>5 DEF RecordsPunchedInOrder

(* advance_sink and punch_start: every record the program writes is punched   *)
(* once, in the order of writing, however stops, starts and empty hoppers     *)
(* come between, and at most the last one is still to be punched.             *)
THEOREM PunchedInOrder == Spec => []RecordsPunchedInOrder
  <1>1. Init => PunchInv
    BY PunchInitInv DEF Init
  <1> QED  BY <1>1, PunchNextInv, PunchInvOrder, PTL DEF Spec

(* resume_sink_client: the program that waits for the punch is never forgotten *)
(* by a punch that runs.                                                      *)
THEOREM NoLostWakeup == Spec => []WaitsForStart
  <1>1. Init => PunchInv
    BY PunchInitInv DEF Init
  <1>2. PunchInv => WaitsForStart
    BY DEF PunchInv, PunchState, WaitsForStart
  <1> QED  BY <1>1, <1>2, PunchNextInv, PTL DEF Spec

(* punch: the null pointer is dereferenced only after one of the three        *)
(* sequences of Misuse, whatever the decks and the number of records.         *)
THEOREM CrashNeedsMisuse == Spec => []PunchHasCard
  <1>1. Init => PunchInv
    BY PunchInitInv DEF Init
  <1>2. PunchInv => PunchHasCard
    BY DEF PunchInv, PunchState, PunchHasCard
  <1> QED  BY <1>1, <1>2, PunchNextInv, PTL DEF Spec

=============================================================================

------------------------- MODULE CardOwnershipProofs -------------------------
(***************************************************************************)
(* That the commands free what an answer made them allocate, each block    *)
(* once, however many cards it has and whichever of their strings.         *)
(***************************************************************************)
EXTENDS CardOwnership, TLAPS

\* The blocks of a card carry its number, those of the answer the number 0.
LEMMA BlocksAreNumbered ==
  ASSUME NEW card, NEW c, NEW b \in BlocksOf(card, c)
  PROVE  b[1] = c
  BY DEF BlocksOf

LEMMA AnswerIsNumbered ==
  Response[1] = 0 /\ Document[1] = 0 /\ List[1] = 0
  /\ Response # List /\ Document # List
  BY DEF Response, Document, List

\* No block of the answer is one of a card.
LEMMA AnswerIsApart ==
  ASSUME TypeOK, NEW first \in Nat \ {0}
  PROVE  /\ Response \notin BlocksFrom(first) /\ Document \notin BlocksFrom(first)
         /\ List \notin BlocksFrom(first)
<1>1. ASSUME NEW b \in BlocksFrom(first)
      PROVE  b[1] # 0
  <2>1. PICK c \in first .. Len(cards) : b \in BlocksOf(cards[c], c)
    BY DEF BlocksFrom
  <2>2. b[1] = c
    BY <2>1, BlocksAreNumbered
  <2> QED
    BY <2>1, <2>2 DEF TypeOK
<1> QED
  BY <1>1, AnswerIsNumbered

\* What deleting the next card leaves are the blocks of the cards behind it.
LEMMA DeleteOne ==
  ASSUME TypeOK, at < Len(cards)
  PROVE  /\ BlocksOf(cards[at + 1], at + 1) \subseteq BlocksFrom(at + 1)
         /\ BlocksFrom(at + 1) \ BlocksOf(cards[at + 1], at + 1) = BlocksFrom(at + 2)
<1> DEFINE Own == BlocksOf(cards[at + 1], at + 1)
<1>1. at \in Nat /\ Len(cards) \in Nat
  BY DEF TypeOK
<1>2. at + 1 \in at + 1 .. Len(cards)
  BY <1>1
<1>3. Own \subseteq BlocksFrom(at + 1)
  BY <1>2 DEF BlocksFrom
<1>4. BlocksFrom(at + 2) \subseteq BlocksFrom(at + 1)
  <2>1. at + 2 .. Len(cards) \subseteq at + 1 .. Len(cards)
    BY <1>1
  <2> QED
    BY <2>1 DEF BlocksFrom
<1>5. ASSUME NEW b \in BlocksFrom(at + 1), b \notin Own
      PROVE  b \in BlocksFrom(at + 2)
  <2>1. PICK c \in at + 1 .. Len(cards) : b \in BlocksOf(cards[c], c)
    BY DEF BlocksFrom
  <2>2. c # at + 1
    BY <1>5, <2>1
  <2>3. c \in at + 2 .. Len(cards)
    BY <1>1, <2>1, <2>2
  <2> QED
    BY <2>1, <2>3 DEF BlocksFrom
<1>6. ASSUME NEW b \in BlocksFrom(at + 2)
      PROVE  b \notin Own
  <2>1. PICK c \in at + 2 .. Len(cards) : b \in BlocksOf(cards[c], c)
    BY DEF BlocksFrom
  <2>2. b[1] = c
    BY <2>1, BlocksAreNumbered
  <2>3. c # at + 1
    BY <1>1, <2>1
  <2> QED
    BY <2>2, <2>3, BlocksAreNumbered
<1> QED
  BY <1>3, <1>4, <1>5, <1>6

\* A card that is parsed adds its blocks.
LEMMA AppendOne ==
  ASSUME TypeOK, NEW card, cards' = Append(cards, card)
  PROVE  BlocksFrom(1)' = BlocksFrom(1) \cup BlocksOf(card, Len(cards'))
<1>1. Len(cards) \in Nat /\ Len(cards') = Len(cards) + 1
  BY DEF TypeOK
<1>2. cards'[Len(cards')] = card
  BY <1>1 DEF TypeOK
<1>3. \A c \in 1 .. Len(cards) : cards'[c] = cards[c]
  BY DEF TypeOK
<1>4. 1 .. Len(cards') = 1 .. Len(cards) \cup {Len(cards')}
  BY <1>1
<1>5. BlocksFrom(1)' = UNION {BlocksOf(cards'[c], c) : c \in 1 .. Len(cards')}
  BY DEF BlocksFrom, BlocksOf
<1>6. ASSUME NEW b
      PROVE  b \in BlocksFrom(1)' <=> b \in BlocksFrom(1) \cup BlocksOf(card, Len(cards'))
  <2>1. b \in BlocksFrom(1)' <=> \E c \in 1 .. Len(cards') : b \in BlocksOf(cards'[c], c)
    BY <1>5
  <2>2. b \in BlocksFrom(1) <=> \E c \in 1 .. Len(cards) : b \in BlocksOf(cards[c], c)
    BY DEF BlocksFrom
  <2> QED
    BY <1>2, <1>3, <1>4, <2>1, <2>2
<1> QED
  BY <1>6

\* Asking and parsing.
LEMMA ParseKeeps ==
  ASSUME IInv, Refused \/ NotJson \/ NoData \/ Answered \/ Parse \/ Parsed
  PROVE  IInv'
<1>1. TypeOK /\ Len(cards) \in Nat
  BY DEF IInv, TypeOK
<1>2. MaxCards \in Nat \ {0} /\ MaxData \in Nat
  BY OwnershipAssumption
<1>3. NoCard \in Cards
  BY DEF NoCard, Cards
<1>4. CASE Refused
  BY <1>4 DEF Refused, Ended, IInv, TypeOK, HeapIsExact, CardsFit, AllIsFreed,
    UndefinedByFaces
<1>5. CASE NotJson
  <2>1. CASE command = "search"
    <3>1. /\ cards' = <<>> /\ unread' = TRUE /\ pc' = "show" /\ at' = 0
          /\ UNCHANGED <<command, total, data>>
      BY <1>5, <2>1 DEF NotJson, IInv
    <3>2. TypeOK'
      BY <1>1, <3>1 DEF TypeOK
    <3> QED
      BY <1>2, <3>1, <3>2 DEF IInv, HeapIsExact, CardsFit, AllIsFreed, UndefinedByFaces
  <2>2. CASE command # "search"
    <3>1. /\ cards' = <<NoCard>> /\ unread' = FALSE /\ pc' = "show" /\ at' = 0
          /\ heap' = {} /\ UNCHANGED <<command, total, data>>
      BY <1>5, <2>2 DEF NotJson, IInv
    <3>2. cards' \in Seq(Cards) /\ Len(cards') = 1
      BY <1>3, <3>1
    <3>3. TypeOK'
      <4>1. at' \in 0 .. Len(cards')
        BY <3>1, <3>2
      <4> QED
        BY <1>1, <3>1, <3>2, <4>1 DEF TypeOK
    <3>4. BlocksOf(NoCard, 1) = {}
      BY DEF BlocksOf, NoCard
    <3>5. BlocksFrom(1)' = {}
      <4>1. cards'[1] = NoCard
        BY <3>1
      <4>2. BlocksFrom(1)' = UNION {BlocksOf(cards'[c], c) : c \in 1 .. 1}
        BY <3>2 DEF BlocksFrom, BlocksOf
      <4>3. \A c \in 1 .. 1 : c = 1
        OBVIOUS
      <4> QED
        BY <3>4, <4>1, <4>2, <4>3
    <3>6. HeapIsExact'
      BY <2>2, <3>1, <3>5 DEF HeapIsExact, ListBlock
    <3> QED
      BY <1>2, <3>1, <3>2, <3>3, <3>6 DEF IInv, CardsFit, AllIsFreed, UndefinedByFaces
  <2> QED
    BY <2>1, <2>2
<1>6. CASE NoData
  <2>1. /\ cards' = <<>> /\ unread' = TRUE /\ pc' = "show" /\ at' = 0
        /\ UNCHANGED <<command, total, data>>
    BY <1>6 DEF NoData, IInv
  <2>2. TypeOK'
    BY <1>1, <2>1 DEF TypeOK
  <2> QED
    BY <1>2, <2>1, <2>2 DEF IInv, HeapIsExact, CardsFit, AllIsFreed, UndefinedByFaces
<1>7. CASE Answered
  <2>1. /\ cards' = <<>> /\ unread' = FALSE /\ pc' = "parse" /\ at' = 0
        /\ UNCHANGED command /\ total' \in Nat /\ data' \in Nat
        /\ heap' = Held \cup {Document}
    BY <1>2, <1>7 DEF Answered, IInv
  <2>2. TypeOK'
    <3>1. cards' \in Seq(Cards) /\ at' \in 0 .. Len(cards')
      BY <2>1
    <3>2. pc' \in {"parse"} /\ unread' \in BOOLEAN /\ command' \in {"search", "info"}
      BY <1>1, <2>1 DEF TypeOK
    <3> QED
      BY <2>1, <3>1, <3>2 DEF TypeOK
  <2>3. BlocksFrom(1)' = {}
    BY <2>1 DEF BlocksFrom
  <2>4. HeapIsExact'
    BY <2>1, <2>3 DEF HeapIsExact, Held, ListBlock
  <2> QED
    BY <1>2, <2>1, <2>2, <2>4 DEF IInv, CardsFit, AllIsFreed, UndefinedByFaces
<1>8. CASE Parse
  <2>1. PICK card \in Cards : /\ cards' = Append(cards, card)
                              /\ heap' = heap \cup BlocksOf(card, Len(cards'))
    BY <1>3, <1>8 DEF Parse
  <2>2. /\ pc = "parse" /\ Len(cards) < MaxCards /\ at = 0 /\ ~unread
        /\ UNCHANGED <<pc, command, total, at, unread>> /\ data' \in Nat
    BY <1>1, <1>8 DEF Parse, IInv, TypeOK
  <2>3. cards' \in Seq(Cards) /\ Len(cards') = Len(cards) + 1
    BY <1>1, <2>1 DEF TypeOK
  <2>4. TypeOK'
    BY <1>1, <2>2, <2>3 DEF TypeOK
  <2>5. BlocksFrom(1)' = BlocksFrom(1) \cup BlocksOf(card, Len(cards'))
    BY <1>1, <2>1, AppendOne
  <2>6. HeapIsExact'
    BY <2>1, <2>2, <2>5 DEF HeapIsExact, ListBlock, IInv
  <2> QED
    BY <1>1, <1>2, <2>2, <2>3, <2>4, <2>6 DEF IInv, CardsFit, AllIsFreed, UndefinedByFaces
<1>9. CASE Parsed
  <2>1. /\ pc = "parse" /\ ~unread /\ at = 0 /\ pc' = "show"
        /\ heap' = heap \ {Response, Document}
        /\ UNCHANGED <<command, total, data, cards, at, unread>>
    BY <1>9 DEF Parsed, IInv
  <2>2. BlocksFrom(1)' = BlocksFrom(1)
    BY <2>1 DEF BlocksFrom, BlocksOf
  <2>3. heap = {Response, Document} \cup ListBlock \cup BlocksFrom(1)
    BY <2>1 DEF IInv, HeapIsExact
  <2>4. heap' = ListBlock \cup BlocksFrom(1)
    <3>1. Response \notin BlocksFrom(1) /\ Document \notin BlocksFrom(1)
      BY <1>1, AnswerIsApart
    <3>2. Response \notin ListBlock /\ Document \notin ListBlock
      BY AnswerIsNumbered DEF ListBlock
    <3> QED
      BY <2>1, <2>3, <3>1, <3>2
  <2>5. HeapIsExact'
    BY <2>1, <2>2, <2>4 DEF HeapIsExact, ListBlock
  <2> QED
    BY <1>1, <2>1, <2>5 DEF IInv, TypeOK, CardsFit, AllIsFreed, UndefinedByFaces
<1> QED
  BY <1>4, <1>5, <1>6, <1>7, <1>8, <1>9

\* Showing and deleting.
LEMMA DeleteKeeps ==
  ASSUME IInv, Show \/ ShowCrashes \/ Shown \/ Delete \/ DeleteGarbage \/ Deleted
  PROVE  IInv'
<1>1. TypeOK /\ Len(cards) \in Nat /\ at \in 0 .. Len(cards)
  BY DEF IInv, TypeOK
<1>2. CASE Show
  <2>1. /\ pc = "show" /\ at' = at + 1 /\ at' \in 0 .. Len(cards)
        /\ UNCHANGED <<pc, command, heap, total, data, cards, unread>>
    BY <1>1, <1>2 DEF Show
  <2>2. BlocksFrom(1)' = BlocksFrom(1)
    BY <2>1 DEF BlocksFrom, BlocksOf
  <2>3. HeapIsExact'
    BY <2>1, <2>2 DEF HeapIsExact, ListBlock, IInv
  <2> QED
    BY <1>1, <2>1, <2>3 DEF IInv, TypeOK, CardsFit, AllIsFreed, UndefinedByFaces
<1>3. CASE ShowCrashes
  BY <1>3 DEF ShowCrashes, Ended, IInv, TypeOK, HeapIsExact, CardsFit, AllIsFreed,
    UndefinedByFaces
<1>4. CASE Shown
  <2>1. /\ pc = "show" /\ at' = 0 /\ pc' = "delete"
        /\ UNCHANGED <<command, heap, total, data, cards, unread>>
    BY <1>4 DEF Shown
  <2>2. BlocksFrom(at + 1)' = BlocksFrom(1)
    BY <2>1 DEF BlocksFrom, BlocksOf
  <2>3. HeapIsExact'
    BY <2>1, <2>2 DEF HeapIsExact, ListBlock, IInv
  <2> QED
    BY <1>1, <2>1, <2>3 DEF IInv, TypeOK, CardsFit, AllIsFreed, UndefinedByFaces
<1>5. CASE Delete
  <2>1. /\ pc = "delete" /\ at < Len(cards) /\ at' = at + 1
        /\ heap' = heap \ BlocksOf(cards[at + 1], at + 1)
        /\ UNCHANGED <<pc, command, total, data, cards, unread>>
    BY <1>5 DEF Delete
  <2>2. ~unread
    BY <1>1, <2>1 DEF IInv
  <2>3. heap = ListBlock \cup BlocksFrom(at + 1)
    BY <2>1, <2>2 DEF IInv, HeapIsExact
  <2>4. heap' = ListBlock \cup BlocksFrom(at + 2)
    <3>1. List \notin BlocksOf(cards[at + 1], at + 1)
      BY <1>1, AnswerIsNumbered, BlocksAreNumbered
    <3>2. ListBlock \cap BlocksOf(cards[at + 1], at + 1) = {}
      BY <3>1 DEF ListBlock
    <3> QED
      BY <1>1, <2>1, <2>3, <3>2, DeleteOne
  <2>5. BlocksFrom(at + 1)' = BlocksFrom(at + 2)
    BY <1>1, <2>1 DEF BlocksFrom, BlocksOf
  <2>6. HeapIsExact'
    BY <2>1, <2>4, <2>5 DEF HeapIsExact, ListBlock
  <2> QED
    BY <1>1, <2>1, <2>6 DEF IInv, TypeOK, CardsFit, AllIsFreed, UndefinedByFaces
<1>6. CASE DeleteGarbage
  <2>1. /\ pc = "delete" /\ at < Len(cards) /\ pc' = "undefined"
        /\ ~Deletable(cards[at + 1], at + 1)
        /\ UNCHANGED <<command, heap, total, data, cards, at, unread>>
    BY <1>6 DEF DeleteGarbage, Ended
  <2>2. ~unread /\ at + 1 \in DOMAIN cards
    BY <1>1, <2>1 DEF IInv, TypeOK
  <2>3. BlocksOf(cards[at + 1], at + 1) \subseteq heap
    BY <1>1, <2>1, <2>2, DeleteOne DEF IInv, HeapIsExact
  <2>4. cards[at + 1].faces # <<>>
    BY <2>1, <2>3 DEF Deletable
  <2>5. UndefinedByFaces'
    BY <2>1, <2>2, <2>4 DEF UndefinedByFaces
  <2> QED
    BY <1>1, <2>1, <2>5 DEF IInv, TypeOK, HeapIsExact, CardsFit, AllIsFreed
<1>7. CASE Deleted
  <2>1. /\ pc = "delete" /\ at = Len(cards) /\ pc' = "done" /\ heap' = heap \ {List}
        /\ UNCHANGED <<command, total, data, cards, at, unread>>
    BY <1>7 DEF Deleted
  <2>2. BlocksFrom(at + 1) = {}
    BY <1>1, <2>1 DEF BlocksFrom
  <2>3. AllIsFreed'
    BY <2>1, <2>2 DEF AllIsFreed, IInv, HeapIsExact, ListBlock
  <2> QED
    BY <1>1, <2>1, <2>3 DEF IInv, TypeOK, HeapIsExact, CardsFit, UndefinedByFaces
<1> QED
  BY <1>2, <1>3, <1>4, <1>5, <1>6, <1>7

\* The invariant the other theorems follow from: what is allocated is, at every step
\* of a command, exactly what it still has to free (scryfall.c 67-246, commands.c
\* 24-54).
THEOREM OwnershipInvariant == Spec => []IInv
<1>1. ASSUME Init PROVE IInv
  <2>1. /\ pc = "ask" /\ command \in {"search", "info"} /\ total = 0 /\ data = 0
        /\ cards = <<>> /\ at = 0 /\ unread = FALSE
    BY <1>1 DEF Init
  <2>2. cards \in Seq(Cards) /\ Len(cards) = 0 /\ at \in 0 .. Len(cards)
    BY <2>1
  <2>3. TypeOK
    BY <2>1, <2>2 DEF TypeOK
  <2>4. CardsFit
    BY <2>2, OwnershipAssumption DEF CardsFit
  <2> QED
    BY <2>1, <2>3, <2>4 DEF IInv, HeapIsExact, AllIsFreed, UndefinedByFaces
<1>2. IInv /\ [Next]_vars => IInv'
  <2> SUFFICES ASSUME IInv, [Next]_vars
               PROVE  IInv'
    OBVIOUS
  <2>1. CASE UNCHANGED vars
    BY <2>1 DEF vars, IInv, TypeOK, HeapIsExact, ListBlock, BlocksFrom, BlocksOf,
      CardsFit, AllIsFreed, UndefinedByFaces
  <2> QED
    BY <2>1, ParseKeeps, DeleteKeeps DEF Next, Over
<1> QED
  BY <1>1, <1>2, PTL DEF Spec

\* A command that is done with an answer it could read has freed every block.
THEOREM EverythingFreed == Spec => []AllIsFreed
<1>1. IInv => AllIsFreed
  BY DEF IInv
<1> QED
  BY <1>1, OwnershipInvariant, PTL

\* Only cards with faces can make a deletion undefined.
THEOREM OnlyFacesAreUndefined == Spec => []UndefinedByFaces
<1>1. IInv => UndefinedByFaces
  BY DEF IInv
<1> QED
  BY <1>1, OwnershipInvariant, PTL
=============================================================================

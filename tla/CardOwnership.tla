---------------------------- MODULE CardOwnership ----------------------------
(***************************************************************************)
(* Who frees what of an answer: scryfall_search, scryfall_find and         *)
(* parse_card_json (src/io/scryfall.c) allocate the cards, the commands    *)
(* search and info (src/commands/commands.c) show them and have them       *)
(* deleted.                                                                *)
(*                                                                         *)
(* A block is named by what is in it: <<c, i, f>> is the string f of face  *)
(* i of card c, or of the card itself if i is 0.  Blocks that straight     *)
(* code allocates and frees between two steps are left out: the encoded    *)
(* name and the address (scryfall.c 141-150, 169-178), and the replies     *)
(* with their texts (commands.c 31-35, 46-52).                             *)
(***************************************************************************)
EXTENDS Naturals, Sequences

CONSTANTS
  Strings,   \* the strings of a card: "id", "name", "manacost" and others
  MaxCards,  \* cards a search shows: 10
  MaxFaces,  \* bound: faces of a card
  MaxData    \* bound: cards in an answer

ASSUME OwnershipAssumption ==
  /\ {"id", "name", "manacost"} \subseteq Strings
  /\ Strings \cap {"card", "faces", "list", "json", "response"} = {}
  /\ MaxCards \in Nat \ {0} /\ MaxFaces \in Nat /\ MaxData \in Nat

VARIABLES
  pc,       \* "ask", "parse", "show", "delete", "done", or how the process ended
  command,  \* "search" or "info"
  heap,     \* blocks allocated
  total,    \* total_cards of the answer
  data,     \* how many cards of the answer have not been looked at
  cards,    \* cresponse, or result_buff: the cards parsed
  at,       \* how many of them have been shown, or deleted
  unread    \* history: a search returned early, without its cards

vars == <<pc, command, heap, total, data, cards, at, unread>>

\* A card_t: the strings that are set, whether faces is, and for each face those
\* of the members parse_card_json does not set in which malloc left something.
Cards == [strings : SUBSET Strings, list : {FALSE}, faces : {<<>>}]
  \cup [strings : SUBSET Strings, list : {TRUE},
        faces : UNION {[1 .. n -> SUBSET {"id", "faces"}] : n \in 0 .. MaxFaces}]
NoCard == [strings |-> {}, list |-> FALSE, faces |-> <<>>]

Response == <<0, 0, "response">>
Document == <<0, 0, "json">>
List == <<0, 0, "list">>

Init ==
  /\ pc = "ask" /\ command \in {"search", "info"} /\ heap = {}
  /\ total = 0 /\ data = 0 /\ cards = <<>> /\ at = 0 /\ unread = FALSE

Ended(how) ==
  /\ pc' = how
  /\ UNCHANGED <<command, heap, total, data, cards, at, unread>>

-----------------------------------------------------------------------------

\* scryfall_search has its list before it looks at the answer.
Held == IF command = "search" THEN {Response, List} ELSE {Response}

\* Any status but 200 ends the process with status 2.
Refused == pc = "ask" /\ Ended("exit2")

\* cJSON_Parse cannot read the body.  A search keeps the response for ever.
NotJson ==
  /\ pc = "ask"
  /\ heap' = IF command = "search" THEN {Response} ELSE {}
  /\ cards' = IF command = "search" THEN <<>> ELSE <<NoCard>>
  /\ unread' = (command = "search")
  /\ pc' = "show"
  /\ UNCHANGED <<command, total, data, at>>

\* A search whose answer has no data: the document is kept as well.
NoData ==
  /\ pc = "ask" /\ command = "search"
  /\ heap' = {Response, Document} /\ unread' = TRUE
  /\ pc' = "show"
  /\ UNCHANGED <<command, total, data, cards, at>>

Answered ==
  /\ pc = "ask"
  /\ heap' = Held \cup {Document}
  /\ IF command = "search"
     THEN total' \in 0 .. MaxData /\ data' \in 0 .. MaxData
     ELSE total' = 1 /\ data' = 1
  /\ pc' = "parse"
  /\ UNCHANGED <<command, cards, at, unread>>

\* The blocks of card c.
BlocksOf(card, c) ==
  {<<c, 0, f>> : f \in card.strings}
    \cup (IF card.list THEN {<<c, 0, "faces">>} ELSE {})
    \cup {<<c, i, "card">> : i \in DOMAIN card.faces}
    \cup {<<c, i, f>> : i \in DOMAIN card.faces, f \in card.strings \ {"id"}}

\* parse_card_json.  The strings of a face are read from the card, not from the
\* face.  Where the answer has no card, all members of the card_t are NULL.
Parse ==
  /\ pc = "parse" /\ Len(cards) < total /\ Len(cards) < MaxCards
  /\ \E card \in IF data = 0 THEN {NoCard} ELSE Cards :
       /\ cards' = Append(cards, card)
       /\ heap' = heap \cup BlocksOf(card, Len(cards'))
  /\ data' = IF data = 0 THEN 0 ELSE data - 1
  /\ UNCHANGED <<pc, command, total, at, unread>>

\* Variant: the document is not deleted.
ParsedKeepsDocument ==
  /\ pc = "parse" /\ (Len(cards) = total \/ Len(cards) = MaxCards)
  /\ heap' = heap \ {Response}
  /\ pc' = "show"
  /\ UNCHANGED <<command, total, data, cards, at, unread>>

Parsed ==
  /\ pc = "parse" /\ (Len(cards) = total \/ Len(cards) = MaxCards)
  /\ heap' = heap \ {Response, Document}
  /\ pc' = "show"
  /\ UNCHANGED <<command, total, data, cards, at, unread>>

-----------------------------------------------------------------------------

\* search reads the name and the mana cost of each card; info has a word for
\* what is missing.
Show ==
  /\ pc = "show" /\ at < Len(cards)
  /\ command = "search" => {"name", "manacost"} \subseteq cards[at + 1].strings
  /\ at' = at + 1
  /\ UNCHANGED <<pc, command, heap, total, data, cards, unread>>

ShowCrashes ==
  /\ pc = "show" /\ at < Len(cards) /\ command = "search"
  /\ ~({"name", "manacost"} \subseteq cards[at + 1].strings)
  /\ Ended("sigsegv")

Shown ==
  /\ pc = "show" /\ at = Len(cards)
  /\ at' = 0 /\ pc' = "delete"
  /\ UNCHANGED <<command, heap, total, data, cards, unread>>

Deletable(card, c) ==
  /\ BlocksOf(card, c) \subseteq heap
  /\ \A i \in DOMAIN card.faces : card.faces[i] = {}

\* Variant: the list of faces is not freed.
DeleteKeepsList ==
  /\ pc = "delete" /\ at < Len(cards) /\ Deletable(cards[at + 1], at + 1)
  /\ heap' = heap \ (BlocksOf(cards[at + 1], at + 1) \ {<<at + 1, 0, "faces">>})
  /\ at' = at + 1
  /\ UNCHANGED <<pc, command, total, data, cards, unread>>

\* Variant: the same card again.
DeleteAgain ==
  /\ pc = "delete" /\ at < Len(cards) /\ Deletable(cards[at + 1], at + 1)
  /\ heap' = heap \ BlocksOf(cards[at + 1], at + 1)
  /\ at' \in {at, at + 1}
  /\ UNCHANGED <<pc, command, total, data, cards, unread>>

\* delete_card
Delete ==
  /\ pc = "delete" /\ at < Len(cards) /\ Deletable(cards[at + 1], at + 1)
  /\ heap' = heap \ BlocksOf(cards[at + 1], at + 1)
  /\ at' = at + 1
  /\ UNCHANGED <<pc, command, total, data, cards, unread>>

\* It frees what malloc left in a member that nobody has set, or follows it.
DeleteGarbage ==
  /\ pc = "delete" /\ at < Len(cards) /\ ~Deletable(cards[at + 1], at + 1)
  /\ Ended("undefined")

\* delete_search_result frees the list, if there is one.
Deleted ==
  /\ pc = "delete" /\ at = Len(cards)
  /\ heap' = heap \ {List}
  /\ pc' = "done"
  /\ UNCHANGED <<command, total, data, cards, at, unread>>

Over == pc \in {"done", "exit2", "sigsegv", "undefined"} /\ UNCHANGED vars

Next ==
  \/ Refused \/ NotJson \/ NoData \/ Answered \/ Parse \/ Parsed
  \/ Show \/ ShowCrashes \/ Shown
  \/ Delete \/ DeleteGarbage \/ Deleted \/ Over

Spec == Init /\ [][Next]_vars

-----------------------------------------------------------------------------
(* Properties *)

TypeOK ==
  /\ pc \in {"ask", "parse", "show", "delete", "done", "exit2", "sigsegv", "undefined"}
  /\ command \in {"search", "info"} /\ total \in Nat /\ data \in Nat
  /\ cards \in Seq(Cards) /\ at \in 0 .. Len(cards) /\ unread \in BOOLEAN

\* What is allocated while a command works on an answer it could read: the list of
\* a search, the answer until it is parsed, and the cards that are not deleted.
ListBlock == IF command = "search" THEN {List} ELSE {}
BlocksFrom(first) == UNION {BlocksOf(cards[c], c) : c \in first .. Len(cards)}
HeapIsExact ==
  /\ pc = "parse" => heap = {Response, Document} \cup ListBlock \cup BlocksFrom(1)
  /\ pc = "show" /\ ~unread => heap = ListBlock \cup BlocksFrom(1)
  /\ pc = "delete" /\ ~unread => heap = ListBlock \cup BlocksFrom(at + 1)

\* When a command is done with an answer it could read, every block has been
\* freed: strings, faces, lists, the document and the response
\* (scryfall.c 67-246, commands.c 24-54).
AllIsFreed == pc = "done" /\ ~unread => heap = {}

\* The cards of a search fit the block that is allocated for them, whatever the
\* answer says of their number (scryfall.c 180, 201-208).
CardsFit == Len(cards) <= MaxCards

\* The only undefined outcome comes from cards with faces; without them every
\* block is freed while it is allocated (scryfall.c 223-246).
UndefinedByFaces ==
  pc = "undefined" => \E c \in DOMAIN cards : cards[c].faces # <<>>

\* The inductive invariant of the proofs.
IInv ==
  /\ TypeOK /\ HeapIsExact /\ CardsFit /\ AllIsFreed /\ UndefinedByFaces
  /\ pc \in {"ask", "parse"} => at = 0
  /\ pc = "ask" => cards = <<>>
  /\ pc \in {"ask", "parse"} => ~unread
  /\ unread => cards = <<>>
=============================================================================

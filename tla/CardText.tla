------------------------------ MODULE CardText ------------------------------
(***************************************************************************)
(* The text a command writes of a card: parse_card_json copies each string *)
(* of the answer with strreplace (src/utils/strings.c), which makes every  *)
(* line feed a carriage return and a line feed, and then display_card      *)
(* (src/io/scryfall.c) or command_search_card (src/commands/commands.c)    *)
(* computes the length of the text and writes it.                          *)
(*                                                                         *)
(* strcount counts in a variable nobody has set: stray is what it held.    *)
(* The length computed from it is a size_t, and wraps around.              *)
(***************************************************************************)
EXTENDS Naturals, Sequences, SequencesExt, FiniteSets

CONSTANTS
  Bytes,    \* the bytes a text may hold, such as "lf"
  Values,   \* the strings of an answer
  Sizes,    \* how many values a size_t has: 2^64
  Strays,   \* what the counter may have held
  MaxCards  \* cards a search shows: 10

ASSUME TextAssumption ==
  /\ {"cr", "lf", "tab", " ", ":", "/", "(", ")", "digit", "0", "N", "O", "E"} \subseteq Bytes
  /\ Values \subseteq Seq(Bytes) /\ MaxCards \in 1 .. 10
  /\ Sizes \in Nat \ {0} /\ Strays \subseteq 0 .. Sizes - 1
  /\ \A v \in Values : 2 * Len(v) + 1 < Sizes

VARIABLES
  pc,       \* "string", "copy", "done", or how the process ended; "undefined"
            \* if a string or what lies beside its block is no longer what it was
  command,  \* "search" or "info"
  next,     \* which string of the card comes next
  texts,    \* the members of the card_t that are set
  value,    \* s, the string being copied
  stray,
  block,    \* ncount
  at,       \* soffset
  written,  \* ni
  copy,     \* the result up to its NUL
  room,     \* the bytes allocated for the text
  shown     \* the text

vars == <<pc, command, next, texts, value, stray, block, at, written, copy, room, shown>>

Members == <<"id", "name", "manacost", "type", "text", "power", "toughness", "loyalty">>
CrLf == <<"cr", "lf">>

Init ==
  /\ pc = "string" /\ command \in {"search", "info"} /\ next = 1 /\ texts = <<>>
  /\ value = <<>> /\ stray = 0 /\ block = 0 /\ at = 0 /\ written = 0 /\ copy = <<>>
  /\ room = 0 /\ shown = <<>>

-----------------------------------------------------------------------------
(* parse_json_for_string, for one member after the other                      *)

\* The answer has no such string: the member is NULL.
Missing ==
  /\ pc = "string" /\ next <= Len(Members)
  /\ next' = next + 1
  /\ UNCHANGED <<pc, command, texts, value, stray, block, at, written, copy, room, shown>>

\* The line feeds behind the first n symbols of a string.
BreaksBehind(v, n) == {i \in n + 1 .. Len(v) : v[i] = "lf"}

\* Variant: a counted byte is replaced by as many more as the substitute has.
BlockOfWhole(v, g) ==
  (Len(v) + (g + Cardinality(BreaksBehind(v, 0))) * Len(CrLf) + 1) % Sizes

\* strcount, and the bytes strreplace allocates by it.
BlockOf(v, g) ==
  (Len(v) + (g + Cardinality(BreaksBehind(v, 0))) * (Len(CrLf) - 1) + 1) % Sizes

Replace ==
  /\ pc = "string" /\ next <= Len(Members)
  /\ value' \in Values /\ stray' \in Strays
  /\ block' = BlockOf(value', stray')
  /\ at' = 0 /\ written' = 0 /\ copy' = <<>>
  /\ pc' = "copy"
  /\ UNCHANGED <<command, next, texts, room, shown>>

\* handle_memory_error, here and where the text is allocated.
OutOfMemory ==
  /\ pc = "string"
  /\ pc' = "exit1"
  /\ UNCHANGED <<command, next, texts, value, stray, block, at, written, copy, room, shown>>

Copying == pc = "copy" /\ written < block

Put(bytes) ==
  /\ copy' = copy \o bytes /\ written' = written + Len(bytes)
  /\ at' = at + 1
  /\ UNCHANGED <<pc, command, next, texts, value, stray, block, room, shown>>

\* Variant: the byte behind a line feed is copied in the same turn.
PutBreakAndNext ==
  /\ Copying /\ at < Len(value) /\ value[at + 1] = "lf"
  /\ LET bytes == CrLf \o <<IF at + 2 <= Len(value) THEN value[at + 2] ELSE "nul">>
     IN  copy' = copy \o bytes /\ written' = written + Len(bytes)
  /\ at' = at + 2
  /\ UNCHANGED <<pc, command, next, texts, value, stray, block, room, shown>>

PutBreak == Copying /\ at < Len(value) /\ value[at + 1] = "lf" /\ Put(CrLf)
PutByte ==
  Copying /\ at < Len(value) /\ value[at + 1] # "lf" /\ Put(<<value[at + 1]>>)

\* The NUL, and if there is room left, what lies behind it.
PutNul ==
  /\ Copying /\ at >= Len(value)
  /\ at' = at + 1
  /\ written' \in {written + n : n \in IF at = Len(value) THEN {1} ELSE {1, Len(CrLf)}}
  /\ UNCHANGED <<pc, command, next, texts, value, stray, block, copy, room, shown>>

\* What lies behind the string is not the process's to read.
OverreadFaults ==
  /\ Copying /\ at > Len(value)
  /\ pc' = "sigsegv"
  /\ value' = <<>> /\ at' = 0 /\ copy' = <<>> /\ written' = 0 /\ block' = 0
  /\ UNCHANGED <<command, next, texts, stray, room, shown>>

\* The block is full, and the copy is returned.  It is no string that can be read if
\* more was written than the block holds (a block of no bytes is written to by its
\* NUL), or if the loop ended in front of the NUL.
Copied ==
  /\ pc = "copy" /\ written >= block
  /\ IF written = block /\ at > Len(value)
     THEN /\ texts' = [m \in DOMAIN texts \cup {Members[next]} |->
                         IF m = Members[next] THEN copy ELSE texts[m]]
          /\ next' = next + 1 /\ pc' = "string"
     ELSE pc' = "undefined" /\ UNCHANGED <<texts, next>>
  /\ value' = <<>> /\ at' = 0 /\ copy' = <<>> /\ written' = 0 /\ block' = 0
  /\ UNCHANGED <<command, stray, room, shown>>

-----------------------------------------------------------------------------
(* The text                                                                   *)

Has(m) == m \in DOMAIN texts
Or(m, default) == IF Has(m) THEN texts[m] ELSE default
None == <<"N", "O", "N", "E">>
Name == Or("name", None)
Cost == Or("manacost", <<"0">>)
Type == Or("type", None)
Text(m) == Or(m, <<>>)

\* Variant: the longer template is counted only if there is no loyalty.
RoomForLoyalty ==
  6 + Len(Name) + Len(Cost) + Len(Type)
    + Len(Text("text")) + Len(Text("power")) + Len(Text("toughness"))
    + (IF Has("loyalty") THEN 4 ELSE IF Has("power") /\ Has("toughness") THEN 5 ELSE 0)

\* tlen
Room ==
  6 + Len(Name) + Len(Cost) + Len(Type) + Len(Text("text")) + Len(Text("power"))
    + Len(Text("toughness")) + Len(Text("loyalty"))
    + (IF Has("power") /\ Has("toughness") THEN 5 ELSE IF Has("loyalty") THEN 4 ELSE 0)

\* The template the members call for, filled in.
Filled ==
  Name \o <<"tab">> \o Cost \o CrLf \o Type \o CrLf \o Text("text")
    \o (IF Has("power") /\ Has("toughness")
        THEN CrLf \o <<"(">> \o Text("power") \o <<"/">> \o Text("toughness") \o <<")">>
        ELSE IF Has("loyalty") THEN CrLf \o <<"(">> \o Text("loyalty") \o <<")">>
        ELSE <<>>)

AllParsed == pc = "string" /\ next > Len(Members)

DisplayCard ==
  /\ AllParsed /\ command = "info"
  /\ room' = Room /\ shown' = Filled
  /\ pc' = "done"
  /\ UNCHANGED <<command, next, texts, value, stray, block, at, written, copy>>

\* "%ld: %s %s\r\n" of the card's position, below MaxCards, its name and its cost.
Position(i) == IF i < 10 THEN <<"digit">> ELSE <<"digit", "digit">>

SearchLine ==
  /\ AllParsed /\ command = "search" /\ Has("name") /\ Has("manacost")
  /\ room' = 7 + Len(Name) + Len(Cost)
  /\ \E i \in 0 .. MaxCards - 1 :
       shown' = Position(i) \o <<":", " ">> \o Name \o <<" ">> \o Cost \o CrLf
  /\ pc' = "done"
  /\ UNCHANGED <<command, next, texts, value, stray, block, at, written, copy>>

\* strlen of a NULL.
SearchCrashes ==
  /\ AllParsed /\ command = "search" /\ ~(Has("name") /\ Has("manacost"))
  /\ pc' = "sigsegv"
  /\ UNCHANGED <<command, next, texts, value, stray, block, at, written, copy, room, shown>>

Over == pc \in {"done", "undefined", "sigsegv", "exit1"} /\ UNCHANGED vars

Next ==
  \/ Missing \/ Replace \/ PutBreak \/ PutByte \/ PutNul \/ OverreadFaults \/ Copied
  \/ DisplayCard \/ SearchLine \/ SearchCrashes \/ OutOfMemory \/ Over

Spec == Init /\ [][Next]_vars

-----------------------------------------------------------------------------
(* Properties *)

TypeOK ==
  /\ pc \in {"string", "copy", "done", "undefined", "sigsegv", "exit1"}
  /\ command \in {"search", "info"} /\ next \in 1 .. Len(Members) + 1
  /\ DOMAIN texts \subseteq {Members[i] : i \in 1 .. next - 1}
  /\ \A m \in DOMAIN texts : texts[m] \in Seq(Bytes)
  /\ value \in Values \cup {<<>>} /\ stray \in Strays \cup {0}
  /\ {block, at, written, room} \subseteq Nat
  /\ copy \in Seq(Bytes) /\ shown \in Seq(Bytes)

\* What strings.h promises of strreplace: every line feed replaced, nothing else.
Replaced(v) == FlattenSeq([i \in DOMAIN v |-> IF v[i] = "lf" THEN CrLf ELSE <<v[i]>>])

\* The length of the block, computed in a size_t, is less than what was added up.
Wraps ==
  Len(value) + stray + Cardinality(BreaksBehind(value, 0)) + 1 >= Sizes
Lost == IF Wraps THEN Sizes ELSE 0

\* A copy that has its NUL is the string asked for, whatever the counter held: what is
\* written too much lies behind the NUL.  And it comes to have one unless the counter
\* was so near to SIZE_MAX that the length of the block wraps around: then the block is
\* always too short for it (strings.c 9-51).
CopyIsReplaced ==
  /\ pc = "copy" /\ at > Len(value) => copy = Replaced(value)
  /\ pc = "copy" /\ written >= block => (at > Len(value) <=> ~Wraps)

\* If the counter held zero, strreplace neither reads behind the string nor writes
\* behind its block (strings.c 22-51).
CopyInBounds ==
  /\ stray = 0 => at <= Len(value) + 1 /\ written <= block
  /\ pc = "undefined" => stray # 0

\* The text fits what was allocated for it, its NUL included, whichever members are
\* missing (scryfall.c 248-333, commands.c 29-33).
TextFits == pc = "done" => Len(shown) < room

\* What the copy still has to write is what is left of its block, if the counter held
\* zero; the invariant of the proofs.
CopyIsMeasured ==
  /\ pc = "copy" /\ stray = 0 =>
       \/ at = Len(value) + 1 /\ written = block
       \/ /\ at \in 0 .. Len(value)
          /\ block = written + (Len(value) - at) + Cardinality(BreaksBehind(value, at)) + 1
  /\ pc = "copy" => next <= Len(Members)
  /\ pc # "copy" => at = 0 /\ value = <<>> /\ written = 0 /\ block = 0
IInv == TypeOK /\ CopyIsMeasured /\ CopyInBounds /\ TextFits

\* Whatever the counter held, what is written is the front of the copy asked for, and
\* until the NUL is written there is room for its rest, or would be in a block whose
\* length had not wrapped around.
CopyIsFaithful ==
  pc = "copy" =>
    \/ at > Len(value) /\ copy = Replaced(value) /\ ~Wraps
    \/ /\ at <= Len(value) /\ copy = Replaced(SubSeq(value, 1, at))
       /\ block + Lost = written + (Len(value) - at) + Cardinality(BreaksBehind(value, at))
                          + stray + 1
=============================================================================

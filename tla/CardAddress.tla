----------------------------- MODULE CardAddress -----------------------------
(***************************************************************************)
(* The address a command asks the web service for: scryfall_find and       *)
(* scryfall_search (src/io/scryfall.c) encode the argument a peer typed    *)
(* (src/utils/urlencode.c), print it behind the host and a path, and       *)
(* http_get takes the path out of the address again (parse_url in          *)
(* src/io/https_client/https.c).                                           *)
(*                                                                         *)
(* Of the address only the encoded argument is spelled out; the host and   *)
(* the path in front of it are lengths.                                    *)
(***************************************************************************)
EXTENDS Integers, Sequences, SequencesExt, Subsequence

CONSTANTS
  Typed,      \* the bytes a peer may type
  Safe,       \* those html5 leaves alone: letters, digits and "*-._"
  Hex,        \* of any other byte but the space: its two digits
  Arguments,  \* what peers type behind a command
  HostLen,    \* strlen(MTG_SDK_HOST)
  MaxPath     \* what parse_url keeps of a path: 255

\* strlen of "/cards/search?q=" and of "/cards/named?exact=".
PathLen == [search |-> 16, info |-> 19]

Escaped == Typed \ (Safe \cup {" "})

ASSUME AddressAssumption ==
  /\ Safe \subseteq Typed /\ Safe \cap {" ", "+", "%", "nul"} = {}
  /\ Hex \in [Escaped -> Safe \X Safe]
  /\ \A b, c \in Escaped : Hex[b] = Hex[c] => b = c
  /\ Arguments \subseteq Seq(Typed)
  /\ HostLen \in Nat /\ MaxPath \in Nat /\ MaxPath >= 19

VARIABLES
  stage,    \* "call", "encode", "print", "ask", "asked", "answered", "undefined"
  verb,     \* the command: "search" or "info"
  typed,    \* its argument
  read,     \* how many bytes of it are encoded
  encoded,  \* the block of calloc: symbols and "nul"
  enc,      \* where url_encode writes next
  url,      \* the encoded argument in the address
  asked     \* what is left of it in the request

addressVars == <<stage, verb, typed, read, encoded, enc, url, asked>>

AddressInit ==
  /\ stage = "call" /\ verb \in {"search", "info"} /\ typed = <<>> /\ read = 0
  /\ encoded = <<>> /\ enc = 1 /\ url = <<>> /\ asked = <<>>

-----------------------------------------------------------------------------
\* calloc clears the block; three symbols for each byte, and the NUL.
Call ==
  /\ stage = "call"
  /\ typed' \in Arguments
  /\ encoded' = [i \in 1 .. 3 * Len(typed') + 1 |-> "nul"]
  /\ stage' = "encode" /\ read' = 0 /\ enc' = 1
  /\ UNCHANGED <<verb, url, asked>>

\* The first NUL of a block from i on, which ends its string.
EndFrom(block, i) == Min({j \in i .. Len(block) : block[j] = "nul"})
StringIn(block) == SubSeq(block, 1, EndFrom(block, 1) - 1)

\* Symbols are written, with the NUL of sprintf if there are three, and enc moves on
\* to the next NUL: the one of sprintf, or one of calloc's.
EncodeAs(symbols) ==
  /\ IF enc + Len(symbols) <= Len(encoded)
     THEN /\ encoded' = [i \in DOMAIN encoded |->
                           IF i \in enc .. enc + Len(symbols) - 1
                           THEN symbols[i - enc + 1] ELSE encoded[i]]
          /\ enc' = EndFrom(encoded', enc + 1)
          /\ read' = read + 1 /\ stage' = stage
     ELSE stage' = "undefined" /\ UNCHANGED <<encoded, enc, read>>
  /\ UNCHANGED <<verb, typed, url, asked>>

Encoding == stage = "encode" /\ read < Len(typed)
Byte == typed[read + 1]

EncodePlain == Encoding /\ Byte \in Safe /\ EncodeAs(<<Byte>>)

EncodeSpace == Encoding /\ Byte = " " /\ EncodeAs(<<"+">>)

\* Variant: a plus is taken for a byte that needs no escape.
EscapeNotPlus ==
  /\ Encoding /\ Byte \in Escaped
  /\ EncodeAs(IF Byte = "+" THEN <<"+">> ELSE <<"%", Hex[Byte][1], Hex[Byte][2]>>)

Escape ==
  Encoding /\ Byte \in Escaped /\ EncodeAs(<<"%", Hex[Byte][1], Hex[Byte][2]>>)

EncodingEnds ==
  /\ stage = "encode" /\ read = Len(typed)
  /\ stage' = "print"
  /\ UNCHANGED <<verb, typed, read, encoded, enc, url, asked>>

\* sprintf of the address, its NUL included.
Needed == HostLen + PathLen[verb] + Len(StringIn(encoded)) + 1

\* Variant: the NUL is forgotten.
AllocatedWithoutNul == HostLen + Len(StringIn(encoded)) + 19

\* The block it is written to.
Allocated == HostLen + Len(StringIn(encoded)) + 20

PrintUrl ==
  /\ stage = "print"
  /\ IF Needed <= Allocated THEN stage' = "ask" /\ url' = StringIn(encoded)
     ELSE stage' = "undefined" /\ UNCHANGED url
  /\ UNCHANGED <<verb, typed, read, encoded, enc, asked>>

\* parse_url: the path, cut to MaxPath.
ParseUrl ==
  /\ stage = "ask"
  /\ asked' = SubSeq(url, 1, Min({Len(url), MaxPath - PathLen[verb]}))
  /\ stage' = "asked"
  /\ UNCHANGED <<verb, typed, read, encoded, enc, url>>

\* Both blocks are freed when the answer has come.
Answer ==
  /\ stage = "asked" /\ stage' = "answered"
  /\ typed' = <<>> /\ read' = 0 /\ encoded' = <<>> /\ enc' = 1
  /\ url' = <<>> /\ asked' = <<>>
  /\ UNCHANGED verb

AddressOver == stage \in {"answered", "undefined"} /\ UNCHANGED addressVars

AddressNext ==
  \/ Call \/ EncodePlain \/ EncodeSpace \/ Escape \/ EncodingEnds
  \/ PrintUrl \/ ParseUrl \/ Answer \/ AddressOver

AddressSpec == AddressInit /\ [][AddressNext]_addressVars

-----------------------------------------------------------------------------
(* Properties *)

\* Neither the encoding nor the address is written behind its block, for the
\* command with the longer path and for arguments that are escaped throughout
\* (urlencode.c 18-28, scryfall.c 141-147 and 169-175).
AddressInBounds == stage # "undefined"

\* How many digits of an escape are to come behind a symbol of an encoded argument.
Owed(e) ==
  LET owed[i \in 0 .. Len(e)] ==
        IF i = 0 THEN 0
        ELSE IF owed[i - 1] > 0 THEN owed[i - 1] - 1
        ELSE IF e[i] = "%" THEN 2 ELSE 0
  IN  owed

\* What a web service makes of an encoded argument.
Decoded(e) ==
  LET owed == Owed(e)
      meant(i) ==
        IF owed[i - 1] = 1 THEN CHOOSE b \in Escaped : Hex[b] = <<e[i - 1], e[i]>>
        ELSE IF e[i] = "+" THEN " " ELSE e[i]
  IN  Picked([i \in DOMAIN e |-> meant(i)], {i \in DOMAIN e : owed[i] = 0})

\* The service is asked for what the peer typed, whatever is in it, if the path is
\* no longer than parse_url keeps; and else for the beginning of it only
\* (urlencode.c 7-28, https.c 83-106).
AsksForTheArgument ==
  stage = "asked" =>
    /\ PathLen[verb] + Len(StringIn(encoded)) <= MaxPath => Decoded(asked) = typed
    /\ IsPrefix(asked, StringIn(encoded))

-----------------------------------------------------------------------------
(* The invariant of the proofs                                               *)

Blank(i) == \A j \in i .. Len(encoded) : encoded[j] = "nul"
AddressIInv ==
  /\ stage \in {"call", "encode", "print", "ask", "asked", "answered"}
  /\ verb \in {"search", "info"} /\ typed \in Seq(Typed)
  /\ stage = "encode" =>
       /\ read \in 0 .. Len(typed) /\ enc \in 1 .. 3 * read + 1
       /\ encoded \in Seq(Safe \cup {"+", "%", "nul"})
       /\ Len(encoded) = 3 * Len(typed) + 1
       /\ Blank(enc)
  /\ stage = "print" =>
       /\ encoded \in Seq(Safe \cup {"+", "%", "nul"})
       /\ \E j \in 1 .. Len(encoded) : encoded[j] = "nul"

\* What has been encoded says what has been read of the argument, and the string the
\* block ends up with says all of it.
AddressIsFaithful ==
  LET done == SubSeq(encoded, 1, enc - 1)
  IN  /\ stage = "encode" =>
           /\ \A j \in 1 .. enc - 1 : encoded[j] # "nul"
           /\ Owed(done)[Len(done)] = 0
           /\ Decoded(done) = SubSeq(typed, 1, read)
      /\ stage \in {"print", "ask", "asked"} => Decoded(StringIn(encoded)) = typed
      /\ stage \in {"ask", "asked"} =>
           url = StringIn(encoded) /\ url \in Seq(Safe \cup {"+", "%", "nul"})
      /\ stage = "asked" => asked = SubSeq(url, 1, Min({Len(url), MaxPath - PathLen[verb]}))
=============================================================================

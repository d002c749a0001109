---------------------------- MODULE StartUpProofs ----------------------------
(***************************************************************************)
(* That a start which reaches the server has set up everything the server  *)
(* uses, wherever earlier starts were broken off, and that what it prints  *)
(* of the seed player is a row of the table; and that a dictionary, such   *)
(* as the start makes for the command handlers, is the map its users take  *)
(* it for.                                                                 *)
(***************************************************************************)
EXTENDS StartUp, Dict, InductionLemmas

\* The statements of create_tables.
LEMMA CreateTableKeeps ==
  ASSUME IInv, CreateTable
  PROVE  IInv'
<1>1. pc = "tables" /\ next \in 1 .. Len(Tables) /\ Len(Tables) \in Nat
  BY StartAssumption DEF CreateTable, IInv, TypeOK, StepsInOrder
<1>2. next' = next + 1 /\ next' \in 1 .. Len(Tables) + 1
  BY <1>1 DEF CreateTable
<1>3. /\ tables' = tables \cup {Tables[next]} /\ open' = FALSE
      /\ pc' = (IF next = Len(Tables) THEN "encoder" ELSE "tables")
      /\ UNCHANGED <<encoder, mapped, handlers, responses, printed, player,
                     faults, edits, changed>>
  BY DEF CreateTable, history
<1>4. TypeOK'
  <2>1. next \in DOMAIN Tables
    BY <1>1, StartAssumption
  <2>2. tables' \subseteq {Tables[i] : i \in DOMAIN Tables}
    BY <1>3, <2>1, Zenon DEF IInv, TypeOK
  <2> QED
    BY <1>2, <1>3, <2>2 DEF IInv, TypeOK
<1>5. TablesInOrder'
  <2>1. \A i \in 1 .. next - 1 : Tables[i] \in tables
    BY <1>1 DEF IInv, TablesInOrder
  <2>2. 1 .. next' - 1 = (1 .. next - 1) \cup {next}
    BY <1>1, <1>2
  <2>3. \A i \in 1 .. next' - 1 : Tables[i] \in tables'
    <3> SUFFICES ASSUME NEW i \in 1 .. next' - 1
                 PROVE  Tables[i] \in tables'
      OBVIOUS
    <3>1. i \in 1 .. next - 1 \/ i = next
      BY <2>2
    <3> QED
      BY <1>3, <2>1, <3>1, Zenon
  <2> QED
    BY <2>3 DEF TablesInOrder
<1>6. StepsInOrder'
  <2>1. CASE next = Len(Tables)
    BY <1>2, <1>3, <2>1 DEF StepsInOrder
  <2>2. CASE next # Len(Tables)
    <3>1. next' <= Len(Tables)
      BY <1>1, <1>2, <2>2
    <3>2. pc' = "tables"
      BY <1>3, <2>2
    <3> QED
      BY <3>1, <3>2 DEF StepsInOrder
  <2> QED
    BY <2>1, <2>2
<1>7. ResponsesAreOfTheQuery' /\ ServedWhenSetUp' /\ PrintedIsWhole'
  BY <1>1, <1>3 DEF IInv, ResponsesAreOfTheQuery, ServedWhenSetUp, PrintedIsWhole
<1> QED
  BY <1>4, <1>5, <1>6, <1>7 DEF IInv

\* The calls that fill tables in memory, and the opening of the database.
LEMMA SetUpKeeps ==
  ASSUME IInv, Open \/ InitEncoder \/ SetupHandlerMap \/ SetupCommands \/ AskExists
  PROVE  IInv'
<1>1. UNCHANGED <<next, printed, tables, player, faults, edits, changed>>
  BY DEF Open, InitEncoder, SetupHandlerMap, SetupCommands, AskExists, volatile,
         database, history
<1>2. CASE Open
  BY <1>1, <1>2 DEF Open, AtStatement, volatile, IInv, TypeOK, TablesInOrder,
     StepsInOrder, ResponsesAreOfTheQuery, ServedWhenSetUp, SetUp, PrintedIsWhole
<1>3. CASE InitEncoder
  BY <1>1, <1>3 DEF InitEncoder, IInv, TypeOK, TablesInOrder, StepsInOrder,
     ResponsesAreOfTheQuery, ServedWhenSetUp, PrintedIsWhole
<1>4. CASE SetupHandlerMap
  BY <1>1, <1>4 DEF SetupHandlerMap, IInv, TypeOK, TablesInOrder, StepsInOrder,
     ResponsesAreOfTheQuery, ServedWhenSetUp, PrintedIsWhole
<1>5. CASE SetupCommands
  BY <1>1, <1>5 DEF SetupCommands, IInv, TypeOK, TablesInOrder, StepsInOrder,
     ResponsesAreOfTheQuery, ServedWhenSetUp, PrintedIsWhole
<1>6. CASE AskExists
  BY <1>1, <1>6 DEF AskExists, IInv, TypeOK, TablesInOrder, StepsInOrder,
     ResponsesAreOfTheQuery, ServedWhenSetUp, PrintedIsWhole
<1> QED
  BY <1>2, <1>3, <1>4, <1>5, <1>6

\* The list of the rows, when the callback has appended its first.
LEMMA OneRow ==
  ASSUME NEW S, NEW row \in S
  PROVE  Append(<<>>, row) = <<row>> /\ <<row>> \in Seq(S)
  OBVIOUS

\* The outcomes of the callback.
LEMMA CallbackReturns ==
  ASSUME IInv, NEW row \in Rows \cup {PidOnly}, NEW answered,
         Callback(row, answered), responses = <<>>
  PROVE  /\ responses' = <<row>> /\ responses' \in Seq(Rows \cup {PidOnly})
         /\ open' \in BOOLEAN /\ faults' \in 0 .. MaxFaults
         /\ pc' \in {answered, "ended"}
<1>1. responses' = <<row>> /\ responses' \in Seq(Rows \cup {PidOnly})
  BY OneRow DEF Callback
<1>2. CASE pc' = answered /\ open' = FALSE /\ faults' = faults
  BY <1>1, <1>2 DEF IInv, TypeOK
<1>3. CASE Fault
  <2>1. faults' \in 0 .. MaxFaults
    BY <1>3, StartAssumption DEF Fault, IInv, TypeOK
  <2> QED
    BY <1>1, <1>3, <2>1 DEF Fault
<1> QED
  BY <1>2, <1>3 DEF Callback

\* The queries for the seed player, and what main makes of their rows.
LEMMA QueriesKeep ==
  ASSUME IInv, SelectPid \/ Missing \/ Exists \/ SelectAll \/ PrintPlayer
  PROVE  IInv'
<1>1. /\ UNCHANGED <<next, encoder, mapped, handlers, tables, player, edits>>
      /\ pc \in {"exists", "asked", "retrieve", "print"}
  BY DEF SelectPid, Missing, Exists, SelectAll, PrintPlayer, volatile, database, history
<1>2. /\ next = Len(Tables) + 1 /\ encoder /\ handlers = Commands
      /\ printed = NoRow /\ TablesInOrder /\ Len(Tables) \in Nat
      /\ DOMAIN Tables = 1 .. Len(Tables)
  BY <1>1, StartAssumption DEF IInv, StepsInOrder, ResponsesAreOfTheQuery
<1>3. SetUp' /\ TablesInOrder' /\ StepsInOrder'
  <2>1. \A i \in 1 .. Len(Tables) : Tables[i] \in tables
    BY <1>1, <1>2 DEF TablesInOrder
  <2>2. pc' # "tables" /\ Tables' = Tables
    BY DEF SelectPid, Missing, Exists, SelectAll, PrintPlayer, Callback, Fault
  <2>3. SetUp'
    BY <1>1, <1>2, <2>1 DEF SetUp
  <2>4. TablesInOrder'
    BY <1>1, <1>2, <2>1 DEF TablesInOrder
  <2>5. StepsInOrder'
    BY <1>1, <1>2, <2>2 DEF StepsInOrder
  <2> QED
    BY <2>3, <2>4, <2>5
<1>4. ServedWhenSetUp'
  BY <1>3 DEF ServedWhenSetUp
<1>5. CASE SelectPid
  <2>1. /\ pc = "exists" /\ changed' = FALSE /\ printed' = printed
        /\ responses = <<>>
    BY <1>5 DEF SelectPid, IInv, ResponsesAreOfTheQuery
  <2>2. CASE player # NoRow
    <3>1. /\ responses' = <<PidOnly>> /\ responses' \in Seq(Rows \cup {PidOnly})
          /\ open' \in BOOLEAN /\ faults' \in 0 .. MaxFaults
          /\ pc' \in {"asked", "ended"}
      BY <1>5, <2>1, <2>2, CallbackReturns DEF SelectPid
    <3>2. TypeOK'
      BY <1>1, <2>1, <3>1 DEF IInv, TypeOK
    <3>3. ResponsesAreOfTheQuery' /\ PrintedIsWhole'
      BY <1>1, <1>2, <2>1, <2>2, <3>1 DEF ResponsesAreOfTheQuery, PrintedIsWhole
    <3> QED
      BY <1>3, <1>4, <3>2, <3>3 DEF IInv
  <2>3. CASE player = NoRow
    <3>1. /\ responses' = <<>> /\ pc' = "asked" /\ open' = FALSE /\ faults' = faults
      BY <1>5, <2>1, <2>3 DEF SelectPid
    <3> QED
      BY <1>1, <1>2, <1>3, <1>4, <2>1, <3>1
         DEF IInv, TypeOK, ResponsesAreOfTheQuery, PrintedIsWhole
  <2> QED
    BY <2>2, <2>3
<1>6. CASE Missing
  BY <1>1, <1>2, <1>3, <1>4, <1>6 DEF Missing, volatile, history, IInv, TypeOK,
     ResponsesAreOfTheQuery, PrintedIsWhole
<1>7. CASE Exists
  BY <1>1, <1>2, <1>3, <1>4, <1>7 DEF Exists, history, IInv, TypeOK,
     ResponsesAreOfTheQuery, PrintedIsWhole
<1>8. CASE SelectAll
  <2>1. /\ pc = "retrieve" /\ changed' = changed /\ printed' = printed
        /\ responses = <<>> /\ (changed \/ player # NoRow)
    BY <1>8 DEF SelectAll, IInv, ResponsesAreOfTheQuery
  <2>2. CASE player # NoRow
    <3>1. player \in Rows
      BY <2>2 DEF IInv, TypeOK
    <3>2. /\ responses' = <<player>> /\ responses' \in Seq(Rows \cup {PidOnly})
          /\ open' \in BOOLEAN /\ faults' \in 0 .. MaxFaults
          /\ pc' \in {"print", "ended"}
      BY <1>8, <2>1, <2>2, <3>1, CallbackReturns DEF SelectAll
    <3>3. TypeOK'
      BY <1>1, <2>1, <3>2 DEF IInv, TypeOK
    <3>4. responses' = <<player'>> /\ (\A i \in DOMAIN responses' : responses'[i] \in Rows)
      BY <1>1, <3>1, <3>2
    <3>5. ResponsesAreOfTheQuery' /\ PrintedIsWhole'
      BY <1>2, <2>1, <3>2, <3>4 DEF ResponsesAreOfTheQuery, PrintedIsWhole
    <3> QED
      BY <1>3, <1>4, <3>3, <3>5 DEF IInv
  <2>3. CASE player = NoRow
    <3>1. responses' = <<>> /\ pc' = "print" /\ open' = FALSE /\ faults' = faults
      BY <1>8, <2>1, <2>3 DEF SelectAll
    <3>2. TypeOK'
      BY <1>1, <2>1, <3>1 DEF IInv, TypeOK
    <3>3. ResponsesAreOfTheQuery' /\ PrintedIsWhole'
      BY <1>2, <2>1, <2>3, <3>1 DEF ResponsesAreOfTheQuery, PrintedIsWhole
    <3> QED
      BY <1>3, <1>4, <3>2, <3>3 DEF IInv
  <2> QED
    BY <2>2, <2>3
<1>9. CASE PrintPlayer
  <2>1. /\ pc = "print" /\ pc' = "serve"
        /\ UNCHANGED <<open, responses, faults, changed>>
        /\ printed' = IF responses = <<>> THEN NotFound ELSE responses[1]
    BY <1>9 DEF PrintPlayer, history
  <2>2. /\ responses \in Seq(Rows \cup {PidOnly})
        /\ \A i \in DOMAIN responses : responses[i] \in Rows
        /\ ~changed => responses = <<player>>
    BY <2>1 DEF IInv, TypeOK, ResponsesAreOfTheQuery
  <2>3. responses # <<>> => 1 \in DOMAIN responses
    BY <2>2
  <2>4. printed' \in Rows \cup {NotFound} /\ (~changed => printed' = player)
    BY <2>1, <2>2, <2>3
  <2> QED
    BY <1>1, <1>3, <1>4, <2>1, <2>4
       DEF IInv, TypeOK, ResponsesAreOfTheQuery, PrintedIsWhole
<1> QED
  BY <1>5, <1>6, <1>7, <1>8, <1>9

\* Ends of the process, new starts, and changes of the row from outside.
LEMMA WorldKeeps ==
  ASSUME IInv, DatabaseFails \/ Crash \/ Restart \/ EditPlayer
  PROVE  IInv'
<1>1. CASE DatabaseFails \/ Crash
  <2>1. /\ pc' = "ended" /\ open' = FALSE /\ faults' \in 0 .. MaxFaults
        /\ UNCHANGED <<next, encoder, mapped, handlers, responses, printed,
                       tables, player, edits, changed>>
    BY <1>1, StartAssumption
       DEF DatabaseFails, Crash, Fault, volatile, database, IInv, TypeOK
  <2> QED
    BY <2>1 DEF IInv, TypeOK, TablesInOrder, StepsInOrder, ResponsesAreOfTheQuery,
       ServedWhenSetUp, PrintedIsWhole
<1>2. CASE Restart
  <2>1. /\ pc' = "tables" /\ next' = 1 /\ encoder' = FALSE /\ mapped' = FALSE
        /\ handlers' = {} /\ responses' = <<>> /\ printed' = NoRow
        /\ UNCHANGED <<open, tables, player, faults, edits, changed>>
    BY <1>2 DEF Restart, database, history
  <2>2. 1 \in 1 .. Len(Tables) + 1 /\ 1 <= Len(Tables) /\ 1 .. 1 - 1 = {}
    BY StartAssumption
  <2>3. TypeOK'
    <3>1. next' \in 1 .. Len(Tables) + 1 /\ responses' \in Seq(Rows \cup {PidOnly})
          /\ handlers' \subseteq Commands /\ pc' = "tables"
      BY <2>1, <2>2
    <3> QED
      BY <2>1, <3>1 DEF IInv, TypeOK
  <2>4. TablesInOrder' /\ StepsInOrder'
    BY <2>1, <2>2 DEF TablesInOrder, StepsInOrder
  <2>5. ResponsesAreOfTheQuery' /\ ServedWhenSetUp' /\ PrintedIsWhole'
    BY <2>1 DEF ResponsesAreOfTheQuery, ServedWhenSetUp, PrintedIsWhole
  <2> QED
    BY <2>3, <2>4, <2>5 DEF IInv
<1>3. CASE EditPlayer
  <2>1. /\ player' \in Rows \cup {NoRow} /\ edits' \in 0 .. MaxEdits
        /\ changed' = TRUE
        /\ UNCHANGED <<pc, open, next, encoder, mapped, handlers, responses,
                       printed, tables, faults>>
    BY <1>3, StartAssumption DEF EditPlayer, volatile, IInv, TypeOK
  <2> QED
    BY <2>1 DEF IInv, TypeOK, TablesInOrder, StepsInOrder, ResponsesAreOfTheQuery,
       ServedWhenSetUp, SetUp, PrintedIsWhole
<1> QED
  BY <1>1, <1>2, <1>3

\* For any tables, commands and rows, and any number of faults and edits: the
\* steps of main keep their order, and what each leaves behind is there when the
\* next needs it (main.c 21-43).
THEOREM StartInvariant == Spec => []IInv
<1>1. Init => IInv
  <2> SUFFICES ASSUME Init
               PROVE  IInv
    OBVIOUS
  <2>1. PICK n \in 0 .. Len(Tables) : tables = {Tables[i] : i \in 1 .. n}
    BY DEF Init
  <2>2. /\ 1 \in 1 .. Len(Tables) + 1 /\ 1 <= Len(Tables) /\ 1 .. 1 - 1 = {}
        /\ 1 .. n \subseteq DOMAIN Tables
    BY StartAssumption
  <2>3. tables \subseteq {Tables[i] : i \in DOMAIN Tables}
    BY <2>1, <2>2, Zenon
  <2>4. TypeOK
    <3>1. next \in 1 .. Len(Tables) + 1 /\ responses \in Seq(Rows \cup {PidOnly})
          /\ handlers \subseteq Commands /\ pc = "tables"
      BY <2>2 DEF Init
    <3>2. faults \in 0 .. MaxFaults /\ edits \in 0 .. MaxEdits
      BY StartAssumption DEF Init
    <3>3. /\ open \in BOOLEAN /\ encoder \in BOOLEAN /\ mapped \in BOOLEAN
          /\ changed \in BOOLEAN /\ player = NoRow /\ printed = NoRow
      BY DEF Init
    <3> QED
      BY <2>3, <3>1, <3>2, <3>3 DEF TypeOK
  <2>5. TablesInOrder /\ StepsInOrder
    BY <2>2 DEF Init, TablesInOrder, StepsInOrder
  <2>6. ResponsesAreOfTheQuery /\ ServedWhenSetUp /\ PrintedIsWhole
    BY DEF Init, ResponsesAreOfTheQuery, ServedWhenSetUp, PrintedIsWhole
  <2> QED
    BY <2>4, <2>5, <2>6 DEF IInv
<1>2. IInv /\ [Next]_vars => IInv'
  <2> SUFFICES ASSUME IInv, [Next]_vars
               PROVE  IInv'
    OBVIOUS
  <2>1. CASE CreateTable
    BY <2>1, CreateTableKeeps
  <2>2. CASE Open \/ InitEncoder \/ SetupHandlerMap \/ SetupCommands \/ AskExists
    BY <2>2, SetUpKeeps
  <2>3. CASE SelectPid \/ Missing \/ Exists \/ SelectAll \/ PrintPlayer
    BY <2>3, QueriesKeep
  <2>4. CASE DatabaseFails \/ Crash \/ Restart \/ EditPlayer
    BY <2>4, WorldKeeps
  <2>5. CASE UNCHANGED vars
    BY <2>5 DEF vars, volatile, database, history, IInv, TypeOK, TablesInOrder,
       StepsInOrder, ResponsesAreOfTheQuery, ServedWhenSetUp, SetUp, PrintedIsWhole
  <2> QED
    BY <2>1, <2>2, <2>3, <2>4, <2>5 DEF Next, Main, Serving
<1> QED
  BY <1>1, <1>2, PTL DEF Spec

\* However often starts were broken off, the server listens only on a database
\* with all tables and with all handlers in place (main.c 23-30 and 43).
THEOREM AlwaysSetUp == Spec => []ServedWhenSetUp
<1>1. IInv => ServedWhenSetUp
  BY DEF IInv
<1> QED
  BY <1>1, StartInvariant, PTL

\* No member that malloc left unset is printed (main.c 38-39, player.c 64-99).
THEOREM PrintsWholeRows == Spec => []PrintedIsWhole
<1>1. IInv => PrintedIsWhole
  BY DEF IInv
<1> QED
  BY <1>1, StartInvariant, PTL

\* For any tables and rows and however often it is broken off, a start of the process
\* cannot go round for ever: each of its steps leaves less to do (main.c 21-43,
\* player.c 14-99, sqlite_wrapper.c 13-62).
THEOREM StartsRunOut == Spec => StartRunsOut
<1>1. IInv /\ IInv' /\ [Next]_vars => [Below(ToDo', ToDo) \/ (EditPlayer /\ ToDo' = ToDo)]_vars
  <2> SUFFICES ASSUME IInv, IInv', Next, ~UNCHANGED vars
               PROVE  Below(ToDo', ToDo) \/ (EditPlayer /\ ToDo' = ToDo)
    OBVIOUS
  <2>1. /\ FaultsLeft \in Nat /\ CallsLeft \in Nat /\ TablesLeft \in Nat /\ ToOpen \in Nat
        /\ FaultsLeft' \in Nat /\ CallsLeft' \in Nat /\ TablesLeft' \in Nat /\ ToOpen' \in Nat
    <3>1. /\ faults \in 0 .. MaxFaults /\ faults' \in 0 .. MaxFaults
          /\ next \in 1 .. Len(Tables) + 1 /\ next' \in 1 .. Len(Tables) + 1
          /\ MaxFaults \in Nat /\ Len(Tables) \in Nat
      BY StartAssumption DEF IInv, TypeOK
    <3>2. FaultsLeft \in Nat /\ FaultsLeft' \in Nat
      <4>1. ASSUME NEW m \in Nat, NEW n \in 0 .. m
            PROVE  m - n \in Nat
        OBVIOUS
      <4> QED
        BY <3>1, <4>1, Zenon DEF FaultsLeft
    <3>3. TablesLeft \in Nat /\ TablesLeft' \in Nat
      BY <3>1 DEF TablesLeft
    <3>4. CallsLeft \in Nat /\ CallsLeft' \in Nat /\ ToOpen \in Nat /\ ToOpen' \in Nat
      BY DEF CallsLeft, ToOpen
    <3> QED
      BY <3>2, <3>3, <3>4
  <2>2. /\ ToDo = <<FaultsLeft, CallsLeft, TablesLeft, ToOpen>>
        /\ ToDo' = <<FaultsLeft', CallsLeft', TablesLeft', ToOpen'>>
    BY DEF ToDo
  <2>3. SUFFICES \/ FaultsLeft' < FaultsLeft
                 \/ FaultsLeft' = FaultsLeft /\ CallsLeft' < CallsLeft
                 \/ FaultsLeft' = FaultsLeft /\ CallsLeft' = CallsLeft /\ TablesLeft' < TablesLeft
                 \/ /\ FaultsLeft' = FaultsLeft /\ CallsLeft' = CallsLeft
                    /\ TablesLeft' = TablesLeft /\ ToOpen' < ToOpen
                 \/ /\ EditPlayer
                    /\ FaultsLeft' = FaultsLeft /\ CallsLeft' = CallsLeft
                    /\ TablesLeft' = TablesLeft /\ ToOpen' = ToOpen
    BY <2>1, <2>2, BelowFour
  <2>4. faults' = faults => FaultsLeft' = FaultsLeft
    BY DEF FaultsLeft
  <2>5. ASSUME Fault
        PROVE  FaultsLeft' < FaultsLeft
    BY <2>5, StartAssumption DEF Fault, FaultsLeft, IInv, TypeOK
  <2>6. CASE Open
    BY <2>4, <2>6 DEF Open, CallsLeft, volatile, history, TablesLeft, ToOpen
  <2>7. CASE CreateTable
    <3>1. FaultsLeft' = FaultsLeft /\ next' = next + 1
      BY <2>4, <2>7 DEF CreateTable, history
    <3>2. CallsLeft' < CallsLeft \/ (CallsLeft' = CallsLeft /\ TablesLeft' < TablesLeft)
      <4>1. CASE next = Len(Tables)
        BY <2>7, <4>1 DEF CreateTable, CallsLeft
      <4>2. CASE next # Len(Tables)
        <5>1. CallsLeft' = CallsLeft
          BY <2>7, <4>2 DEF CreateTable, CallsLeft
        <5>2. TablesLeft' < TablesLeft
          BY <3>1, StartAssumption DEF TablesLeft, IInv, TypeOK
        <5> QED
          BY <5>1, <5>2
      <4> QED
        BY <4>1, <4>2
    <3> QED
      BY <3>1, <3>2
  <2>8. CASE InitEncoder \/ SetupHandlerMap \/ SetupCommands \/ AskExists
             \/ Missing \/ Exists \/ PrintPlayer
    BY <2>4, <2>8 DEF InitEncoder, SetupHandlerMap, SetupCommands, AskExists, Missing,
       Exists, PrintPlayer, CallsLeft, history
  <2>9. CASE (SelectPid \/ SelectAll) /\ ~Fault
    <3>1. /\ faults' = faults
          /\ \/ pc = "exists" /\ pc' = "asked"
             \/ pc = "retrieve" /\ pc' = "print"
      BY <2>9 DEF SelectPid, SelectAll, Callback
    <3> QED
      BY <2>4, <3>1 DEF CallsLeft
  <2>10. CASE DatabaseFails \/ Crash \/ Fault
    BY <2>5, <2>10 DEF DatabaseFails, Crash
  <2>11. CASE Restart
    BY <2>4, <2>11 DEF Restart, CallsLeft, history
  <2>12. CASE EditPlayer
    BY <2>4, <2>12 DEF EditPlayer, CallsLeft, volatile, TablesLeft, ToOpen
  <2>13. ~Serving
    BY DEF Serving
  <2> QED
    BY <2>6, <2>7, <2>8, <2>9, <2>10, <2>11, <2>12, <2>13 DEF Next, Main
<1> QED
  BY <1>1, StartInvariant, PTL DEF Spec, StartRunsOut

-----------------------------------------------------------------------------
(* A dictionary: what is in a bin                                            *)

Occurs(x, s) == \E i \in 1 .. Len(s) : s[i] = x

\* No key of one list is in the other.
Apart(s, t) == \A i \in 1 .. Len(s), j \in 1 .. Len(t) : s[i].key # t[j].key

LEMMA PairFields ==
  /\ \A p \in Pairs : p.key \in Keys /\ p.value \in Values /\ p = Pair(p.key, p.value)
  /\ \A k \in Keys, v \in Values :
       Pair(k, v) \in Pairs /\ Pair(k, v).key = k /\ Pair(k, v).value = v
BY DEF Pairs, Pair

LEMMA PositionFinds ==
  ASSUME NEW s \in Seq(Pairs), NEW k \in Keys
  PROVE  \/ /\ PositionOf(k, s) = 0
            /\ \A i \in 1 .. Len(s) : s[i].key # k
         \/ /\ PositionOf(k, s) \in 1 .. Len(s)
            /\ s[PositionOf(k, s)].key = k
<1> DEFINE I == {i \in 1 .. Len(s) : Same(s[i].key, k)}
<1>1. Len(s) \in Nat /\ \A i \in 1 .. Len(s) : s[i] \in Pairs
  OBVIOUS
<1>2. I \in SUBSET Nat
  BY <1>1
<1>3. PositionOf(k, s) = IF I # {} THEN Min(I) ELSE 0
  BY <1>1 DEF PositionOf, SelectInSeq
<1>4. \A i \in 1 .. Len(s) : i \in I <=> s[i].key = k
  BY <1>1, KeysApart, PairFields
<1>5. CASE I = {}
  BY <1>3, <1>4, <1>5
<1>6. CASE I # {}
  <2>1. Min(I) \in I
    BY <1>2, <1>6, MinIsLeast
  <2>2. Min(I) \in 1 .. Len(s)
    BY <2>1
  <2> HIDE DEF I
  <2> QED
    BY <1>3, <1>4, <1>6, <2>1, <2>2
<1> QED
  BY <1>5, <1>6

\* dict_get on a bin in which no key comes twice.
LEMMA ValueFound ==
  ASSUME NEW s \in Seq(Pairs), Unrepeated(s), NEW k \in Keys
  PROVE  /\ ValueIn(s, k) \in Values \cup {NoValue}
         /\ \A v \in Values : ValueIn(s, k) = v <=> Occurs(Pair(k, v), s)
<1> DEFINE at == PositionOf(k, s)
<1>1. \A i \in 1 .. Len(s) : s[i] \in Pairs
  OBVIOUS
<1>2. CASE at = 0
  <2>1. ValueIn(s, k) = NoValue
    BY <1>2 DEF ValueIn
  <2>2. \A i \in 1 .. Len(s) : s[i].key # k
    BY <1>2, PositionFinds
  <2>3. \A v \in Values : ~Occurs(Pair(k, v), s)
    BY <2>2, PairFields DEF Occurs
  <2> QED
    BY <2>1, <2>3, KeyAssumption
<1>3. CASE at # 0
  <2>1. at \in 1 .. Len(s) /\ s[at].key = k
    BY <1>3, PositionFinds
  <2>2. ValueIn(s, k) = s[at].value /\ s[at].value \in Values
    BY <1>1, <1>3, <2>1, PairFields DEF ValueIn
  <2>3. \A v \in Values : s[at].value = v => s[at] = Pair(k, v)
    BY <1>1, <2>1, PairFields
  <2>4. ASSUME NEW v \in Values, NEW i \in 1 .. Len(s), s[i] = Pair(k, v)
        PROVE  s[at].value = v
    BY <2>1, <2>4, PairFields DEF Unrepeated
  <2> QED
    BY <2>1, <2>2, <2>3, <2>4 DEF Occurs
<1> QED
  BY <1>2, <1>3

LEMMA AppendPair ==
  ASSUME NEW s \in Seq(Pairs), Unrepeated(s), NEW p \in Pairs,
         \A i \in 1 .. Len(s) : s[i].key # p.key
  PROVE  /\ Append(s, p) \in Seq(Pairs) /\ Unrepeated(Append(s, p))
         /\ \A x : Occurs(x, Append(s, p)) <=> Occurs(x, s) \/ x = p
<1> DEFINE t == Append(s, p)
           n == Len(s)
<1>1. /\ t \in Seq(Pairs) /\ Len(t) = n + 1 /\ n \in Nat
      /\ t[n + 1] = p /\ \A i \in 1 .. n : t[i] = s[i]
  OBVIOUS
<1> HIDE DEF t
<1>2. \A i \in 1 .. n + 1 : i \in 1 .. n \/ i = n + 1
  BY <1>1
<1>3. \A i \in 1 .. n : i \in 1 .. n + 1
  BY <1>1
<1>4. n + 1 \in 1 .. n + 1
  BY <1>1
<1>5. Unrepeated(t)
  BY <1>1, <1>2 DEF Unrepeated
<1>6. \A x : Occurs(x, t) <=> Occurs(x, s) \/ x = p
  BY <1>1, <1>2, <1>3, <1>4, Zenon DEF Occurs
<1> QED
  BY <1>1, <1>5, <1>6 DEF t

LEMMA ConcatPairs ==
  ASSUME NEW s \in Seq(Pairs), NEW t \in Seq(Pairs),
         Unrepeated(s), Unrepeated(t), Apart(s, t)
  PROVE  /\ s \o t \in Seq(Pairs) /\ Unrepeated(s \o t)
         /\ \A x : Occurs(x, s \o t) <=> Occurs(x, s) \/ Occurs(x, t)
<1> DEFINE u == s \o t
           m == Len(s)
           n == Len(t)
<1>1. /\ u \in Seq(Pairs) /\ Len(u) = m + n /\ m \in Nat /\ n \in Nat
      /\ \A i \in 1 .. m : u[i] = s[i]
      /\ \A i \in m + 1 .. m + n : u[i] = t[i - m]
  OBVIOUS
<1> HIDE DEF u
<1>2. \A i \in 1 .. m + n : i \in 1 .. m \/ (i \in m + 1 .. m + n /\ i - m \in 1 .. n)
  BY <1>1
<1>3. \A i \in 1 .. m : i \in 1 .. m + n
  BY <1>1
<1>4. \A i \in 1 .. n : m + i \in m + 1 .. m + n /\ m + i \in 1 .. m + n /\ (m + i) - m = i
  BY <1>1
<1>5. Unrepeated(u)
  <2> SUFFICES ASSUME NEW i \in 1 .. m + n, NEW j \in 1 .. m + n, u[i].key = u[j].key
               PROVE  i = j
    BY <1>1 DEF Unrepeated
  <2>1. CASE i \in 1 .. m /\ j \in 1 .. m
    BY <1>1, <2>1 DEF Unrepeated
  <2>2. CASE i \in m + 1 .. m + n /\ j \in m + 1 .. m + n
    <3>1. i - m \in 1 .. n /\ j - m \in 1 .. n /\ t[i - m].key = t[j - m].key
      BY <1>1, <1>2, <2>2
    <3>2. i - m = j - m
      BY <3>1 DEF Unrepeated
    <3> QED
      BY <1>1, <3>2
  <2>3. CASE i \in 1 .. m /\ j \in m + 1 .. m + n
    BY <1>1, <1>2, <2>3 DEF Apart
  <2>4. CASE i \in m + 1 .. m + n /\ j \in 1 .. m
    <3>1. i - m \in 1 .. n /\ u[i] = t[i - m] /\ u[j] = s[j]
      BY <1>1, <1>2, <2>4
    <3>2. s[j].key # t[i - m].key
      BY <2>4, <3>1 DEF Apart
    <3> QED
      BY <3>1, <3>2
  <2> QED
    BY <1>2, <2>1, <2>2, <2>3, <2>4
<1>6. ASSUME NEW x
      PROVE  Occurs(x, u) <=> Occurs(x, s) \/ Occurs(x, t)
  <2>1. Occurs(x, u) => Occurs(x, s) \/ Occurs(x, t)
    BY <1>1, <1>2 DEF Occurs
  <2>2. Occurs(x, s) => Occurs(x, u)
    BY <1>1, <1>3, Zenon DEF Occurs
  <2>3. Occurs(x, t) => Occurs(x, u)
    BY <1>1, <1>4 DEF Occurs
  <2> QED
    BY <2>1, <2>2, <2>3
<1> QED
  BY <1>1, <1>5, <1>6 DEF u

\* What arraylist_remove leaves.
LEMMA RemovePair ==
  ASSUME NEW s \in Seq(Pairs), Unrepeated(s), NEW at \in 1 .. Len(s)
  PROVE  /\ RemoveAt(s, at) \in Seq(Pairs) /\ Unrepeated(RemoveAt(s, at))
         /\ \A x : Occurs(x, RemoveAt(s, at)) <=> Occurs(x, s) /\ x # s[at]
<1> DEFINE t == RemoveAt(s, at)
           n == Len(s)
<1>1. /\ t \in Seq(Pairs) /\ Len(t) = n - 1 /\ n \in Nat /\ at \in Nat
      /\ \A i \in 1 .. n - 1 : t[i] = IF i < at THEN s[i] ELSE s[i + 1]
  <2> DEFINE a == SubSeq(s, 1, at - 1)
             b == SubSeq(s, at + 1, n)
  <2>1. n \in Nat /\ at \in Nat /\ at >= 1 /\ at <= n
    OBVIOUS
  <2>2. a \in Seq(Pairs) /\ Len(a) = at - 1 /\ \A i \in 1 .. at - 1 : a[i] = s[i]
    BY <2>1
  <2>3. /\ b \in Seq(Pairs) /\ Len(b) = n - at
        /\ \A i \in 1 .. n - at : b[i] = s[at + i]
    BY <2>1
  <2> HIDE DEF a, b
  <2>4. /\ a \o b \in Seq(Pairs) /\ Len(a \o b) = n - 1
        /\ \A i \in 1 .. n - 1 : (a \o b)[i] = IF i < at THEN a[i] ELSE b[i - (at - 1)]
    <3>0. a \in Seq(Pairs) /\ b \in Seq(Pairs)
      BY <2>2, <2>3
    <3>1. a \o b \in Seq(Pairs) /\ Len(a \o b) = Len(a) + Len(b)
      BY <3>0
    <3>2. \A i \in 1 .. Len(a) + Len(b) :
            (a \o b)[i] = IF i <= Len(a) THEN a[i] ELSE b[i - Len(a)]
      BY <3>0
    <3>3. Len(a) + Len(b) = n - 1 /\ \A i \in 1 .. n - 1 : i <= at - 1 <=> i < at
      BY <2>1, <2>2, <2>3
    <3> QED
      BY <2>2, <3>1, <3>2, <3>3
  <2>5. ASSUME NEW i \in 1 .. n - 1
        PROVE  (a \o b)[i] = IF i < at THEN s[i] ELSE s[i + 1]
    <3>1. CASE i < at
      BY <2>1, <2>2, <2>4, <3>1
    <3>2. CASE ~(i < at)
      <4>1. i - (at - 1) \in 1 .. n - at /\ at + (i - (at - 1)) = i + 1
        BY <2>1, <3>2
      <4> QED
        BY <2>3, <2>4, <3>2, <4>1
    <3> QED
      BY <3>1, <3>2
  <2>6. t = a \o b
    BY DEF RemoveAt, a, b
  <2> QED
    BY <2>1, <2>4, <2>5, <2>6
<1> HIDE DEF t
<1> DEFINE old(i) == IF i < at THEN i ELSE i + 1
<1>2. \A i \in 1 .. n - 1 : old(i) \in 1 .. n /\ old(i) # at /\ t[i] = s[old(i)]
  BY <1>1
<1>3. \A i, j \in 1 .. n - 1 : old(i) = old(j) => i = j
  BY <1>1
<1>4. ASSUME NEW j \in 1 .. n, j # at
      PROVE  \E i \in 1 .. n - 1 : old(i) = j
  <2>1. CASE j < at
    BY <1>1, <2>1
  <2>2. CASE at < j
    <3>1. j - 1 \in 1 .. n - 1 /\ old(j - 1) = j
      BY <1>1, <2>2
    <3> QED
      BY <3>1
  <2> QED
    BY <1>1, <1>4, <2>1, <2>2
<1> HIDE DEF old
<1>5. Unrepeated(t)
  BY <1>1, <1>2, <1>3 DEF Unrepeated
<1>6. \A i \in 1 .. n : s[i] = s[at] => i = at
  BY DEF Unrepeated
<1>7. ASSUME NEW x
      PROVE  Occurs(x, t) <=> Occurs(x, s) /\ x # s[at]
  <2>1. Occurs(x, t) => Occurs(x, s) /\ x # s[at]
    BY <1>1, <1>2, <1>6 DEF Occurs
  <2>2. Occurs(x, s) /\ x # s[at] => Occurs(x, t)
    <3> SUFFICES ASSUME NEW j \in 1 .. n, s[j] = x, x # s[at]
                 PROVE  Occurs(x, t)
      BY DEF Occurs
    <3>1. PICK i \in 1 .. n - 1 : old(i) = j
      BY <1>4
    <3> QED
      BY <1>1, <1>2, <3>1 DEF Occurs
  <2> QED
    BY <2>1, <2>2
<1> QED
  BY <1>1, <1>5, <1>7 DEF t

\* What is left of a key's pair when dict_put has given it another value.
IsReplaced(t, s, at, v) ==
  /\ t \in Seq(Pairs) /\ Unrepeated(t) /\ Len(t) = Len(s)
  /\ \A i \in 1 .. Len(s) : t[i].key = s[i].key
  /\ \A x : Occurs(x, t) <=> (Occurs(x, s) /\ x # s[at]) \/ x = Pair(s[at].key, v)

LEMMA ReplacePair ==
  ASSUME NEW s \in Seq(Pairs), Unrepeated(s), NEW at \in 1 .. Len(s), NEW v \in Values
  PROVE  IsReplaced([s EXCEPT ![at].value = v], s, at, v)
<1> DEFINE t == [s EXCEPT ![at].value = v]
           n == Len(s)
           p == Pair(s[at].key, v)
<1>1. n \in Nat /\ s[at] \in Pairs /\ p \in Pairs /\ p.key = s[at].key
  BY PairFields
<1>2. [s[at] EXCEPT !.value = v] = p
  BY <1>1 DEF Pairs, Pair
<1>3. t = [s EXCEPT ![at] = p]
  BY <1>2
<1> HIDE DEF p
<1>4. /\ t \in Seq(Pairs) /\ Len(t) = n /\ t[at] = p
      /\ \A i \in 1 .. n : i # at => t[i] = s[i]
  BY <1>1, <1>3
<1> HIDE DEF t
<1>5. \A i \in 1 .. n : t[i].key = s[i].key
  BY <1>1, <1>4
<1>6. Unrepeated(t)
  BY <1>4, <1>5 DEF Unrepeated
<1>7. \A i \in 1 .. n : s[i] = s[at] => i = at
  BY DEF Unrepeated
<1>8. ASSUME NEW x
      PROVE  Occurs(x, t) <=> (Occurs(x, s) /\ x # s[at]) \/ x = p
  BY <1>4, <1>7 DEF Occurs
<1> QED
  BY <1>4, <1>5, <1>6, <1>8 DEF t, p, IsReplaced

\* Part of a list has what is at the positions that were chosen.
LEMMA PickedPairs ==
  ASSUME NEW s \in Seq(Pairs), Unrepeated(s), NEW P
  PROVE  /\ Picked(s, P) \in Seq(Pairs) /\ Unrepeated(Picked(s, P))
         /\ \A x : Occurs(x, Picked(s, P)) <=> \E i \in 1 .. Len(s) : i \in P /\ s[i] = x
<1> DEFINE n == Len(s)
<1>1. n \in Nat /\ \A i \in 1 .. n : s[i] \in Pairs
  OBVIOUS
<1>2. PICK f : IsPicking(f, s, P, Pairs) /\ Picked(s, P) = f[n]
  BY PickedSteps
<1> DEFINE chosen(m, x) == \E i \in 1 .. m : i \in P /\ s[i] = x
           right(m) == /\ f[m] \in Seq(Pairs) /\ Unrepeated(f[m])
                       /\ \A x : Occurs(x, f[m]) <=> chosen(m, x)
           S == {m \in Nat : m <= n => right(m)}
<1>3. 0 \in S
  <2>1. f[0] = <<>> /\ <<>> \in Seq(Pairs) /\ Len(<<>>) = 0 /\ 1 .. 0 = {}
    BY <1>2 DEF IsPicking
  <2>2. Unrepeated(f[0]) /\ \A x : ~Occurs(x, f[0])
    BY <2>1 DEF Unrepeated, Occurs
  <2>3. \A x : ~chosen(0, x)
    BY <2>1
  <2> QED
    BY <2>1, <2>2, <2>3
<1>4. ASSUME NEW m \in Nat, m \in S
      PROVE  m + 1 \in S
  <2> SUFFICES ASSUME m + 1 <= n
               PROVE  right(m + 1)
    OBVIOUS
  <2>1. right(m) /\ m + 1 \in 1 .. n /\ (m + 1) - 1 = m
    BY <1>1, <1>4
  <2>2. f[m + 1] = IF m + 1 \in P THEN Append(f[m], s[m + 1]) ELSE f[m]
    <3>1. f[m + 1] = IF m + 1 \in P THEN Append(f[(m + 1) - 1], s[m + 1]) ELSE f[(m + 1) - 1]
      BY <1>2, <2>1, Zenon DEF IsPicking
    <3> QED
      BY <2>1, <3>1
  <2>3. \A x : chosen(m + 1, x) <=> chosen(m, x) \/ (m + 1 \in P /\ s[m + 1] = x)
    <3>1. 1 .. m + 1 = (1 .. m) \cup {m + 1}
      BY <1>4
    <3> QED
      BY <3>1, Zenon
  <2>4. CASE m + 1 \notin P
    BY <2>1, <2>2, <2>3, <2>4
  <2>5. CASE m + 1 \in P
    <3>1. ASSUME NEW i \in 1 .. Len(f[m])
          PROVE  f[m][i].key # s[m + 1].key
      <4>1. Occurs(f[m][i], f[m])
        BY DEF Occurs
      <4>2. PICK j \in 1 .. m : s[j] = f[m][i]
        BY <2>1, <4>1
      <4>3. j \in 1 .. n /\ j # m + 1
        BY <1>1, <2>1, <4>2
      <4> QED
        BY <2>1, <4>2, <4>3 DEF Unrepeated
    <3>2. s[m + 1] \in Pairs /\ f[m] \in Seq(Pairs) /\ Unrepeated(f[m])
      BY <1>1, <2>1
    <3>3. /\ f[m + 1] \in Seq(Pairs) /\ Unrepeated(f[m + 1])
          /\ \A x : Occurs(x, f[m + 1]) <=> Occurs(x, f[m]) \/ x = s[m + 1]
      <4>1. f[m + 1] = Append(f[m], s[m + 1])
        BY <2>2, <2>5
      <4> QED
        BY <3>1, <3>2, <4>1, AppendPair
    <3> HIDE DEF chosen
    <3> QED
      BY <2>1, <2>3, <2>5, <3>3, Zenon
  <2> QED
    BY <2>4, <2>5
<1>5. n \in S
  <2> HIDE DEF S
  <2> QED
    BY <1>1, <1>3, <1>4, SetInduction
<1> QED
  BY <1>1, <1>2, <1>5

\* Lists without a key in common, one behind the other.
LEMMA FlattenPairs ==
  ASSUME NEW ss \in Seq(Seq(Pairs)),
         \A i \in 1 .. Len(ss) : Unrepeated(ss[i]),
         \A i, j \in 1 .. Len(ss) : i # j => Apart(ss[i], ss[j])
  PROVE  /\ FlattenSeq(ss) \in Seq(Pairs) /\ Unrepeated(FlattenSeq(ss))
         /\ \A x : Occurs(x, FlattenSeq(ss)) <=> \E i \in 1 .. Len(ss) : Occurs(x, ss[i])
<1> DEFINE n == Len(ss)
<1>1. n \in Nat /\ \A i \in 1 .. n : ss[i] \in Seq(Pairs)
  OBVIOUS
<1>2. PICK f : IsFlattening(f, ss, Pairs) /\ FlattenSeq(ss) = f[n]
  BY FlattenSteps
<1> DEFINE within(m, x) == \E i \in 1 .. m : Occurs(x, ss[i])
           right(m) == /\ f[m] \in Seq(Pairs) /\ Unrepeated(f[m])
                       /\ \A x : Occurs(x, f[m]) <=> within(m, x)
           S == {m \in Nat : m <= n => right(m)}
<1>3. 0 \in S
  <2>1. f[0] = <<>> /\ <<>> \in Seq(Pairs) /\ Len(<<>>) = 0 /\ 1 .. 0 = {}
    BY <1>2 DEF IsFlattening
  <2>2. Unrepeated(f[0]) /\ \A x : ~Occurs(x, f[0])
    BY <2>1 DEF Unrepeated, Occurs
  <2>3. \A x : ~within(0, x)
    BY <2>1
  <2> QED
    BY <2>1, <2>2, <2>3
<1>4. ASSUME NEW m \in Nat, m \in S
      PROVE  m + 1 \in S
  <2> SUFFICES ASSUME m + 1 <= n
               PROVE  right(m + 1)
    OBVIOUS
  <2>1. right(m) /\ m + 1 \in 1 .. n /\ (m + 1) - 1 = m
    BY <1>1, <1>4
  <2>2. f[m + 1] = f[m] \o ss[m + 1]
    <3>1. f[m + 1] = f[(m + 1) - 1] \o ss[m + 1]
      BY <1>2, <2>1, Zenon DEF IsFlattening
    <3> QED
      BY <2>1, <3>1
  <2>3. \A x : within(m + 1, x) <=> within(m, x) \/ Occurs(x, ss[m + 1])
    <3>1. 1 .. m + 1 = (1 .. m) \cup {m + 1}
      BY <1>4
    <3> QED
      BY <3>1, Zenon
  <2>4. Apart(f[m], ss[m + 1])
    <3> SUFFICES ASSUME NEW i \in 1 .. Len(f[m]), NEW j \in 1 .. Len(ss[m + 1])
                 PROVE  f[m][i].key # ss[m + 1][j].key
      BY DEF Apart
    <3>1. Occurs(f[m][i], f[m])
      BY DEF Occurs
    <3>2. PICK k \in 1 .. m : Occurs(f[m][i], ss[k])
      BY <2>1, <3>1
    <3>3. k \in 1 .. n /\ k # m + 1
      BY <1>1, <2>1, <3>2
    <3>4. Apart(ss[k], ss[m + 1])
      BY <2>1, <3>3
    <3> QED
      BY <3>2, <3>4 DEF Apart, Occurs
  <2>5. ss[m + 1] \in Seq(Pairs) /\ Unrepeated(ss[m + 1])
    BY <1>1, <2>1
  <2>6. /\ f[m + 1] \in Seq(Pairs) /\ Unrepeated(f[m + 1])
        /\ \A x : Occurs(x, f[m + 1]) <=> Occurs(x, f[m]) \/ Occurs(x, ss[m + 1])
    BY <2>1, <2>2, <2>4, <2>5, ConcatPairs
  <2> HIDE DEF within
  <2> QED
    BY <2>1, <2>3, <2>6, Zenon
<1>5. n \in S
  <2> HIDE DEF S
  <2> QED
    BY <1>1, <1>3, <1>4, SetInduction
<1> QED
  BY <1>1, <1>2, <1>5

-----------------------------------------------------------------------------
(* A dictionary: what is under a key                                         *)

Has(bs, n, k, v) == Occurs(Pair(k, v), bs[BinOf(k, n)])

LEMMA BinInRange ==
  ASSUME NEW n \in Nat \ {0}, NEW k \in Keys
  PROVE  BinOf(k, n) \in 0 .. n - 1
<1>1. Hash[k] \in Nat
  BY KeyAssumption
<1> QED
  BY <1>1 DEF BinOf

\* dict_get on a table in order.
LEMMA GetFinds ==
  ASSUME NEW bs, NEW n, Placed(bs, n), NEW k \in Keys
  PROVE  /\ ValueIn(bs[BinOf(k, n)], k) \in Values \cup {NoValue}
         /\ \A v \in Values : ValueIn(bs[BinOf(k, n)], k) = v <=> Has(bs, n, k, v)
<1>1. BinOf(k, n) \in 0 .. n - 1
  BY BinInRange DEF Placed
<1>2. bs[BinOf(k, n)] \in Seq(Pairs) /\ Unrepeated(bs[BinOf(k, n)])
  BY <1>1 DEF Placed
<1> QED
  BY <1>2, ValueFound DEF Has

\* Two bins have no key in common.
LEMMA BinsApart ==
  ASSUME NEW bs, NEW n, Placed(bs, n),
         NEW b \in 0 .. n - 1, NEW c \in 0 .. n - 1, b # c
  PROVE  Apart(bs[b], bs[c])
BY DEF Placed, Apart

\* A key's pair can be nowhere but in its bin.
LEMMA HasAnywhere ==
  ASSUME NEW bs, NEW n, Placed(bs, n), NEW k \in Keys, NEW v \in Values,
         NEW b \in 0 .. n - 1, Occurs(Pair(k, v), bs[b])
  PROVE  b = BinOf(k, n)
<1>1. PICK i \in 1 .. Len(bs[b]) : bs[b][i] = Pair(k, v)
  BY DEF Occurs
<1>2. BinOf(bs[b][i].key, n) = b
  BY DEF Placed
<1> QED
  BY <1>1, <1>2, PairFields

\* A rehash loses nothing, doubles nothing and puts each pair into its bin.
LEMMA RehashKeeps ==
  ASSUME NEW bs, NEW m, Placed(bs, m), NEW n \in Nat \ {0}
  PROVE  /\ Placed(Rehashed(bs, n), n)
         /\ \A k \in Keys, v \in Values : Has(Rehashed(bs, n), n, k, v) <=> Has(bs, m, k, v)
<1> DEFINE ss == [i \in 1 .. m |-> bs[m - i]]
           all == FlattenSeq(ss)
           new == Rehashed(bs, n)
<1>1. m \in Nat \ {0} /\ bs \in [0 .. m - 1 -> Seq(Pairs)]
  BY DEF Placed
<1>2. Cardinality(DOMAIN bs) = m
  <2>1. 0 \in Int /\ m - 1 \in Int /\ ~(0 > m - 1) /\ (m - 1) - 0 + 1 = m
    BY <1>1
  <2>2. DOMAIN bs = 0 .. m - 1
    BY <1>1
  <2>3. Cardinality(0 .. m - 1) = (m - 1) - 0 + 1
    BY <2>1, FS_Interval
  <2> QED
    BY <2>1, <2>2, <2>3
<1>3. \A i \in 1 .. m : m - i \in 0 .. m - 1
  BY <1>1
<1>4. /\ ss \in Seq(Seq(Pairs)) /\ Len(ss) = m
      /\ \A i \in 1 .. m : ss[i] = bs[m - i]
  BY <1>1, <1>3
<1> HIDE DEF ss
<1>5. \A i \in 1 .. Len(ss) : Unrepeated(ss[i])
  BY <1>3, <1>4 DEF Placed
<1>6. \A i, j \in 1 .. Len(ss) : i # j => Apart(ss[i], ss[j])
  <2> SUFFICES ASSUME NEW i \in 1 .. m, NEW j \in 1 .. m, i # j
               PROVE  Apart(bs[m - i], bs[m - j])
    BY <1>4
  <2>1. m - i \in 0 .. m - 1 /\ m - j \in 0 .. m - 1 /\ m - i # m - j
    BY <1>1
  <2> QED
    BY <2>1, BinsApart
<1>7. /\ all \in Seq(Pairs) /\ Unrepeated(all)
      /\ \A x : Occurs(x, all) <=> \E i \in 1 .. Len(ss) : Occurs(x, ss[i])
  BY <1>4, <1>5, <1>6, FlattenPairs
<1>8. \A k \in Keys, v \in Values : Occurs(Pair(k, v), all) <=> Has(bs, m, k, v)
  <2> SUFFICES ASSUME NEW k \in Keys, NEW v \in Values
               PROVE  Occurs(Pair(k, v), all) <=> Has(bs, m, k, v)
    OBVIOUS
  <2>1. ASSUME NEW i \in 1 .. m, Occurs(Pair(k, v), ss[i])
        PROVE  Has(bs, m, k, v)
    <3>1. m - i \in 0 .. m - 1 /\ Occurs(Pair(k, v), bs[m - i])
      BY <1>3, <1>4, <2>1
    <3> QED
      BY <3>1, HasAnywhere DEF Has
  <2>2. ASSUME Has(bs, m, k, v)
        PROVE  \E i \in 1 .. m : Occurs(Pair(k, v), ss[i])
    <3>1. BinOf(k, m) \in 0 .. m - 1
      BY <1>1, BinInRange
    <3>2. m - BinOf(k, m) \in 1 .. m /\ m - (m - BinOf(k, m)) = BinOf(k, m)
      BY <1>1, <3>1
    <3> QED
      BY <1>4, <2>2, <3>2 DEF Has
  <2> QED
    BY <1>4, <1>7, <2>1, <2>2
<1> HIDE DEF all
<1> DEFINE P(b) == {i \in DOMAIN all : BinOf(all[i].key, n) = b}
<1>9. new = [b \in 0 .. n - 1 |-> Picked(all, P(b))]
  BY <1>2 DEF Rehashed, PairsFor, all, ss
<1>10. DOMAIN all = 1 .. Len(all)
  BY <1>7
<1> HIDE DEF new
<1>11. ASSUME NEW b \in 0 .. n - 1
       PROVE  /\ new[b] \in Seq(Pairs) /\ Unrepeated(new[b])
              /\ \A x : Occurs(x, new[b]) <=> Occurs(x, all) /\ BinOf(x.key, n) = b
  <2>1. new[b] = Picked(all, P(b))
    BY <1>9
  <2>2. \A i \in 1 .. Len(all) : i \in P(b) <=> BinOf(all[i].key, n) = b
    BY <1>10
  <2> HIDE DEF P
  <2>3. /\ new[b] \in Seq(Pairs) /\ Unrepeated(new[b])
        /\ \A x : Occurs(x, new[b]) <=> \E i \in 1 .. Len(all) : i \in P(b) /\ all[i] = x
    BY <1>7, <2>1, PickedPairs
  <2>4. \A x : Occurs(x, new[b]) <=> Occurs(x, all) /\ BinOf(x.key, n) = b
    BY <2>2, <2>3, Zenon DEF Occurs
  <2> QED
    BY <2>3, <2>4
<1>12. Placed(new, n)
  <2>1. new \in [0 .. n - 1 -> Seq(Pairs)]
    BY <1>9, <1>11
  <2>2. ASSUME NEW b \in 0 .. n - 1, NEW i \in 1 .. Len(new[b])
        PROVE  BinOf(new[b][i].key, n) = b
    BY <1>11, Occurs(new[b][i], new[b]) DEF Occurs
  <2> QED
    BY <1>11, <2>1, <2>2 DEF Placed
<1>13. ASSUME NEW k \in Keys, NEW v \in Values
       PROVE  Has(new, n, k, v) <=> Has(bs, m, k, v)
  <2>1. BinOf(k, n) \in 0 .. n - 1 /\ Pair(k, v).key = k
    BY BinInRange, PairFields
  <2>2. Has(new, n, k, v) <=> Occurs(Pair(k, v), all)
    BY <1>11, <2>1 DEF Has
  <2> QED
    BY <1>8, <2>2
<1> QED
  BY <1>12, <1>13 DEF new

LEMMA CountOfBins ==
  ASSUME NEW bs, NEW n, Placed(bs, n)
  PROVE  Cardinality(DOMAIN bs) = n
<1>1. n \in Nat \ {0} /\ DOMAIN bs = 0 .. n - 1
  BY DEF Placed
<1>2. 0 \in Int /\ n - 1 \in Int /\ ~(0 > n - 1) /\ (n - 1) - 0 + 1 = n
  BY <1>1
<1>3. Cardinality(0 .. n - 1) = (n - 1) - 0 + 1
  BY <1>2, FS_Interval
<1> QED
  BY <1>1, <1>2, <1>3

\* From one table to another only k's value changes, to v.
Changed(bs, m, new, n, k, v) ==
  \A j \in Keys, w \in Values :
    Has(new, n, j, w) <=> IF j = k THEN w = v ELSE Has(bs, m, j, w)

\* One bin is changed, for one of its keys.
LEMMA OneBinChanges ==
  ASSUME NEW bs, NEW n, Placed(bs, n), NEW k \in Keys, NEW v,
         NEW t \in Seq(Pairs), Unrepeated(t),
         \A x : Occurs(x, t) => BinOf(x.key, n) = BinOf(k, n),
         \A j \in Keys, w \in Values :
           Occurs(Pair(j, w), t) <=>
             IF j = k THEN w = v ELSE Occurs(Pair(j, w), bs[BinOf(k, n)])
  PROVE  LET new == [bs EXCEPT ![BinOf(k, n)] = t]
         IN  Placed(new, n) /\ Changed(bs, n, new, n, k, v)
<1> DEFINE b == BinOf(k, n)
           new == [bs EXCEPT ![b] = t]
<1>1. n \in Nat \ {0} /\ bs \in [0 .. n - 1 -> Seq(Pairs)] /\ b \in 0 .. n - 1
  BY BinInRange DEF Placed
<1>2. /\ new \in [0 .. n - 1 -> Seq(Pairs)] /\ new[b] = t
      /\ \A c \in 0 .. n - 1 : c # b => new[c] = bs[c]
  BY <1>1
<1> HIDE DEF new
<1>3. ASSUME NEW c \in 0 .. n - 1
      PROVE  /\ Unrepeated(new[c])
             /\ \A i \in 1 .. Len(new[c]) : BinOf(new[c][i].key, n) = c
  <2>1. CASE c = b
    <3>1. \A i \in 1 .. Len(t) : Occurs(t[i], t)
      BY DEF Occurs
    <3>2. \A i \in 1 .. Len(t) : BinOf(t[i].key, n) = b
      BY <3>1
    <3> QED
      BY <1>2, <2>1, <3>2
  <2>2. CASE c # b
    BY <1>2, <2>2 DEF Placed
  <2> QED
    BY <2>1, <2>2
<1>4. Placed(new, n)
  BY <1>1, <1>2, <1>3 DEF Placed
<1>5. Changed(bs, n, new, n, k, v)
  <2> SUFFICES ASSUME NEW j \in Keys, NEW w \in Values
               PROVE  Has(new, n, j, w) <=> IF j = k THEN w = v ELSE Has(bs, n, j, w)
    BY DEF Changed
  <2>1. CASE BinOf(j, n) = b
    BY <1>2, <2>1 DEF Has
  <2>2. CASE BinOf(j, n) # b
    <3>1. BinOf(j, n) \in 0 .. n - 1
      BY <1>1, BinInRange
    <3> QED
      BY <1>2, <2>2, <3>1 DEF Has
  <2> QED
    BY <2>1, <2>2
<1> QED
  BY <1>4, <1>5 DEF new

LEMMA BinAtHand ==
  ASSUME NEW bs, NEW n, Placed(bs, n), NEW k \in Keys
  PROVE  LET s == bs[BinOf(k, n)]
         IN  /\ s \in Seq(Pairs) /\ Unrepeated(s)
             /\ \A x : Occurs(x, s) => BinOf(x.key, n) = BinOf(k, n)
             /\ ValueIn(s, k) = NoValue => \A i \in 1 .. Len(s) : s[i].key # k
             /\ ValueIn(s, k) # NoValue =>
                  PositionOf(k, s) \in 1 .. Len(s) /\ s[PositionOf(k, s)].key = k
<1> DEFINE s == bs[BinOf(k, n)]
<1>1. BinOf(k, n) \in 0 .. n - 1
  BY BinInRange DEF Placed
<1>2. /\ s \in Seq(Pairs) /\ Unrepeated(s)
      /\ \A i \in 1 .. Len(s) : BinOf(s[i].key, n) = BinOf(k, n)
  BY <1>1 DEF Placed
<1> HIDE DEF s
<1>3. \A x : Occurs(x, s) => BinOf(x.key, n) = BinOf(k, n)
  BY <1>2 DEF Occurs
<1>4. \/ PositionOf(k, s) = 0 /\ \A i \in 1 .. Len(s) : s[i].key # k
      \/ PositionOf(k, s) \in 1 .. Len(s) /\ s[PositionOf(k, s)].key = k
  BY <1>2, PositionFinds
<1>5. CASE PositionOf(k, s) = 0
  <2>1. ValueIn(s, k) = NoValue
    BY <1>5 DEF ValueIn
  <2> QED
    BY <1>2, <1>3, <1>4, <1>5, <2>1 DEF s
<1>6. CASE PositionOf(k, s) # 0
  <2>1. PositionOf(k, s) \in 1 .. Len(s) /\ s[PositionOf(k, s)].key = k
    BY <1>4, <1>6
  <2>2. ValueIn(s, k) \in Values
    BY <1>2, <1>6, <2>1, PairFields DEF ValueIn
  <2> QED
    BY <1>2, <1>3, <2>1, <2>2, KeyAssumption DEF s
<1> QED
  BY <1>5, <1>6

\* dict_put on a key that is there.
LEMMA ReplaceKeeps ==
  ASSUME DictIInv, NEW k \in Keys, NEW v \in Values, Replace(k, v)
  PROVE  /\ Placed(bins', BinCount') /\ BinCount' = BinCount
         /\ Changed(bins, BinCount, bins', BinCount', k, v)
<1> DEFINE n == BinCount
           b == BinOf(k, n)
           s == bins[b]
           at == PositionOf(k, s)
           t == [s EXCEPT ![at].value = v]
<1>1. Placed(bins, n)
  BY DEF DictIInv
<1>2. DictGet(k) # NoValue /\ bins' = [bins EXCEPT ![b] = t]
  BY DEF Replace, Bin
<1>3. /\ s \in Seq(Pairs) /\ Unrepeated(s) /\ at \in 1 .. Len(s) /\ s[at].key = k
      /\ \A x : Occurs(x, s) => BinOf(x.key, n) = b
  <2> HIDE DEF n
  <2> QED
    BY <1>1, <1>2, BinAtHand DEF DictGet, Bin, n
<1>4. /\ t \in Seq(Pairs) /\ Unrepeated(t) /\ Len(t) = Len(s)
      /\ \A i \in 1 .. Len(s) : t[i].key = s[i].key
      /\ \A x : Occurs(x, t) <=> (Occurs(x, s) /\ x # s[at]) \/ x = Pair(s[at].key, v)
  <2> HIDE DEF s, at
  <2>1. IsReplaced(t, s, at, v)
    BY <1>3, ReplacePair
  <2> HIDE DEF t
  <2> QED
    BY <2>1 DEF IsReplaced
<1> HIDE DEF t
<1>6. \A x : Occurs(x, t) => BinOf(x.key, n) = b
  BY <1>3, <1>4, PairFields
<1>7. ASSUME NEW j \in Keys, NEW w \in Values
      PROVE  Occurs(Pair(j, w), t) <=> IF j = k THEN w = v ELSE Occurs(Pair(j, w), s)
  <2>1. Occurs(s[at], s)
    BY <1>3 DEF Occurs
  <2>2. Occurs(Pair(k, w), s) => Pair(k, w) = s[at]
    BY <1>3, PairFields DEF Occurs, Unrepeated
  <2>3. Pair(j, w).key = j /\ Pair(j, w).value = w /\ Pair(k, v).key = k /\ Pair(k, v).value = v
    BY PairFields
  <2> HIDE DEF s, at
  <2>4. CASE j = k
    BY <1>3, <1>4, <2>2, <2>3, <2>4
  <2>5. CASE j # k
    BY <1>3, <1>4, <2>3, <2>5
  <2> QED
    BY <2>4, <2>5
<1>8. Placed(bins', n) /\ Changed(bins, n, bins', n, k, v)
  <2> HIDE DEF n, s
  <2>1. \A j \in Keys, w \in Values :
          Occurs(Pair(j, w), t) <=> IF j = k THEN w = v ELSE Occurs(Pair(j, w), bins[BinOf(k, n)])
    BY <1>7 DEF s
  <2>2. /\ Placed([bins EXCEPT ![b] = t], n)
        /\ Changed(bins, n, [bins EXCEPT ![b] = t], n, k, v)
    BY <1>1, <1>4, <1>6, <2>1, OneBinChanges
  <2> QED
    BY <1>2, <2>2
<1>9. BinCount' = n
  BY <1>8, CountOfBins DEF BinCount
<1> QED
  BY <1>8, <1>9

\* dict_put on a new key, which may make it put every pair into another bin.
LEMMA InsertKeeps ==
  ASSUME DictIInv, NEW k \in Keys, NEW v \in Values, Insert(k, v)
  PROVE  /\ Placed(bins', BinCount') /\ count' = count + 1
         /\ Changed(bins, BinCount, bins', BinCount', k, v)
         /\ count \in Nat => ~Overloaded(count', BinCount')
<1> DEFINE n == BinCount
           b == BinOf(k, n)
           s == bins[b]
           t == Append(s, Pair(k, v))
           added == [bins EXCEPT ![b] = t]
<1>1. Placed(bins, n) /\ ~Overloaded(count, n)
  BY DEF DictIInv
<1>2. /\ DictGet(k) = NoValue /\ count' = count + 1
      /\ bins' = IF Overloaded(count', n) THEN Rehashed(added, n + Growth) ELSE added
  BY DEF Insert, Bin
<1>3. /\ s \in Seq(Pairs) /\ Unrepeated(s)
      /\ \A x : Occurs(x, s) => BinOf(x.key, n) = b
      /\ \A i \in 1 .. Len(s) : s[i].key # k
  <2> HIDE DEF n
  <2> QED
    BY <1>1, <1>2, BinAtHand DEF DictGet, Bin, n
<1>4. Pair(k, v) \in Pairs /\ Pair(k, v).key = k
  BY PairFields
<1>5. /\ t \in Seq(Pairs) /\ Unrepeated(t)
      /\ \A x : Occurs(x, t) <=> Occurs(x, s) \/ x = Pair(k, v)
  <2> DEFINE p == Pair(k, v)
  <2> HIDE DEF s, p
  <2>1. p \in Pairs /\ \A i \in 1 .. Len(s) : s[i].key # p.key
    BY <1>3, <1>4 DEF p
  <2> QED
    BY <1>3, <2>1, AppendPair DEF p
<1> HIDE DEF t
<1>6. \A x : Occurs(x, t) => BinOf(x.key, n) = b
  BY <1>3, <1>4, <1>5
<1>7. ASSUME NEW j \in Keys, NEW w \in Values
      PROVE  Occurs(Pair(j, w), t) <=> IF j = k THEN w = v ELSE Occurs(Pair(j, w), s)
  <2>1. ~Occurs(Pair(k, w), s)
    BY <1>3, PairFields DEF Occurs
  <2>2. Pair(j, w).key = j /\ Pair(j, w).value = w /\ Pair(k, v).key = k /\ Pair(k, v).value = v
    BY PairFields
  <2> HIDE DEF s
  <2>3. CASE j = k
    BY <1>5, <2>1, <2>2, <2>3
  <2>4. CASE j # k
    BY <1>5, <2>2, <2>4
  <2> QED
    BY <2>3, <2>4
<1>8. Placed(added, n) /\ Changed(bins, n, added, n, k, v)
  <2> HIDE DEF n, s
  <2>1. \A j \in Keys, w \in Values :
          Occurs(Pair(j, w), t) <=> IF j = k THEN w = v ELSE Occurs(Pair(j, w), bins[BinOf(k, n)])
    BY <1>7 DEF s
  <2> QED
    BY <1>1, <1>5, <1>6, <2>1, OneBinChanges
<1>9. n \in Nat \ {0} /\ n + Growth \in Nat \ {0} /\ Growth \in Nat /\ Growth >= 2
  BY <1>1, KeyAssumption DEF Placed
<1> HIDE DEF added
<1>10. CASE Overloaded(count', n)
  <2>1. bins' = Rehashed(added, n + Growth)
    BY <1>2, <1>10
  <2>2. /\ Placed(bins', n + Growth)
        /\ \A j \in Keys, w \in Values :
             Has(bins', n + Growth, j, w) <=> Has(added, n, j, w)
    BY <1>8, <1>9, <2>1, RehashKeeps
  <2>3. BinCount' = n + Growth
    BY <2>2, CountOfBins DEF BinCount
  <2>4. Changed(bins, n, bins', n + Growth, k, v)
    BY <1>8, <2>2 DEF Changed
  <2>5. count \in Nat => ~Overloaded(count', n + Growth)
    <3> HIDE DEF n
    <3> QED
      BY <1>1, <1>2, <1>9 DEF Overloaded
  <2> QED
    BY <1>2, <2>2, <2>3, <2>4, <2>5
<1>11. CASE ~Overloaded(count', n)
  <2>1. bins' = added
    BY <1>2, <1>11
  <2>2. BinCount' = n
    BY <1>8, <2>1, CountOfBins DEF BinCount
  <2> QED
    BY <1>2, <1>8, <1>11, <2>1, <2>2
<1> QED
  BY <1>10, <1>11

LEMMA RemoveKeeps ==
  ASSUME DictIInv, NEW k \in Keys, DictGet(k) # NoValue, DictRemove(k)
  PROVE  /\ Placed(bins', BinCount') /\ BinCount' = BinCount
         /\ Changed(bins, BinCount, bins', BinCount', k, NoValue)
<1> DEFINE n == BinCount
           b == BinOf(k, n)
           s == bins[b]
           at == PositionOf(k, s)
           t == RemoveAt(s, at)
<1>1. Placed(bins, n)
  BY DEF DictIInv
<1>2. bins' = [bins EXCEPT ![b] = t]
  BY DEF DictRemove, Bin
<1>3. /\ s \in Seq(Pairs) /\ Unrepeated(s) /\ at \in 1 .. Len(s) /\ s[at].key = k
      /\ \A x : Occurs(x, s) => BinOf(x.key, n) = b
  <2> HIDE DEF n
  <2> QED
    BY <1>1, BinAtHand DEF DictGet, Bin, n
<1>4. /\ t \in Seq(Pairs) /\ Unrepeated(t)
      /\ \A x : Occurs(x, t) <=> Occurs(x, s) /\ x # s[at]
  <2> HIDE DEF s, at
  <2> QED
    BY <1>3, RemovePair
<1> HIDE DEF t
<1>5. \A x : Occurs(x, t) => BinOf(x.key, n) = b
  BY <1>3, <1>4
<1>6. ASSUME NEW j \in Keys, NEW w \in Values
      PROVE  Occurs(Pair(j, w), t) <=> IF j = k THEN w = NoValue ELSE Occurs(Pair(j, w), s)
  <2>1. Occurs(Pair(k, w), s) => Pair(k, w) = s[at]
    BY <1>3, PairFields DEF Occurs, Unrepeated
  <2>2. Pair(j, w).key = j /\ w # NoValue
    BY PairFields, KeyAssumption
  <2> HIDE DEF s, at
  <2>3. CASE j = k
    BY <1>4, <2>1, <2>2, <2>3
  <2>4. CASE j # k
    BY <1>3, <1>4, <2>2, <2>4
  <2> QED
    BY <2>3, <2>4
<1>7. Placed(bins', n) /\ Changed(bins, n, bins', n, k, NoValue)
  <2> HIDE DEF n, s
  <2>1. \A j \in Keys, w \in Values :
          Occurs(Pair(j, w), t) <=>
            IF j = k THEN w = NoValue ELSE Occurs(Pair(j, w), bins[BinOf(k, n)])
    BY <1>6 DEF s
  <2>2. /\ Placed([bins EXCEPT ![b] = t], n)
        /\ Changed(bins, n, [bins EXCEPT ![b] = t], n, k, NoValue)
    BY <1>1, <1>4, <1>5, <2>1, OneBinChanges
  <2> QED
    BY <1>2, <2>2
<1>8. BinCount' = n
  BY <1>7, CountOfBins DEF BinCount
<1> QED
  BY <1>7, <1>8

-----------------------------------------------------------------------------
(* A dictionary: its invariant and its map                                   *)

\* Only k's value changes, also as dict_get sees it.
LEMMA GetChanges ==
  ASSUME NEW bs, NEW m, Placed(bs, m), NEW new, NEW n, Placed(new, n),
         NEW k \in Keys, NEW v \in Values \cup {NoValue}, Changed(bs, m, new, n, k, v)
  PROVE  \A j \in Keys :
           ValueIn(new[BinOf(j, n)], j) = IF j = k THEN v ELSE ValueIn(bs[BinOf(j, m)], j)
<1> TAKE j \in Keys
<1> DEFINE before == ValueIn(bs[BinOf(j, m)], j)
           after == ValueIn(new[BinOf(j, n)], j)
<1>1. before \in Values \cup {NoValue} /\ \A w \in Values : before = w <=> Has(bs, m, j, w)
  BY GetFinds
<1>2. after \in Values \cup {NoValue} /\ \A w \in Values : after = w <=> Has(new, n, j, w)
  BY GetFinds
<1>3. \A w \in Values : Has(new, n, j, w) <=> IF j = k THEN w = v ELSE Has(bs, m, j, w)
  BY DEF Changed
<1> HIDE DEF before, after
<1>4. j = k => after = v
  BY <1>2, <1>3, KeyAssumption
<1>5. j # k => after = before
  BY <1>1, <1>2, <1>3, KeyAssumption
<1> QED
  BY <1>4, <1>5 DEF before, after

LEMMA GetType ==
  ASSUME DictIInv, NEW k \in Keys
  PROVE  DictGet(k) \in Values \cup {NoValue}
<1> DEFINE n == BinCount
<1>1. Placed(bins, n)
  BY DEF DictIInv
<1> HIDE DEF n
<1>2. ValueIn(bins[BinOf(k, n)], k) \in Values \cup {NoValue}
  BY <1>1, GetFinds
<1> QED
  BY <1>2 DEF DictGet, Bin, n

\* What is found under the keys when only k's value changes.
LEMMA FoundChanges ==
  ASSUME Placed(bins, BinCount), Placed(bins', BinCount'),
         NEW k \in Keys, NEW v \in Values \cup {NoValue},
         Changed(bins, BinCount, bins', BinCount', k, v)
  PROVE  \A j \in Keys : DictGet(j)' = IF j = k THEN v ELSE DictGet(j)
<1> DEFINE m == BinCount
           n == BinCount'
           new == bins'
<1>1. Placed(bins, m) /\ Placed(new, n) /\ Changed(bins, m, new, n, k, v)
  OBVIOUS
<1> HIDE DEF m, n, new
<1>2. \A j \in Keys :
        ValueIn(new[BinOf(j, n)], j) = IF j = k THEN v ELSE ValueIn(bins[BinOf(j, m)], j)
  BY <1>1, GetChanges
<1> QED
  BY <1>2 DEF DictGet, Bin, m, n, new

LEMMA PutKeeps ==
  ASSUME DictIInv, NEW k \in Keys, NEW v \in Values, DictPut(k, v)
  PROVE  DictIInv' /\ Map!Put(k, v)
<1>1. /\ Placed(bins, BinCount) /\ IsFiniteSet(Held) /\ count = Cardinality(Held)
      /\ ~Overloaded(count, BinCount)
  BY DEF DictIInv
<1>2. count \in Nat
  BY <1>1, FS_CardinalityType
<1>3. /\ Placed(bins', BinCount') /\ Changed(bins, BinCount, bins', BinCount', k, v)
      /\ count' = IF DictGet(k) = NoValue THEN count + 1 ELSE count
      /\ ~Overloaded(count', BinCount')
  <2>1. CASE Replace(k, v)
    <3>1. DictGet(k) # NoValue /\ count' = count
      BY <2>1 DEF Replace
    <3> QED
      BY <1>1, <2>1, <3>1, ReplaceKeeps
  <2>2. CASE Insert(k, v)
    <3>1. DictGet(k) = NoValue
      BY <2>2 DEF Insert
    <3> QED
      BY <1>2, <2>2, <3>1, InsertKeeps
  <2> QED
    BY <2>1, <2>2 DEF DictPut
<1>4. \A j \in Keys : DictGet(j)' = IF j = k THEN v ELSE DictGet(j)
  BY <1>1, <1>3, FoundChanges
<1>5. Held' = Held \cup {k}
  BY <1>4, KeyAssumption DEF Held
<1>6. IsFiniteSet(Held') /\ count' = Cardinality(Held')
  <2>1. k \in Held <=> DictGet(k) # NoValue
    BY DEF Held
  <2> QED
    BY <1>1, <1>3, <1>5, <2>1, FS_AddElement
<1>7. Map!Put(k, v)
  <2>1. answer' = NoValue
    BY DEF DictPut
  <2>2. [j \in Keys |-> DictGet(j)]' = [[j \in Keys |-> DictGet(j)] EXCEPT ![k] = v]
    BY <1>4
  <2> QED
    BY <2>1, <2>2 DEF Map!Put
<1> QED
  BY <1>3, <1>6, <1>7 DEF DictIInv

LEMMA DictRemoveKeeps ==
  ASSUME DictIInv, NEW k \in Keys, DictRemove(k)
  PROVE  DictIInv' /\ Map!Remove(k)
<1>1. /\ Placed(bins, BinCount) /\ IsFiniteSet(Held) /\ count = Cardinality(Held)
      /\ ~Overloaded(count, BinCount)
  BY DEF DictIInv
<1>2. count \in Nat
  BY <1>1, FS_CardinalityType
<1>3. k \in Held <=> DictGet(k) # NoValue
  BY DEF Held
<1>4. answer' = DictGet(k)
  BY DEF DictRemove
<1>5. CASE DictGet(k) = NoValue
  <2>1. bins' = bins /\ count' = count
    BY <1>5 DEF DictRemove
  <2>2. BinCount' = BinCount /\ Held' = Held /\ \A j \in Keys : DictGet(j)' = DictGet(j)
    BY <2>1 DEF BinCount, Held, DictGet, Bin
  <2>3. DictIInv'
    BY <1>1, <2>1, <2>2 DEF DictIInv
  <2>4. [j \in Keys |-> DictGet(j)]' = [[j \in Keys |-> DictGet(j)] EXCEPT ![k] = NoValue]
    BY <1>5, <2>2
  <2> QED
    BY <1>4, <2>3, <2>4 DEF Map!Remove
<1>6. CASE DictGet(k) # NoValue
  <2>1. /\ Placed(bins', BinCount') /\ BinCount' = BinCount
        /\ Changed(bins, BinCount, bins', BinCount', k, NoValue)
    BY <1>6, RemoveKeeps
  <2>2. count' = count - 1
    BY <1>6 DEF DictRemove
  <2>3. \A j \in Keys : DictGet(j)' = IF j = k THEN NoValue ELSE DictGet(j)
    BY <1>1, <2>1, FoundChanges
  <2>4. Held' = Held \ {k}
    BY <2>3 DEF Held
  <2>5. IsFiniteSet(Held') /\ count' = Cardinality(Held')
    BY <1>1, <1>3, <1>6, <2>2, <2>4, FS_RemoveElement
  <2>6. ~Overloaded(count', BinCount')
    <3>1. BinCount \in Nat
      BY <1>1 DEF Placed
    <3> QED
      BY <1>1, <1>2, <2>1, <2>2, <3>1 DEF Overloaded
  <2>7. [j \in Keys |-> DictGet(j)]' = [[j \in Keys |-> DictGet(j)] EXCEPT ![k] = NoValue]
    BY <2>3
  <2> QED
    BY <1>4, <2>1, <2>5, <2>6, <2>7 DEF DictIInv, Map!Remove
<1> QED
  BY <1>5, <1>6

\* create_dict.
LEMMA DictBegins ==
  ASSUME DictInit
  PROVE  DictIInv /\ Map!Init
<1>1. /\ bins = [b \in 0 .. InitialBins - 1 |-> <<>>] /\ count = 0 /\ answer = NoValue
      /\ InitialBins \in Nat \ {0}
  BY KeyAssumption DEF DictInit
<1>2. Placed(bins, InitialBins)
  <2>1. bins \in [0 .. InitialBins - 1 -> Seq(Pairs)]
    BY <1>1
  <2>2. \A b \in 0 .. InitialBins - 1 : Len(bins[b]) = 0
    BY <1>1
  <2> QED
    BY <1>1, <2>1, <2>2 DEF Placed, Unrepeated
<1>3. BinCount = InitialBins
  BY <1>2, CountOfBins DEF BinCount
<1>4. ASSUME NEW k \in Keys
      PROVE  DictGet(k) = NoValue
  <2>1. Bin(k) \in 0 .. InitialBins - 1
    BY <1>1, <1>3, BinInRange DEF Bin
  <2> DEFINE s == bins[Bin(k)]
  <2>2. s \in Seq(Pairs) /\ 1 .. Len(s) = {}
    BY <1>1, <2>1
  <2> HIDE DEF s
  <2>3. PositionOf(k, s) = 0
    BY <2>2, PositionFinds
  <2> QED
    BY <2>3 DEF DictGet, ValueIn, s
<1>5. IsFiniteSet(Held) /\ Cardinality(Held) = 0
  BY <1>4, Held = {}, FS_EmptySet DEF Held
<1>6. ~Overloaded(count, BinCount)
  BY <1>1, <1>3 DEF Overloaded
<1>7. Map!Init
  BY <1>1, <1>4 DEF Map!Init
<1> QED
  BY <1>1, <1>2, <1>3, <1>5, <1>6, <1>7 DEF DictIInv

LEMMA DictStep ==
  ASSUME DictIInv, [DictNext]_dictVars
  PROVE  DictIInv' /\ [Map!Next]_<<[k \in Keys |-> DictGet(k)], answer>>
<1>1. CASE DictNext
  <2>1. PICK k \in Keys : DictRemove(k) \/ \E v \in Values : DictPut(k, v)
    BY <1>1 DEF DictNext
  <2>2. CASE DictRemove(k)
    BY <2>2, DictRemoveKeeps DEF Map!Next
  <2>3. CASE \E v \in Values : DictPut(k, v)
    <3>1. PICK v \in Values : DictPut(k, v)
      BY <2>3
    <3>2. DictIInv' /\ Map!Put(k, v)
      BY <3>1, PutKeeps
    <3> QED
      BY <3>2 DEF Map!Next
  <2> QED
    BY <2>1, <2>2, <2>3
<1>2. CASE UNCHANGED dictVars
  <2>1. bins' = bins /\ count' = count /\ answer' = answer
    BY <1>2 DEF dictVars
  <2>2. BinCount' = BinCount /\ \A k \in Keys : DictGet(k)' = DictGet(k)
    BY <2>1 DEF BinCount, DictGet, Bin
  <2>3. Held' = Held
    BY <2>2 DEF Held
  <2>4. [k \in Keys |-> DictGet(k)]' = [k \in Keys |-> DictGet(k)]
    BY <2>2
  <2>5. DictIInv'
    BY <2>1, <2>2, <2>3 DEF DictIInv
  <2> QED
    BY <2>1, <2>4, <2>5
<1> QED
  BY <1>1, <1>2

LEMMA AlwaysDictIInv == DictSpec => []DictIInv
<1>1. DictInit => DictIInv
  BY DictBegins
<1>2. DictIInv /\ [DictNext]_dictVars => DictIInv'
  BY DictStep
<1> QED
  BY <1>1, <1>2, PTL DEF DictSpec

\* For any keys and values, any hash function and any number of bins: dict_get
\* sees a map, of which dict_put changes one value and dict_remove takes one away,
\* also when the pairs move into other bins (dict.c 44-121).
THEOREM DictImplementsMap == DictSpec => DictIsMap
<1>1. DictInit => Map!Init
  BY DictBegins
<1>2. DictIInv /\ [DictNext]_dictVars => [Map!Next]_<<[k \in Keys |-> DictGet(k)], answer>>
  BY DictStep
<1> QED
  BY <1>1, <1>2, AlwaysDictIInv, PTL DEF DictSpec, DictIsMap, Map!Spec

\* Each key that something is found under has one pair, in its place.
LEMMA PlacesAreHeld ==
  ASSUME DictIInv
  PROVE  ExistsBijection(Held, Places)
<1> DEFINE n == BinCount
           placeOf == [k \in Held |-> <<Bin(k), PositionOf(k, bins[Bin(k)])>>]
<1>1. Placed(bins, n)
  BY DEF DictIInv
<1>2. \A k \in Keys : DictGet(k) = ValueIn(bins[BinOf(k, n)], k) /\ Bin(k) = BinOf(k, n)
  BY DEF DictGet, Bin
<1> HIDE DEF n
<1>3. /\ DOMAIN bins = 0 .. n - 1 /\ n \in Nat \ {0}
      /\ \A b \in 0 .. n - 1 : bins[b] \in Seq(Pairs) /\ Unrepeated(bins[b])
      /\ \A b \in 0 .. n - 1 : DOMAIN bins[b] = 1 .. Len(bins[b])
      /\ \A b \in 0 .. n - 1 : \A i \in 1 .. Len(bins[b]) : BinOf(bins[b][i].key, n) = b
  BY <1>1 DEF Placed
<1>4. ASSUME NEW k \in Held
      PROVE  /\ k \in Keys /\ Bin(k) \in 0 .. n - 1
             /\ PositionOf(k, bins[Bin(k)]) \in 1 .. Len(bins[Bin(k)])
             /\ bins[Bin(k)][PositionOf(k, bins[Bin(k)])].key = k
  <2>1. k \in Keys /\ ValueIn(bins[BinOf(k, n)], k) # NoValue
    BY <1>2 DEF Held
  <2>2. Bin(k) \in 0 .. n - 1
    BY <1>2, <1>3, <2>1, BinInRange
  <2> QED
    BY <1>1, <1>2, <2>1, <2>2, BinAtHand
<1>5. \A b, i : <<b, i>> \in Places <=> b \in 0 .. n - 1 /\ i \in 1 .. Len(bins[b])
  BY <1>3 DEF Places
<1>6. placeOf \in [Held -> Places]
  BY <1>4, <1>5
<1>7. \A k, j \in Held : placeOf[k] = placeOf[j] => k = j
  BY <1>4
<1>8. ASSUME NEW p \in Places
      PROVE  \E k \in Held : placeOf[k] = p
  <2>0. PICK b \in 0 .. n - 1 : \E i \in 1 .. Len(bins[b]) : p = <<b, i>>
    BY <1>3 DEF Places
  <2>1. PICK i \in 1 .. Len(bins[b]) : p = <<b, i>>
    BY <2>0
  <2> DEFINE k == bins[b][i].key
             v == bins[b][i].value
  <2>2. bins[b][i] \in Pairs
    BY <1>3
  <2>3. k \in Keys /\ v \in Values /\ bins[b][i] = Pair(k, v)
    BY <2>2, PairFields
  <2>4. BinOf(k, n) = b /\ Occurs(bins[b][i], bins[b])
    BY <1>3 DEF Occurs
  <2> HIDE DEF k, v
  <2>5. Has(bins, n, k, v)
    BY <2>3, <2>4 DEF Has
  <2>6. ValueIn(bins[BinOf(k, n)], k) = v
    BY <1>1, <2>3, <2>5, GetFinds
  <2>7. k \in Held
    BY <1>2, <2>3, <2>6, KeyAssumption DEF Held
  <2>8. Bin(k) = b
    BY <1>2, <2>3, <2>4
  <2>9. PositionOf(k, bins[b]) \in 1 .. Len(bins[b]) /\ bins[b][PositionOf(k, bins[b])].key = k
    BY <1>4, <2>7, <2>8
  <2>10. PositionOf(k, bins[b]) = i
    BY <1>3, <2>9 DEF Unrepeated, k
  <2> QED
    BY <2>1, <2>7, <2>8, <2>10
<1> HIDE DEF placeOf
<1>9. placeOf \in Bijection(Held, Places)
  BY <1>6, <1>7, <1>8 DEF Bijection, Injection, IsInjective, Surjection
<1> QED
  BY <1>9 DEF ExistsBijection

\* For any keys and any hash function, however long pairs are put and removed:
\* the count is the number of pairs, and each pair is where dict_get looks
\* (dict.c 39-86).
THEOREM DictWellFormed == DictSpec => []WellFormed
<1>1. ASSUME DictIInv
      PROVE  WellFormed
  <2>1. count = Cardinality(Places)
    BY <1>1, PlacesAreHeld, FS_Bijection DEF DictIInv
  <2>2. Placed(bins, BinCount) /\ ~Overloaded(count, BinCount)
    BY <1>1 DEF DictIInv
  <2>3. \A b \in DOMAIN bins :
          /\ DOMAIN bins[b] = 1 .. Len(bins[b]) /\ Unrepeated(bins[b])
          /\ \A i \in 1 .. Len(bins[b]) : BinOf(bins[b][i].key, BinCount) = b
    BY <2>2 DEF Placed
  <2> QED
    BY <2>1, <2>2, <2>3 DEF WellFormed, Bin, Unrepeated
<1>2. DictIInv => WellFormed
  BY <1>1
<1> QED
  BY <1>2, AlwaysDictIInv, PTL
=============================================================================

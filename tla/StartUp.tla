------------------------------- MODULE StartUp -------------------------------
(***************************************************************************)
(* What main (src/main.c) does before the telnet server listens: the four  *)
(* statements of create_tables, each over a connection of its own          *)
(* (src/io/sqlite_wrapper.c), the tables of the encoder and of the command *)
(* handlers, and the two queries for the seed player                       *)
(* (src/entities/player.c), whose rows a callback gathers in a list.       *)
(*                                                                         *)
(* The process may end anywhere, by itself or not, and be started again;   *)
(* the database file keeps what its statements wrote, each whole or not at *)
(* all.  No statement of the program inserts a player (create_player has   *)
(* no caller), so the seed player comes and goes by other hands.           *)
(***************************************************************************)
EXTENDS Integers, Sequences, Progress

CONSTANTS
  Tables,        \* what create_tables creates, in order
  Commands,      \* what setup_commands registers
  Rows,          \* the rows the seed player may have in the table
  AbortReturns,  \* of the callback, which ends without a return statement: FALSE
                 \*   if it may return 0, TRUE if what makes sqlite abort
  MaxFaults,     \* bound: ends of the process before its server listens
  MaxEdits       \* bound: changes of the seed player's row by others

\* A row of which only the pid was asked for, the player_t of a player that was
\* not found, and no row at all.
PidOnly == [username |-> "unset", password |-> "unset"]
NotFound == [username |-> "null", password |-> "null"]
NoRow == [username |-> "none", password |-> "none"]

ASSUME StartAssumption ==
  /\ Tables \in Seq(STRING) /\ Len(Tables) > 0
  /\ AbortReturns \subseteq BOOLEAN /\ AbortReturns # {}
  /\ Rows \cap {PidOnly, NotFound, NoRow} = {}
  /\ MaxFaults \in Nat /\ MaxEdits \in Nat

VARIABLES
  pc,         \* the call of main that is next, "serve", or "ended"
  open,       \* db is open and db_lock held
  next,       \* which table comes next
  encoder,    \* the tables of the encoder are set
  mapped,     \* command_handler_map is made
  handlers,   \* its keys
  responses,  \* sql_responses
  printed,    \* the player main has printed, if any
  tables,     \* in the database: its tables
  player,     \*   and the seed player's row
  faults,     \* ends of the process so far
  edits,      \* changes of the row so far
  changed     \* history: the row was changed since player_exists looked

volatile == <<next, encoder, mapped, handlers, responses, printed>>
database == <<tables, player>>
history == <<faults, edits, changed>>
vars == <<pc, open, volatile, database, history>>

\* The database may hold what earlier runs of the program left in it.
Init ==
  /\ pc = "tables" /\ open = FALSE /\ next = 1 /\ encoder = FALSE
  /\ mapped = FALSE /\ handlers = {} /\ responses = <<>> /\ printed = NoRow
  /\ \E n \in 0 .. Len(Tables) : tables = {Tables[i] : i \in 1 .. n}
  /\ player = NoRow /\ faults = 0 /\ edits = 0 /\ changed = FALSE

-----------------------------------------------------------------------------
(* sqlite_wrapper.c                                                          *)

AtStatement == pc \in {"tables", "exists", "retrieve"}

Open ==
  /\ AtStatement /\ ~open
  /\ open' = TRUE
  /\ UNCHANGED <<pc, volatile, database, history>>

\* Variant: a table that exists is an error.
CreateTableAnew ==
  /\ pc = "tables" /\ open /\ open' = FALSE
  /\ IF Tables[next] \in tables THEN pc' = "ended" /\ UNCHANGED <<tables, next>>
     ELSE /\ tables' = tables \cup {Tables[next]} /\ next' = next + 1
          /\ pc' = IF next = Len(Tables) THEN "encoder" ELSE "tables"
  /\ UNCHANGED <<encoder, mapped, handlers, responses, printed, player, history>>

CreateTable ==
  /\ pc = "tables" /\ open
  /\ tables' = tables \cup {Tables[next]}
  /\ next' = next + 1
  /\ pc' = IF next = Len(Tables) THEN "encoder" ELSE "tables"
  /\ open' = FALSE
  /\ UNCHANGED <<encoder, mapped, handlers, responses, printed, player, history>>

\* The database cannot be opened, or a statement fails: the process exits with 1,
\* and with it go the lock and the connection.
Fault ==
  /\ faults < MaxFaults /\ faults' = faults + 1
  /\ pc' = "ended" /\ open' = FALSE

\* Variant: a failure in create_tables is a warning.
DatabaseFailsWarns ==
  /\ pc = "tables" /\ faults < MaxFaults /\ faults' = faults + 1
  /\ pc' = IF next = Len(Tables) THEN "encoder" ELSE "tables"
  /\ open' = FALSE /\ next' = next + 1
  /\ UNCHANGED <<encoder, mapped, handlers, responses, printed, database, edits, changed>>

DatabaseFails ==
  /\ AtStatement /\ Fault
  /\ UNCHANGED <<volatile, database, edits, changed>>

-----------------------------------------------------------------------------
(* The tables in memory                                                      *)

InitEncoder ==
  /\ pc = "encoder"
  /\ encoder' = TRUE /\ pc' = "map"
  /\ UNCHANGED <<open, next, mapped, handlers, responses, printed, database, history>>

SetupHandlerMap ==
  /\ pc = "map"
  /\ mapped' = TRUE /\ handlers' = {} /\ pc' = "commands"
  /\ UNCHANGED <<open, next, encoder, responses, printed, database, history>>

\* dict_put needs the dictionary and its lock.
SetupCommands ==
  /\ pc = "commands" /\ mapped
  /\ handlers' = handlers \cup Commands /\ pc' = "ask"
  /\ UNCHANGED <<open, next, encoder, mapped, responses, printed, database, history>>

-----------------------------------------------------------------------------
(* player.c                                                                  *)

\* player_exists, up to its statement.
AskExists ==
  /\ pc = "ask"
  /\ responses' = <<>> /\ pc' = "exists"
  /\ UNCHANGED <<open, next, encoder, mapped, handlers, printed, database, history>>

\* The callback appends what the row has of a player_t; its return value makes
\* sqlite go on, or fail, which ends the process as any other error does.
Callback(row, answered) ==
  /\ responses' = Append(responses, row)
  /\ \/ FALSE \in AbortReturns /\ pc' = answered /\ open' = FALSE /\ faults' = faults
     \/ TRUE \in AbortReturns /\ Fault

SelectPid ==
  /\ pc = "exists" /\ open
  /\ IF player # NoRow THEN Callback(PidOnly, "asked")
     ELSE pc' = "asked" /\ open' = FALSE /\ UNCHANGED <<responses, faults>>
  /\ changed' = FALSE
  /\ UNCHANGED <<next, encoder, mapped, handlers, printed, database, edits>>

\* Variant: the test for a player is missing.
MissingRetrieves ==
  /\ pc = "asked" /\ responses = <<>>
  /\ pc' = "retrieve"
  /\ UNCHANGED <<open, volatile, database, history>>

Missing ==
  /\ pc = "asked" /\ responses = <<>>
  /\ pc' = "serve"
  /\ UNCHANGED <<open, volatile, database, history>>

\* Variant: the list keeps the rows of the query before.
ExistsKeepsResponses ==
  /\ pc = "asked" /\ responses # <<>>
  /\ pc' = "retrieve"
  /\ UNCHANGED <<open, volatile, database, history>>

\* retrieve_player, up to its statement.
Exists ==
  /\ pc = "asked" /\ responses # <<>>
  /\ responses' = <<>> /\ pc' = "retrieve"
  /\ UNCHANGED <<open, next, encoder, mapped, handlers, printed, database, history>>

SelectAll ==
  /\ pc = "retrieve" /\ open
  /\ IF player # NoRow THEN Callback(player, "print")
     ELSE pc' = "print" /\ open' = FALSE /\ UNCHANGED <<responses, faults>>
  /\ UNCHANGED <<next, encoder, mapped, handlers, printed, database, edits, changed>>

PrintPlayer ==
  /\ pc = "print"
  /\ printed' = IF responses = <<>> THEN NotFound ELSE responses[1]
  /\ pc' = "serve"
  /\ UNCHANGED <<open, next, encoder, mapped, handlers, responses, database, history>>

-----------------------------------------------------------------------------
(* The world outside                                                         *)

\* Out of memory, a signal, the machine: anywhere, also while it serves.
Crash ==
  /\ pc # "ended" /\ Fault
  /\ UNCHANGED <<volatile, database, edits, changed>>

Restart ==
  /\ pc = "ended"
  /\ pc' = "tables" /\ next' = 1 /\ encoder' = FALSE /\ mapped' = FALSE
  /\ handlers' = {} /\ responses' = <<>> /\ printed' = NoRow
  /\ UNCHANGED <<open, database, history>>

\* Someone adds, changes or removes the seed player with another program.
EditPlayer ==
  /\ "players" \in tables /\ edits < MaxEdits
  /\ player' \in Rows \cup {NoRow} /\ player' # player
  /\ edits' = edits + 1 /\ changed' = TRUE
  /\ UNCHANGED <<pc, open, volatile, tables, faults>>

Serving == pc = "serve" /\ UNCHANGED vars

Main == \/ Open \/ CreateTable \/ InitEncoder \/ SetupHandlerMap \/ SetupCommands
        \/ AskExists \/ SelectPid \/ Missing \/ Exists \/ SelectAll \/ PrintPlayer

Next == Main \/ DatabaseFails \/ Crash \/ Restart \/ EditPlayer \/ Serving

Spec == Init /\ [][Next]_vars

\* The process runs, and whoever runs it starts it again.
FairSpec == Spec /\ WF_vars(Main) /\ WF_vars(Restart)

-----------------------------------------------------------------------------
(* Properties *)

TypeOK ==
  /\ pc \in {"tables", "encoder", "map", "commands", "ask", "exists", "asked",
             "retrieve", "print", "serve", "ended"}
  /\ open \in BOOLEAN /\ encoder \in BOOLEAN /\ mapped \in BOOLEAN /\ changed \in BOOLEAN
  /\ next \in 1 .. Len(Tables) + 1 /\ handlers \subseteq Commands
  /\ responses \in Seq(Rows \cup {PidOnly})
  /\ printed \in Rows \cup {PidOnly, NotFound, NoRow}
  /\ tables \subseteq {Tables[i] : i \in DOMAIN Tables}
  /\ player \in Rows \cup {NoRow}
  /\ faults \in 0 .. MaxFaults /\ edits \in 0 .. MaxEdits

\* When a connection can come, every table exists that a statement names, and
\* every word of a peer finds its handler and the encoder its table, however often
\* the process was stopped in the middle of setting them up, in this run or an
\* earlier one (main.c 23-30, sqlite_wrapper.c 57-62).
SetUp == /\ \A i \in DOMAIN Tables : Tables[i] \in tables
         /\ encoder /\ handlers = Commands
ServedWhenSetUp == pc = "serve" => SetUp

\* The player that main prints is the row in the table, all its members set, and
\* not the player_t of the first query, of which malloc set two; a row that was
\* changed between the queries may be printed as it was, or be found no more,
\* which prints NULLs (main.c 34-40, player.c 14-48, 64-99).
PrintedIsWhole ==
  printed # NoRow =>
    /\ printed \in Rows \cup {NotFound}
    /\ ~changed => printed = player

\* After the last fault the server listens: a start that was broken off anywhere
\* can be repeated on what it left in the database (sqlite_wrapper.c 13-62).
ServesInTheEnd == <>[](pc = "serve")

\* What is left to do until the server listens: faults that may still come, calls of
\* main, and of create_tables the tables.
CallsLeft ==
  CASE pc = "ended" -> 10 [] pc = "tables" -> 9 [] pc = "encoder" -> 8 [] pc = "map" -> 7
    [] pc = "commands" -> 6 [] pc = "ask" -> 5 [] pc = "exists" -> 4 [] pc = "asked" -> 3
    [] pc = "retrieve" -> 2 [] pc = "print" -> 1 [] OTHER -> 0
FaultsLeft == MaxFaults - faults
TablesLeft == Len(Tables) + 1 - next
ToOpen == IF open THEN 0 ELSE 1
ToDo == <<FaultsLeft, CallsLeft, TablesLeft, ToOpen>>

\* Why: each step of a start leaves less to do, whatever the tables and the rows are
\* that it finds; only a fault makes it begin again, and nobody who changes the row
\* makes it longer (main.c 21-43, player.c 14-99).
StartRunsOut ==
  [][Below(ToDo', ToDo) \/ (EditPlayer /\ ToDo' = ToDo)]_vars

-----------------------------------------------------------------------------
(* The invariant of the proofs                                               *)

TablesInOrder == pc # "ended" => \A i \in 1 .. next - 1 : Tables[i] \in tables

StepsInOrder ==
  /\ pc \notin {"tables", "ended"} => next = Len(Tables) + 1
  /\ pc = "tables" => next <= Len(Tables)
  /\ pc \notin {"tables", "ended", "encoder"} => encoder
  /\ pc \notin {"tables", "ended", "encoder", "map", "commands"} => handlers = Commands

ResponsesAreOfTheQuery ==
  /\ pc \in {"tables", "exists", "retrieve"} => responses = <<>>
  /\ pc = "retrieve" \/ (pc = "asked" /\ responses # <<>>) =>
       changed \/ player # NoRow
  /\ pc = "print" =>
       /\ \A i \in DOMAIN responses : responses[i] \in Rows
       /\ ~changed => responses = <<player>>
  /\ pc \notin {"serve", "ended"} => printed = NoRow

IInv == /\ TypeOK /\ TablesInOrder /\ StepsInOrder /\ ResponsesAreOfTheQuery
        /\ ServedWhenSetUp /\ PrintedIsWhole
=============================================================================

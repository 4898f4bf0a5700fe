---------------------------- MODULE ReadHandler ----------------------------
(***************************************************************************)
(* One client connection from the bytes it sends to the commands that are  *)
(* executed: rchkHandleReadEvent with the parser rchkProcessQueryBuffer,   *)
(* and the handover to the write handler and back.                         *)
(*                                                                         *)
(* The client may send the next command before the last one is answered,   *)
(* and the network cuts its bytes into reads wherever it likes.  The bytes *)
(* of a request are characters, CR and LF among them.  What a command does *)
(* and how its answer is written is in other modules: here it is appended  *)
(* to the log of executed commands, and a write delivers all answers.      *)
(*                                                                         *)
(* The handler keeps its place in a read of two requests, not of three.    *)
(* The history variable crowded tells the executions in which a client     *)
(* has had more than two requests under way.                               *)
(***************************************************************************)
EXTENDS Integers, SequencesExt

CONSTANTS
  Commands,      \* the sets of requests the client may send first, second ...;
                 \* a request is a sequence of arguments
  Names,         \* names in the table of commands
  MaxInFlight,   \* requests the client sends ahead of the answers
  MaxArgs,       \* arguments of a client structure: 512
  BufferSize     \* bytes of a query buffer

VARIABLES
  sent,       \* client: the requests sent so far
  net,        \* bytes sent and not yet read
  answered,   \* number of answers the client has got
  crowded,    \* history: more than two requests were unanswered at a time
  at,         \* where the server is: "wait", "parse", "parsed", "write", "exited"
  queryBuff, queryBuffPos, idx,         \* query buffer, queryBuffPos, loop index
  queryParserState, argv, argi, argc,   \* parser state and arguments
  executed    \* the commands executed so far

client == <<sent, net, answered, crowded>>
buffer == <<queryBuff, queryBuffPos>>
args == <<argv, argi, argc>>
vars == <<client, at, buffer, idx, queryParserState, args, executed>>

\* The characters of the numbers in a request: numbers of one digit are enough.
Digits == <<"0", "1", "2", "3", "4", "5", "6", "7", "8", "9">>
Decimal(n) == Digits[n + 1]
Digit == [c \in ToSet(Digits) |-> CHOOSE n \in 0 .. 9 : Decimal(n) = c]

\* A request as protocol/ACSP writes it: an array of binary strings.
EncodedArg(arg) == <<"$", Decimal(Len(arg)), "CR", "LF">> \o arg
Encoded(cmd) ==
  <<"*", Decimal(Len(cmd)), "CR", "LF">> \o
    FlattenSeq([i \in 1 .. Len(cmd) |-> EncodedArg(cmd[i])])

\* The requests of the model, whose arguments fit into a client structure.
Request ==
  {cmd \in Seq(Seq(STRING)) :
     /\ Len(cmd) \in 0 .. 9 /\ Len(cmd) <= MaxArgs
     /\ \A i \in 1 .. Len(cmd) : Len(cmd[i]) \in 0 .. 9}

ASSUME CommandsAssumption == Commands \in Seq(SUBSET Request)
ASSUME BoundsAssumption   == {MaxInFlight, MaxArgs, BufferSize} \subseteq Nat \ {0}

MaxCommands == Len(Commands)    \* bound on the requests sent

NoArg == [size |-> 0, bytes |-> <<>>]
ByteAt == queryBuff[idx + 1]

-----------------------------------------------------------------------------
Init ==
  /\ sent = <<>> /\ net = <<>> /\ answered = 0 /\ crowded = FALSE
  /\ at = "wait"
  /\ queryBuff = <<>> /\ queryBuffPos = 0 /\ idx = 0
  /\ queryParserState = "ARRAY"
  /\ argv = [i \in 0 .. MaxArgs-1 |-> NoArg] /\ argi = 0 /\ argc = 0
  /\ executed = <<>>

Send(cmd) ==
  /\ Len(sent) - answered < MaxInFlight
  /\ sent' = Append(sent, cmd)
  /\ net' = net \o Encoded(cmd)
  /\ crowded' = (crowded \/ Len(sent') - answered > 2)
  /\ UNCHANGED <<answered, at, buffer, idx, queryParserState, args, executed>>

\* rchkHandleReadEvent: a read returns some of the bytes that wait, at most a
\* buffer of them.  The parser starts at queryBuffPos.
Read(n) ==
  /\ at = "wait"
  /\ queryBuff' = SubSeq(net, 1, n)
  /\ net' = SubSeq(net, n + 1, Len(net))
  /\ idx' = queryBuffPos
  /\ at' = "parse"
  /\ UNCHANGED <<sent, answered, crowded, queryBuffPos, queryParserState, args, executed>>

-----------------------------------------------------------------------------
(* rchkProcessQueryBuffer: one action per case of its switch.              *)

Parsing(state) == at = "parse" /\ idx < Len(queryBuff) /\ queryParserState = state
Consume == idx' = idx + 1 /\ UNCHANGED at
Stop == UNCHANGED idx /\ at' = "parsed"

Expect(byte, next) ==
  /\ \/ ByteAt = byte /\ queryParserState' = next /\ Consume
     \/ ByteAt # byte /\ queryParserState' = "ERROR" /\ Stop
  /\ UNCHANGED args

Array == Parsing("ARRAY") /\ Expect("*", "ARRAY_SIZE")

ArraySize ==
  /\ Parsing("ARRAY_SIZE")
  /\ \/ /\ ByteAt = "LF"
        /\ queryParserState' = IF argc > 0 THEN "ELEMENT" ELSE "DONE"
        /\ UNCHANGED argc
     \/ /\ ByteAt \in DOMAIN Digit
        /\ argc' = argc * 10 + Digit[ByteAt]
        /\ UNCHANGED queryParserState
     \/ /\ ByteAt \notin DOMAIN Digit \cup {"LF"}
        /\ UNCHANGED <<argc, queryParserState>>
  /\ Consume
  /\ UNCHANGED <<argv, argi>>

Element == Parsing("ELEMENT") /\ Expect("$", "ELEMENT_SIZE")

ElementSize ==
  /\ Parsing("ELEMENT_SIZE")
  /\ \/ /\ ByteAt = "LF" /\ argv[argi].size > 0
        /\ queryParserState' = "ELEMENT_BYTES"
        /\ UNCHANGED args
     \/ /\ ByteAt = "LF" /\ argv[argi].size = 0
        /\ argi' = argi + 1
        /\ queryParserState' = IF argi + 1 < argc THEN "ELEMENT" ELSE "DONE"
        /\ UNCHANGED <<argv, argc>>
     \/ /\ ByteAt \in DOMAIN Digit
        /\ argv' = [argv EXCEPT ![argi].size = @ * 10 + Digit[ByteAt]]
        /\ UNCHANGED <<argi, argc, queryParserState>>
     \/ /\ ByteAt \notin DOMAIN Digit \cup {"LF"}
        /\ UNCHANGED <<args, queryParserState>>
  /\ Consume

\* A slip: the arguments end with the last but one.
LastArgEarly == argi + 2 >= argc

LastArg == argi + 1 >= argc

\* A slip: the length is compared before the byte is counted.
FilledLate == Len(argv[argi].bytes) = argv[argi].size

Filled == Len(argv[argi].bytes) + 1 = argv[argi].size

ElementBytes ==
  /\ Parsing("ELEMENT_BYTES")
  /\ argv' = [argv EXCEPT ![argi].bytes = Append(@, ByteAt)]
  /\ argi' = IF Filled THEN argi + 1 ELSE argi
  /\ UNCHANGED argc
  /\ \/ ~Filled /\ UNCHANGED queryParserState /\ Consume
     \/ Filled /\ ~LastArg /\ queryParserState' = "ELEMENT" /\ Consume
     \/ Filled /\ LastArg /\ queryParserState' = "DONE" /\ Stop

Done == Parsing("DONE") /\ Stop /\ UNCHANGED <<queryParserState, args>>

\* The default of the switch: the process exits.
UnknownState ==
  /\ Parsing("ERROR")
  /\ at' = "exited"
  /\ UNCHANGED <<idx, queryParserState, args>>

EndOfBuffer ==
  /\ at = "parse" /\ idx = Len(queryBuff)
  /\ at' = "parsed"
  /\ UNCHANGED <<idx, queryParserState, args>>

ProcessQueryBuffer ==
  /\ \/ Array \/ ArraySize \/ Element \/ ElementSize \/ ElementBytes
     \/ Done \/ UnknownState \/ EndOfBuffer
  /\ UNCHANGED <<client, buffer, executed>>

-----------------------------------------------------------------------------
(* rchkHandleReadEvent after each call of the parser                       *)

\* A slip: the byte the parser stopped at is read again.
PositionOfStop == queryBuffPos + idx

\* "queryBuffPos += rchkProcessQueryBuffer": the parser returns idx + 1.
PositionAfter == queryBuffPos + (idx + 1)

\* The bytes of an unfinished command are in argv; the buffer is free.
Incomplete ==
  /\ at = "parsed" /\ queryParserState # "DONE"
  /\ queryBuff' = <<>> /\ queryBuffPos' = 0
  /\ at' = "wait"
  /\ UNCHANGED <<client, idx, queryParserState, args, executed>>

\* rchkClientResetArgv: the arguments that argc counts are freed.
ResetArgv ==
  /\ argv' = [i \in DOMAIN argv |-> IF i < argc THEN NoArg ELSE argv[i]]
  /\ argi' = 0
  /\ argc' = 0

\* A slip: one command is executed for each read.
NoPipelining == FALSE

MoreBytes == PositionAfter < Len(queryBuff)

\* rchkKVStoreGet(server.commands, ...) and the call of what it found.
Execute ==
  /\ argv[0].bytes \in Names
  /\ executed' = Append(executed, [i \in 1 .. argc |-> argv[i-1].bytes])

\* The name is not in the table: the program reads through a null pointer.
UnknownCommand ==
  /\ at = "parsed" /\ queryParserState = "DONE"
  /\ argv[0].bytes \notin Names
  /\ at' = "exited"
  /\ UNCHANGED <<client, buffer, idx, queryParserState, args, executed>>

\* A command is complete and the buffer holds more bytes: the next one is parsed.
NextCommand ==
  /\ at = "parsed" /\ queryParserState = "DONE"
  /\ MoreBytes
  /\ Execute
  /\ queryBuffPos' = PositionAfter
  /\ idx' = PositionAfter
  /\ queryParserState' = "ARRAY"
  /\ ResetArgv
  /\ at' = "parse"
  /\ UNCHANGED <<client, queryBuff>>

\* A slip: the handler returns without registering the write handler.
LastCommandForgotten ==
  /\ at = "parsed" /\ queryParserState = "DONE"
  /\ ~MoreBytes
  /\ Execute
  /\ queryBuffPos' = 0
  /\ queryParserState' = "ARRAY"
  /\ ResetArgv
  /\ at' = "wait"
  /\ UNCHANGED <<client, queryBuff, idx>>

\* A command is complete and the buffer is used up: the write handler takes over.
LastCommand ==
  /\ at = "parsed" /\ queryParserState = "DONE"
  /\ ~MoreBytes
  /\ Execute
  /\ queryBuffPos' = PositionAfter
  /\ at' = "write"
  /\ UNCHANGED <<client, queryBuff, idx, queryParserState, args>>

\* rchkHandleWriteEvent, when everything is written: rchkClientReset, and the
\* read handler takes over again.
Written ==
  /\ at = "write"
  /\ answered' = Len(executed)
  /\ queryBuff' = <<>> /\ queryBuffPos' = 0
  /\ queryParserState' = "ARRAY"
  /\ ResetArgv
  /\ at' = "wait"
  /\ UNCHANGED <<sent, net, crowded, idx, executed>>

Server ==
  \/ \E n \in 1 .. BufferSize : n <= Len(net) /\ Read(n)
  \/ ProcessQueryBuffer
  \/ Incomplete \/ UnknownCommand \/ NextCommand \/ LastCommand \/ Written

Next ==
  \/ Len(sent) < MaxCommands /\ \E cmd \in Commands[Len(sent) + 1] : Send(cmd)
  \/ Server

Spec == Init /\ [][Next]_vars

\* The event loop calls the handler of a ready socket, and TCP delivers.
FairSpec == Spec /\ WF_vars(Server)

-----------------------------------------------------------------------------
\* Until more than two requests have been under way at a time, the parser writes inside
\* the argument it allocated and the array of arguments, and reads inside the buffer.
InBounds ==
  ~crowded =>
    /\ queryParserState \in {"ELEMENT_SIZE", "ELEMENT_BYTES"} => argi < argc /\ argi < MaxArgs
    /\ queryParserState = "ELEMENT_BYTES" => Len(argv[argi].bytes) < argv[argi].size
    /\ at = "parse" => idx <= Len(queryBuff)

\* Requests the handler expects: they have a name, the name is in the table, and the
\* last argument is not empty.  The protocol has others.
Regular(cmd) == cmd # <<>> /\ cmd[1] \in Names /\ Last(cmd) # <<>>
OnlyRegularSent == \A i \in DOMAIN sent : Regular(sent[i])

\* Of a client that never has more than two requests under way, the commands executed
\* are the commands sent, in their order, each once and with its own arguments, however
\* the network cuts the bytes.  That holds for all requests: what is not executed takes
\* everything behind it along.
ExecutedAsSent == ~crowded => IsPrefix(executed, sent)

\* When everything sent has been read and no command is half parsed, every
\* command sent has been executed.
NoByteSkipped ==
  OnlyRegularSent /\ at = "wait" /\ net = <<>> /\ queryParserState = "ARRAY" =>
    executed = sent

\* The parser skips no byte of a regular request until more than two have been under way
\* at a time.
NothingLost == ~crowded => NoByteSkipped

\* Regular requests, at most two of them under way at a time, keep the parser out of
\* its default case and the table of commands from missing a name, wherever the
\* network cuts them.
ServerStaysUp == OnlyRegularSent /\ ~crowded => at # "exited"

\* Between two commands no answer is held back, however many requests a read holds:
\* only the start of another command in the same read delays an answer.
AnsweredBetweenCommands ==
  at = "wait" /\ queryParserState = "ARRAY" => answered = Len(executed)

\* Every regular request is answered, whatever the reads are, of a client that never
\* has more than two under way.
AllAnswered ==
  \A n \in 1 .. MaxCommands :
    Len(sent) >= n ~> answered >= n \/ crowded \/ ~OnlyRegularSent

=============================================================================

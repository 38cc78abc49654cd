----------------------------- MODULE Arguments -----------------------------
(***************************************************************************)
(* What ./client makes of its command line (srcs/client/parser.c): whether *)
(* it goes on, and which process it then signals.                          *)
(***************************************************************************)
EXTENDS Numbers

CONSTANT Processes    \* the pids that kill(pid, 0) finds

ProcessesAssumption == Processes \subseteq 1..INT_MAX

ValidatePidString(str) ==
    /\ str # <<>>
    /\ \A i \in DOMAIN str : str[i] \in 0..9
    /\ Atoi(str) > 0
    /\ Atoi(str) \in Processes

ParseArguments(argc, str, message) ==
    IF argc # 3 THEN "PARSER_INVALID_ARGC"
    ELSE IF ~ValidatePidString(str) THEN "PARSER_INVALID_PID"
    ELSE IF message = "" THEN "PARSER_EMPTY_MESSAGE" ELSE "PARSER_SUCCESS"

(* The server_pid, converted once more, or none when the client exits.     *)
InitData(str) == IF Atoi(str) > 0 THEN Atoi(str) ELSE 0
PrintErrorAndExit == 0

ValidateAndInit(argc, str, message) ==
    /\ call.fn = "none"
    /\ call' = [fn |-> "validate_and_init", argc |-> argc, str |-> str, message |-> message,
                server_pid |-> IF ParseArguments(argc, str, message) = "PARSER_SUCCESS"
                               THEN InitData(str) ELSE PrintErrorAndExit]

StartClient ==
    \E argc \in 2..4, str \in Numerals, message \in {"", "text"} :
        ValidateAndInit(argc, str, message)

----------------------------------------------------------------------------
(* A client that goes on has a message and signals a process that runs,    *)
(* the one it was told unless the numeral does not fit an int: then it is  *)
(* another one, that of the low bits or the greatest.  A client that was   *)
(* given the pid of a process and a message is not turned away.            *)
RightProcess ==
    LET n == Written(call.str)
        pid == call.server_pid
    IN  call.fn = "validate_and_init" =>
            /\ pid # 0 => /\ call.argc = 3 /\ call.message # "" /\ pid \in Processes
                          /\ pid = IF n > LONG_MAX THEN INT_MAX ELSE Wrap(n)
            /\ call.argc = 3 /\ call.message # "" /\ n \in Processes =>
                   pid = n \/ ~\A i \in DOMAIN call.str : call.str[i] \in 0..9
=============================================================================

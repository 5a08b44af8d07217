------------------------------ MODULE Bootloader ------------------------------
(***************************************************************************)
(* The command parser of the bootloader (hal/component/bootloader).  It    *)
(* is a frame_parser_t: it finds its command and its memory in a buffer,   *)
(* writes the reply to the same buffer and returns the reply's size.       *)
(*                                                                         *)
(* The memories behind the table of access functions are the user's: one   *)
(* cell, and a lock on it that only an erase opens.                        *)
(***************************************************************************)
EXTENDS Integers, Sequences, FiniteSets, FiniteSetsExt

CONSTANTS
    c_tCMDMap,      \* the supported commands: byte -> handler
    c_tMemory,      \* the supported memories: their types, and what each can do
    IAP_RSP_OK,
    IAP_RSP_ERROR,
    EMPTY,          \* an erased cell
    INFO            \* what an acknowledge tells of the device

ASSUME BootloaderAssumption ==
    /\ \A byte \in DOMAIN c_tCMDMap :
          c_tCMDMap[byte] \in {"ack", "resume", "write", "read", "erase", "secure"}
    /\ IAP_RSP_OK # IAP_RSP_ERROR

Answer(cell, buffer, size) == [cell |-> cell, buffer |-> buffer, size |-> size]

\* The user's functions, which also write their reply to the buffer.
Access(cell, buffer, index) ==
    LET ok == [buffer EXCEPT ![1] = IAP_RSP_OK]
    IN CASE index = "write"  -> Answer([cell EXCEPT !.content = buffer[3]], ok, 1)
         [] index = "read"   -> Answer(cell, [ok EXCEPT ![2] = cell.content], 2)
         [] index = "erase"  -> Answer([content |-> EMPTY, secured |-> FALSE], ok, 1)
         [] index = "secure" -> Answer([cell EXCEPT !.secured = TRUE], ok, 1)

\* Mutation: any command may pass while the system is secured.
BugSecured(cell, buffer, index) ==
    LET found == {n \in DOMAIN c_tMemory : buffer[2] \in c_tMemory[n].types}
    IN IF found = {} \/ index \notin c_tMemory[Min(found)].access
       THEN Answer(cell, [buffer EXCEPT ![1] = IAP_RSP_ERROR], 1)
       ELSE Access(cell, buffer, index)

\* cmd_memory_handler(): the first memory of the table that has the type.
cmd_memory_handler(cell, buffer, index) ==
    LET found == {n \in DOMAIN c_tMemory : buffer[2] \in c_tMemory[n].types}
    IN IF cell.secured /\ index # "erase" THEN Answer(cell, buffer, 0)
       ELSE IF found = {} \/ index \notin c_tMemory[Min(found)].access
       THEN Answer(cell, [buffer EXCEPT ![1] = IAP_RSP_ERROR], 1)
       ELSE Access(cell, buffer, index)

cmd_ack_handler(cell, buffer) ==
    Answer(cell, [i \in DOMAIN buffer |-> IF i \in DOMAIN INFO THEN INFO[i] ELSE buffer[i]], Len(INFO))

\* IAP_RESUME: by default it does nothing.
cmd_resume_handler(cell, buffer) == Answer(cell, buffer, 0)

\* booloader_command_parser(): the first byte is the command, whatever the size.
booloader_command_parser(cell, buffer) ==
    IF buffer[1] \notin DOMAIN c_tCMDMap THEN Answer(cell, buffer, 0)
    ELSE CASE c_tCMDMap[buffer[1]] = "ack" -> cmd_ack_handler(cell, buffer)
           [] c_tCMDMap[buffer[1]] = "resume" -> cmd_resume_handler(cell, buffer)
           [] OTHER -> cmd_memory_handler(cell, buffer, c_tCMDMap[buffer[1]])
=============================================================================

------------------------------ MODULE MCLogger ------------------------------
(***************************************************************************)
(* Values for the constants of Logger: calls with too few and too many     *)
(* arguments, an empty argument, and one that contains a placeholder.      *)
(***************************************************************************)
EXTENDS Logger

CONSTANTS x, y

MCPieces == {x, y, Brace}

MCCalls ==
    {[level |-> "info", format |-> <<x, Brace, y, Brace>>, args |-> << <<y>> >>],
     [level |-> "error", format |-> <<Brace, Brace>>, args |-> << <<Brace, x>>, <<y>>, <<x>> >>],
     [level |-> "debug", format |-> <<Brace, x, Brace>>, args |-> << <<>> >>]}

(* none, LOG_LEVEL_FROM_ERROR, LOG_LEVEL_FROM_INFO, LOG_LEVEL_FROM_DEBUG   *)
MCMasks ==
    LET fromError == {"error", "fatal"}
        fromInfo == {"info", "warn"} \cup fromError
    IN  {{}, fromError, fromInfo, {"debug"} \cup fromInfo}

(* arrow, file, colon, line, bracket                                       *)
MCLocation == << <<x>>, <<y>>, <<x>>, <<y>>, <<x>> >>
=============================================================================

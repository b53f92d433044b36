------------------------------- MODULE Logger -------------------------------
(***************************************************************************)
(* Logger: the mask of levels, the two sinks, and threads that log through *)
(* the macros BITCASK_LOGGER_*.  A call reads the mask up to three times,  *)
(* and other threads change it in between; formatMsg is a loop over the    *)
(* format string that it rewrites in place.  A string is a sequence of     *)
(* pieces; Brace is the placeholder {}.                                    *)
(***************************************************************************)
EXTENDS Integers, Sequences, FiniteSets, SequencesExt

CONSTANTS
    Pieces,       \* what strings are made of
    Threads,      \* threads that log
    Calls,        \* BOUND: the calls they make, [level, format, args]
    Sinks,        \* functions a program may hand to init
    NoSink,       \* the sinks before init: functions that do nothing
    Masks,        \* BOUND: the masks it hands to init and changeLogLevels
    MinAllowed,   \* BITCASK_MIN_ALLOWED_LOG_LEVEL
    Brace,        \* the placeholder
    Location      \* the arguments the macros add when debug is allowed

Levels == {"info", "warn", "error", "fatal", "debug", "verbose"}

ASSUME LevelAssumption == Masks \subseteq SUBSET Levels

ASSUME CallAssumption ==
    /\ Calls \subseteq [level : Levels, format : Seq(Pieces), args : Seq(Seq(Pieces))]
    /\ Location \in Seq(Seq(Pieces))
    /\ Brace \in Pieces

ASSUME SinkAssumption == NoSink \notin Sinks

VARIABLES
    out, err,       \* Statics::out, Statics::err
    allowedLevels,  \* Statics::allowedLevels, as the set of its bits
    pc, call,       \* where a thread is in a call, and which one
    args,           \* arg_strings behind the format string
    text,           \* format_string
    idx, argIdx     \* the two cursors of formatMsg

staticVars == <<out, err, allowedLevels>>
formatVars == <<text, idx, argIdx>>
vars == <<staticVars, pc, call, args, formatVars>>

Idle == [level |-> "info", format |-> <<>>, args |-> <<>>]

Init ==
    /\ out = NoSink /\ err = NoSink /\ allowedLevels = {}
    /\ pc = [t \in Threads |-> "idle"]
    /\ call = [t \in Threads |-> Idle]
    /\ args = [t \in Threads |-> <<>>]
    /\ text = [t \in Threads |-> <<>>]
    /\ idx = [t \in Threads |-> 0]
    /\ argIdx = [t \in Threads |-> 1]

allowedOr(level) == allowedLevels \cup {level} # {}   \* mutant: | for &
allowed(level) == level \in allowedLevels

-----------------------------------------------------------------------------
(* The functions that change the logger.                                   *)

(* Mutant of SetSinks: the error sink keeps its default.                   *)
SetSinksOutOnly(levels, o, e) ==
    /\ \A t \in Threads : pc[t] = "idle"
    /\ out' = IF o # NoSink THEN o ELSE out
    /\ err' = IF e # NoSink THEN e ELSE err
    /\ allowedLevels' = levels
    /\ UNCHANGED <<pc, call, args, formatVars>>

(* init.  The sinks are not guarded: nobody may be logging meanwhile.      *)
SetSinks(levels, o, e) ==
    /\ \A t \in Threads : pc[t] = "idle"
    /\ out' = IF o # NoSink THEN o ELSE out
    /\ err' = IF e # NoSink THEN e ELSE out'
    /\ allowedLevels' = levels
    /\ UNCHANGED <<pc, call, args, formatVars>>

changeLogLevels(levels) ==
    /\ allowedLevels' = levels
    /\ UNCHANGED <<out, err, pc, call, args, formatVars>>

stopLogging == changeLogLevels({})

(* enable keeps of the mask only the level it is given.                    *)
enable(level) == changeLogLevels(allowedLevels \cap {level})

disable(level) == changeLogLevels(allowedLevels \ {level})

-----------------------------------------------------------------------------
(* A call through a macro.                                                 *)

(* Which macros are compiled in; the debug macro always is.                *)
MacroLevel == [info |-> 2, warn |-> 4, error |-> 8, fatal |-> 16, verbose |-> 32]
Compiled(level) == level # "debug" => MinAllowed <= MacroLevel[level]

(* The macro's test of the level; a call that fails it does nothing.       *)
Begin(t, c) ==
    /\ pc[t] = "idle"
    /\ Compiled(c.level) /\ allowed(c.level)
    /\ call' = [call EXCEPT ![t] = c]
    /\ pc' = [pc EXCEPT ![t] = "locate"]
    /\ UNCHANGED <<staticVars, args, formatVars>>

(* The macro adds the place in the source when debug is allowed.           *)
Locate(t) ==
    /\ pc[t] = "locate"
    /\ args' = [args EXCEPT ![t] =
                   IF call[t].level = "debug" \/ allowed("debug")
                   THEN call[t].args \o Location ELSE call[t].args]
    /\ pc' = [pc EXCEPT ![t] = "log"]
    /\ UNCHANGED <<staticVars, call, formatVars>>

(* The call is over.                                                       *)
Leave(t) ==
    /\ pc' = [pc EXCEPT ![t] = "idle"]
    /\ call' = [call EXCEPT ![t] = Idle]
    /\ args' = [args EXCEPT ![t] = <<>>]
    /\ text' = [text EXCEPT ![t] = <<>>]
    /\ idx' = [idx EXCEPT ![t] = 0]
    /\ argIdx' = [argIdx EXCEPT ![t] = 1]
    /\ UNCHANGED staticVars

(* log tests the level again, and formatMsg starts.                        *)
Log(t) ==
    /\ pc[t] = "log"
    /\ allowed(call[t].level)
    /\ pc' = [pc EXCEPT ![t] = "format"]
    /\ text' = [text EXCEPT ![t] = call[t].format]
    /\ UNCHANGED <<staticVars, call, args, idx, argIdx>>

Drop(t) == pc[t] = "log" /\ ~allowed(call[t].level) /\ Leave(t)

(* format_string.find(brace, idx): the placeholders from the cursor on.    *)
Braces(t) == {i \in (idx[t] + 1)..Len(text[t]) : text[t][i] = Brace}

Replacement(t) == IF argIdx[t] <= Len(args[t]) THEN args[t][argIdx[t]] ELSE <<Brace>>

SubstituteAt(t, i, next) ==
    /\ text' = [text EXCEPT ![t] = SubSeq(@, 1, i - 1) \o Replacement(t)
                                     \o SubSeq(@, i + 1, Len(@))]
    /\ idx' = [idx EXCEPT ![t] = next]
    /\ argIdx' = [argIdx EXCEPT ![t] = IF @ <= Len(args[t]) THEN @ + 1 ELSE @]
    /\ UNCHANGED <<staticVars, pc, call, args>>

FirstBrace(t) == CHOOSE i \in Braces(t) : \A j \in Braces(t) : i <= j

(* Mutants of Substitute: the search goes on inside the replacement, ...   *)
SubstituteRescan(t) ==
    /\ pc[t] = "format" /\ Braces(t) # {}
    /\ SubstituteAt(t, FirstBrace(t), FirstBrace(t) - 1)

(* ... or one piece too far behind it.                                     *)
SubstituteBeyond(t) ==
    /\ pc[t] = "format" /\ Braces(t) # {}
    /\ SubstituteAt(t, FirstBrace(t), FirstBrace(t) + Len(Replacement(t)))

(* One turn of the loop of formatMsg: an argument, or the placeholder      *)
(* itself when there are none left; the search goes on behind it.          *)
Substitute(t) ==
    /\ pc[t] = "format" /\ Braces(t) # {}
    /\ SubstituteAt(t, FirstBrace(t), FirstBrace(t) - 1 + Len(Replacement(t)))

(* Where logImpl sends a message of that level.                            *)
Sink(level) == IF level \in {"info", "debug", "verbose"} THEN out ELSE err

(* logImpl hands the formatted message to the sink.                        *)
Send(t) == pc[t] = "format" /\ Braces(t) = {} /\ Leave(t)

InCall(t) == Locate(t) \/ Log(t) \/ Drop(t) \/ Substitute(t) \/ Send(t)

(* The levels that make a difference to the calls.                         *)
UsedLevels == {"debug"} \cup {c.level : c \in Calls}

Configure ==
    \/ \E levels \in Masks :
         \/ changeLogLevels(levels)
         \/ \E o, e \in Sinks \cup {NoSink} : SetSinks(levels, o, e)
    \/ stopLogging
    \/ \E level \in UsedLevels : enable(level) \/ disable(level)

Next ==
    \/ Configure
    \/ \E t \in Threads : InCall(t) \/ \E c \in Calls : Begin(t, c)

Spec == Init /\ [][Next]_vars

(* A thread that logs is a running thread, and nothing in a call blocks.   *)
FairSpec == Spec /\ \A t \in Threads : WF_vars(InCall(t))
-----------------------------------------------------------------------------
(* Properties.                                                             *)

(* The type of every variable; the cursor stays inside the string          *)
(* (init, changeLogLevels, formatMsg).                                     *)
TypeOK ==
    /\ {out, err} \subseteq Sinks \cup {NoSink}
    /\ allowedLevels \subseteq Levels
    /\ pc \in [Threads -> {"idle", "locate", "log", "format"}]
    /\ call \in [Threads -> Calls \cup {Idle}]
    /\ args \in [Threads -> Seq(Seq(Pieces))]
    /\ text \in [Threads -> Seq(Pieces)]
    /\ idx \in [Threads -> Nat] /\ argIdx \in [Threads -> Nat]
    /\ \A t \in Threads : /\ idx[t] \in 0..Len(text[t])
                          /\ argIdx[t] \in 1..(Len(args[t]) + 1)

(* What a piece of the format string stands for: a placeholder for the     *)
(* argument of the same rank, or for itself; any other for itself.         *)
Rank(format, i) == Cardinality({j \in 1..i : format[j] = Brace})

Meaning(format, arguments) ==
    [i \in DOMAIN format |->
        IF format[i] = Brace /\ Rank(format, i) <= Len(arguments)
        THEN arguments[Rank(format, i)] ELSE <<format[i]>>]

Filled(format, arguments) == FlattenSeq(Meaning(format, arguments))

(* A message is the format string with every placeholder replaced once,    *)
(* by its own argument: what an argument contains is not looked at, and    *)
(* surplus arguments are dropped (the loop of formatMsg).                  *)
FormattedRight ==
    \A t \in Threads : pc[t] = "format" /\ Braces(t) = {} =>
        text[t] = Filled(call[t].format, args[t])

(* A logging call returns, also when placeholders outnumber arguments and  *)
(* are put back into the string that is searched (formatMsg).              *)
CallReturns == \A t \in Threads : pc[t] # "idle" ~> pc[t] = "idle"

(* Once nothing is allowed any more, logging stops in every thread,        *)
(* although a call that passed its test before still sends its message     *)
(* (stopLogging, log).                                                     *)
StopSilences ==
    <>[](allowedLevels = {}) => <>[](\A t \in Threads : pc[t] = "idle")

(* Messages of all levels are heard once a program has handed over a       *)
(* function for the ordinary ones, in whatever order and with whatever     *)
(* arguments it calls init (init, logImpl).                                *)
ErrorsHeard == \A level \in Levels : Sink(level) = NoSink => out = NoSink
=============================================================================

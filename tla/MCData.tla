-------------------------------- MODULE MCData --------------------------------
(***************************************************************************)
(* What brings a database to the screen and to a report: the program that  *)
(* is launched and its page, the keys of the providers, the statements and *)
(* the session they run in, the catalog, the tables, the diagram and the   *)
(* reports, one module each, in one state space.  They keep no state in    *)
(* common, so a behaviour is one of the part it starts with, while the     *)
(* others rest in an initial state of theirs.                              *)
(***************************************************************************)
EXTENDS FirstRun, Requests, UpdateCheck, ProviderKeys, RawScan, DriverSession, SchemaTree,
        ErdLayout, TableTab, ReportRuns, LiveReport, FrozenReport

VARIABLE part

dataVars == <<part, firstRunVars, requestVars, updateVars, keyVars, scanVars, driverVars,
              treeVars, erdVars, tableVars, reportVars, liveVars, frozenVars>>

-----------------------------------------------------------------------------
(* Bounds.                                                                 *)

CONSTANTS c1, ta, tb

OneConn     == {c1}
Connects    == [r \in {c1, "boot"} |-> 1]
OneRef      == "a" :> {"x"}
TwoKinds    == <<"anthropic", "openai">>
TwoTargets  == {ta, tb}
OneLiveConn == {"c1"}
TwoBlocks   == "q1" :> "read" @@ "q2" :> "write"
RowCounts   == <<0, 2>>

Modes(e, std, ansi, nob) ==
    [engine |-> e, standardStrings |-> std, ansiQuotes |-> ansi, noBackslash |-> nob]
FiveModes ==
    {Modes("postgres", TRUE, FALSE, FALSE), Modes("postgres", FALSE, FALSE, FALSE),
     Modes("mysql", TRUE, FALSE, FALSE), Modes("mysql", TRUE, TRUE, FALSE),
     Modes("mysql", TRUE, FALSE, TRUE)}
TypedPieces ==
    {<<"'">>, <<"\\", "'">>, <<"sp", "e", "'">>, <<"dq">>, <<"\\", "dq">>, <<"bq">>, <<"semi", "a">>,
     <<"-", "-">>, <<"nl">>, <<"/", "*">>, <<"!", "*", "/">>, <<"sp", "$", "a", "$">>, <<"sp", "into">>}

-----------------------------------------------------------------------------

\* A part with more than one initial state has one while another part moves.
\* A SHOW is typed on one of the connections.
DataInit ==
    /\ part \in {"first run", "requests", "update", "keys", "scan", "driver", "tree", "erd",
                 "table", "report", "live", "frozen"}
    /\ FirstRunInit /\ (part # "first run" => chainUp)
    /\ RequestsInit /\ (part # "requests" => bindHost = "127.0.0.1" /\ boundPort = 80)
    /\ UpdateInit /\ (part # "update" => released = 1)
    /\ ScanInit /\ (part # "scan" => scanModes = Modes("postgres", TRUE, FALSE, FALSE)
                                      /\ typed = <<>>)
                 /\ (part = "scan" => typed # <<>>)
                 /\ (typed = <<"show">> => scanModes = Modes("mysql", TRUE, FALSE, FALSE))
    /\ DriverInit /\ (part # "driver" => engine = "mysql" /\ catalog = {})
    /\ TreeInit /\ (part # "tree" => registry = [c \in Saved |-> 0])
    /\ KeysInit /\ ErdInit /\ TableInit /\ ReportInit /\ LiveInit /\ FrozenInit

DataNext ==
    /\ UNCHANGED part
    /\ IF part = "first run" THEN FirstRunNext ELSE UNCHANGED firstRunVars
    /\ IF part = "requests"  THEN RequestsNext ELSE UNCHANGED requestVars
    /\ IF part = "update"    THEN UpdateNext   ELSE UNCHANGED updateVars
    /\ IF part = "keys"      THEN KeysNext     ELSE UNCHANGED keyVars
    /\ IF part = "scan"      THEN ScanNext     ELSE UNCHANGED scanVars
    /\ IF part = "driver"    THEN DriverNext   ELSE UNCHANGED driverVars
    /\ IF part = "tree"      THEN TreeNext     ELSE UNCHANGED treeVars
    /\ IF part = "erd"       THEN ErdNext      ELSE UNCHANGED erdVars
    /\ IF part = "table"     THEN TableNext    ELSE UNCHANGED tableVars
    /\ IF part = "report"    THEN ReportNext   ELSE UNCHANGED reportVars
    /\ IF part = "live"      THEN LiveNext     ELSE UNCHANGED liveVars
    /\ IF part = "frozen"    THEN FrozenNext   ELSE UNCHANGED frozenVars

DataSpec == DataInit /\ [][DataNext]_dataVars

=============================================================================

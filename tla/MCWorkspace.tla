----------------------------- MODULE MCWorkspace -----------------------------
(***************************************************************************)
(* The Workspace: its tabs, the chat and the query that fill them, and how *)
(* it is kept, one module each, in one state space.  They keep no state in *)
(* common, so a behaviour is one of the part it starts with, while the     *)
(* others rest in an initial state of theirs.                              *)
(***************************************************************************)
EXTENDS WorkspaceTabs, MCWorkspaceSave, WorkspaceFile, ChatStream, ChatCharts, QueryTab

VARIABLE part

workspaceVars == <<part, tabsVars, vars, fileVars, chatVars, chartVars, queryVars>>

CONSTANT c1

OneConn == {c1}

\* A part with more than one initial state has one while another part moves.
WorkspaceInit ==
    /\ part \in {"tabs", "save", "file", "chat", "charts", "query"}
    /\ TabsInit /\ Init /\ FileInit /\ ChatInit /\ ChartsInit /\ QueryInit
    /\ part # "tabs" => ws = EmptyWorkspace

WorkspaceNext ==
    /\ UNCHANGED part
    /\ IF part = "tabs"   THEN TabsNext   ELSE UNCHANGED tabsVars
    /\ IF part = "save"   THEN Next       ELSE UNCHANGED vars
    /\ IF part = "file"   THEN FileNext   ELSE UNCHANGED fileVars
    /\ IF part = "chat"   THEN ChatNext   ELSE UNCHANGED chatVars
    /\ IF part = "charts" THEN ChartsNext ELSE UNCHANGED chartVars
    /\ IF part = "query"  THEN QueryNext  ELSE UNCHANGED queryVars

\* A part at rest enables none of the actions fairness is assumed of.
WorkspaceSpec ==
    WorkspaceInit /\ [][WorkspaceNext]_workspaceVars
    /\ ChatFairness /\ WF_vars(Settle) /\ WF_vars(StopFlushes)

=============================================================================

------------------------------ MODULE Dashboard ------------------------------
(***************************************************************************)
(* The client's terminal interface (clientcli/program.go, migrate_form.go, *)
(* ssh.go): one event loop handles keys, ticks and results, while every    *)
(* request runs in a goroutine of its own and its result may come in any   *)
(* order, after the operator has moved on.                                 *)
(*                                                                         *)
(* Agents are known by their rank: ListAgents orders by id, new ids are    *)
(* random, and an agent is never removed, so the fleet only grows but a    *)
(* new agent may come anywhere in the list.                                *)
(***************************************************************************)
EXTENDS Integers, Sequences, FiniteSets, SequencesExt

CONSTANTS
  LastRank,    \* agents are 1..LastRank
  PageSize,    \* what ListAgents returns at most
  MaxRequests  \* bound on requests and results under way

ASSUME DashboardAssumption == LastRank \in Nat /\ PageSize \in Nat \ {0} /\ MaxRequests \in Nat

VARIABLES
  enrolled,   \* the agents the validator has
  signedIn,   \* the validator accepts the client's token
  asked,      \* requests the validator has not answered
  results,    \* results the event loop has not taken
  agents, selected, panel, data, \* what the screen is made of
  login, typed, searching, \* the overlays that take the keys
  form,       \* the migrate form
  terminal,   \* ssh: "none", "preparing" or "attached"; the event loop waits for it
  promised,   \* history: what the form showed when it asked for confirmation
  dispatched  \* history: whether the last migration requested was the one confirmed

screen == <<agents, selected, panel, data>>
overlays == <<login, typed, searching>>
confirmation == <<promised, dispatched>>
outside == <<enrolled, signedIn>>
dashboardVars == <<outside, asked, results, screen, overlays, form, terminal, confirmation>>

-----------------------------------------------------------------------------
Ranks == 1..LastRank
Panels == <<"stats", "users", "easypanel">> \* one of each kind, in their order
Stops == <<"field", "target", "overwrite", "submit">>
NoData == "none"
NoForm == [focus |-> "none"]
NoMigration == [source |-> 0]

\* How many of S the ORDER BY puts before a.
Below(a, S) == Cardinality({b \in S : b < a})

\* ListAgents: the first PageSize agents of S, in order.
Page(S) ==
  [i \in 1..(IF Cardinality(S) < PageSize THEN Cardinality(S) ELSE PageSize) |->
     CHOOSE a \in S : Below(a, S) = i - 1]

DashboardInit ==
  /\ enrolled \in SUBSET Ranks /\ signedIn = TRUE
  /\ asked = {"list"} /\ results = {}
  /\ agents = <<>> /\ selected = 0 /\ panel = 1 /\ data = NoData
  /\ login = FALSE /\ typed = FALSE /\ searching = FALSE
  /\ form = NoForm /\ terminal = "none"
  /\ promised = NoMigration /\ dispatched = "as confirmed"

\* The event loop is free, and has room for another request.
Room == Cardinality(asked) + Cardinality(results) < MaxRequests
Loops == terminal = "none"
Chosen == agents[selected + 1]

-----------------------------------------------------------------------------
(* Outside the event loop: the validator, and the goroutines.              *)

Enrolls(a) ==
  /\ enrolled' = enrolled \union {a}
  /\ UNCHANGED <<signedIn, asked, results, screen, overlays, form, terminal, confirmation>>

TokenExpires ==
  /\ signedIn' = FALSE
  /\ UNCHANGED <<enrolled, asked, results, screen, overlays, form, terminal, confirmation>>

Result(r, code) ==
  [panel |-> r, code |-> code,
   agents |-> IF r = "list" /\ code = "ok" THEN Page(enrolled) ELSE <<>>]

\* API.Call in a goroutine.
Answers(r) ==
  /\ r \in asked /\ r # "login"
  /\ asked' = asked \ {r}
  /\ \E code \in IF signedIn THEN {"ok", "failed"} ELSE {"unauthenticated"} :
       results' = results \union {Result(r, code)}
  /\ UNCHANGED <<outside, screen, overlays, form, terminal, confirmation>>

\* The goroutine of a login takes the form off the screen itself, beside the event loop, and
\* then lists the agents.
AnswersLogin ==
  /\ "login" \in asked
  /\ \/ /\ signedIn' = TRUE /\ login' = FALSE /\ typed' = FALSE
        /\ asked' = (asked \ {"login"}) \union {"list"}
        /\ UNCHANGED results
     \/ /\ asked' = asked \ {"login"}
        /\ results' = results \union {Result("list", "unauthenticated")}
        /\ UNCHANGED <<signedIn, login, typed>>
  /\ UNCHANGED <<enrolled, screen, searching, form, terminal, confirmation>>

-----------------------------------------------------------------------------
(* Update of a tick and of a result.                                       *)

Ticks ==
  /\ Loops /\ Room
  /\ asked' = asked \union {"list"}
  /\ UNCHANGED <<outside, results, screen, overlays, form, terminal, confirmation>>

\* Variant: the selection stays where it was.
KeepsSelection(listed) == selected

\* A selection beyond the new list goes back to the first agent.
Reselects(listed) == IF selected >= Len(listed) THEN 0 ELSE selected

\* Only a result for the panel on the screen is shown.  A result names no agent: what a request
\* for the agent selected before brings is shown under the one selected now.
Takes(r) ==
  /\ Loops /\ r \in results
  /\ results' = results \ {r}
  /\ IF r.code = "unauthenticated" THEN login' = TRUE /\ typed' = FALSE
     ELSE UNCHANGED <<login, typed>>
  /\ IF r.panel = "list"
     THEN /\ IF r.code = "ok" THEN agents' = r.agents /\ selected' = Reselects(r.agents)
             ELSE UNCHANGED <<agents, selected>>
          /\ UNCHANGED data
     ELSE /\ data' = IF r.panel # Panels[panel] THEN data
                     ELSE IF r.code = "ok" THEN r.panel ELSE NoData
          /\ UNCHANGED <<agents, selected>>
  /\ UNCHANGED <<outside, asked, panel, searching, form, terminal, confirmation>>

-----------------------------------------------------------------------------
(* Update of a key: an overlay takes it first.                             *)

PanelKeys == Loops /\ ~login /\ form = NoForm /\ ~searching

\* loadPanel: for the agent and the panel at the moment of the key, and for nothing without agents.
Loads(p) == IF agents = <<>> THEN {} ELSE {Panels[p]}

\* Up, Down, [ and ]: on a table the arrows move the table's cursor, [ and ] the selection.
MovesSelection ==
  /\ PanelKeys /\ Room
  /\ selected' \in {selected - 1, selected + 1} \ {-1} /\ selected' < Len(agents)
  /\ data' = NoData
  /\ asked' = asked \union Loads(panel)
  /\ UNCHANGED <<outside, results, agents, panel, overlays, form, terminal, confirmation>>

MovesPanel ==
  /\ PanelKeys /\ Room
  /\ panel' \in {(panel % Len(Panels)) + 1, ((panel + Len(Panels) - 2) % Len(Panels)) + 1}
  /\ data' = NoData
  /\ asked' = asked \union Loads(panel')
  /\ UNCHANGED <<outside, results, agents, selected, overlays, form, terminal, confirmation>>

Refreshes ==
  /\ PanelKeys /\ Room
  /\ asked' = asked \union {"list"} \union Loads(panel)
  /\ UNCHANGED <<outside, results, screen, overlays, form, terminal, confirmation>>

\* updateSearch: "/" on a table opens it, esc and enter close it.
Searches ==
  /\ Loops /\ ~login /\ form = NoForm
  /\ searching \/ Panels[panel] = "users"
  /\ searching' = ~searching
  /\ UNCHANGED <<outside, asked, results, screen, login, typed, form, terminal, confirmation>>

\* updateLogin: enter with both fields filled sends them, and may do so again.
TypesLogin ==
  /\ Loops /\ login /\ ~typed /\ typed' = TRUE
  /\ UNCHANGED <<outside, asked, results, screen, login, searching, form, terminal, confirmation>>

SendsLogin ==
  /\ Loops /\ login /\ typed /\ Room
  /\ asked' = asked \union {"login"}
  /\ UNCHANGED <<outside, results, screen, overlays, form, terminal, confirmation>>

\* startSSH calls PrepareNativeSSH inside Update: no key, tick or result is handled until the
\* session is ready or has failed, and none while ssh runs.
StartsSSH ==
  /\ PanelKeys /\ agents # <<>>
  /\ terminal' = "preparing"
  /\ UNCHANGED <<outside, asked, results, screen, overlays, form, confirmation>>

SSHPrepared ==
  /\ terminal = "preparing" /\ terminal' \in {"attached", "none"}
  /\ UNCHANGED <<outside, asked, results, screen, overlays, form, confirmation>>

\* The command ended: its session is closed and a result without a value follows.
SSHEnds ==
  /\ terminal = "attached" /\ terminal' = "none"
  /\ results' = results \union {Result(Panels[panel], "failed")}
  /\ UNCHANGED <<outside, asked, screen, overlays, form, confirmation>>

-----------------------------------------------------------------------------
(* The migrate form.                                                       *)

\* openMigrate: the form keeps the agents it was opened with.
OpensMigrate ==
  /\ PanelKeys /\ Panels[panel] = "easypanel" /\ Len(agents) > 1
  /\ form' = [focus |-> "field", source |-> Chosen,
              targets |-> SelectSeq(agents, LAMBDA a : a # Chosen), target |-> 1,
              overwrite |-> FALSE, filled |-> FALSE, confirm |-> FALSE]
  /\ UNCHANGED <<outside, asked, results, screen, overlays, terminal, confirmation>>

FormKeys == Loops /\ ~login /\ form # NoForm
FormOnly == UNCHANGED <<outside, asked, results, screen, overlays, terminal, dispatched>>
Stop(i) == Stops[((i - 1) % Len(Stops)) + 1]
StopOf == CHOOSE i \in 1..Len(Stops) : Stops[i] = form.focus

FormEsc == FormKeys /\ form' = NoForm /\ promised' = NoMigration /\ FormOnly

\* tab, shift+tab and the arrows.
FormMoves ==
  /\ FormKeys
  /\ \E i \in {StopOf + 1, StopOf + Len(Stops) - 1} :
       form' = [form EXCEPT !.focus = Stop(i), !.confirm = FALSE]
  /\ promised' = NoMigration /\ FormOnly

\* Typing in a field, and left, right or space on a choice.
FormEdits ==
  /\ FormKeys /\ form.focus # "submit"
  /\ form' = CASE form.focus = "field" -> [form EXCEPT !.filled = ~@]
               [] form.focus = "target" -> [form EXCEPT !.target = (@ % Len(form.targets)) + 1]
               [] form.focus = "overwrite" -> [form EXCEPT !.overwrite = ~@]
  /\ UNCHANGED promised /\ FormOnly

Shown(f) == [source |-> f.source, target |-> f.targets[f.target], overwrite |-> f.overwrite]

\* enter: to the next stop, or, when the fields are valid, to ask for a second enter.
FormEnters ==
  /\ FormKeys
  /\ \/ /\ form.focus # "submit"
        /\ form' = [form EXCEPT !.focus = Stop(StopOf + 1)] /\ UNCHANGED promised
     \/ /\ form.focus = "submit" /\ form.filled /\ ~form.confirm
        /\ form' = [form EXCEPT !.confirm = TRUE] /\ promised' = Shown(form)
  /\ FormOnly

\* Variant: the source is the agent selected now.
MigrationOfSelected(f) == [Shown(f) EXCEPT !.source = Chosen]

\* dispatchMigrate's arguments, read from the form.
Migration(f) == Shown(f)

\* The second enter.
DispatchesMigrate ==
  /\ FormKeys /\ Room /\ form.focus = "submit" /\ form.filled /\ form.confirm
  /\ dispatched' = IF Migration(form) = promised THEN "as confirmed" ELSE "otherwise"
  /\ promised' = NoMigration /\ form' = NoForm
  /\ asked' = asked \union {"easypanel"}
  /\ UNCHANGED <<outside, results, screen, overlays, terminal>>

-----------------------------------------------------------------------------
DashboardNext ==
  \/ \E a \in Ranks \ enrolled : Enrolls(a)
  \/ signedIn /\ TokenExpires
  \/ \E r \in asked : Answers(r)
  \/ AnswersLogin
  \/ Ticks
  \/ \E r \in results : Takes(r)
  \/ MovesSelection \/ MovesPanel \/ Refreshes \/ Searches
  \/ TypesLogin \/ SendsLogin
  \/ StartsSSH \/ SSHPrepared \/ SSHEnds
  \/ OpensMigrate \/ FormEsc \/ FormMoves \/ FormEdits \/ FormEnters
  \/ DispatchesMigrate

DashboardSpec == DashboardInit /\ [][DashboardNext]_dashboardVars

-----------------------------------------------------------------------------
(* Every agent the interface indexes exists (loadPanel, startSSH and openMigrate index
   d.agents without a check): listings come back in any order, and one taken late may be
   shorter than the one the selection was made in. *)
SelectedInRange == selected < Len(agents) \/ (agents = <<>> /\ selected = 0)

(* The migration requested is the one the form showed when it asked for the second enter,
   whatever listings, results and logins came between the two. *)
DispatchedAsConfirmed == dispatched = "as confirmed"
=============================================================================

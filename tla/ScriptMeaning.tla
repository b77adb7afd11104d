--------------------------- MODULE ScriptMeaning ---------------------------
(***************************************************************************)
(* What becomes of a statement of PrayerLang or a typed action on its way  *)
(* to the planner.  A script is parsed, normalised, parsed again,          *)
(* validated, analysed against the identifiers that are known and saved    *)
(* (PrayerLangRun in prayer-runtime/src/engine/evaluation.rs).  A decision *)
(* gives the planner an argument list made of the statement and puts an    *)
(* action made of that list in the scheduler; every later tick gives the   *)
(* planner a list made of the action.  Overrides are compiled and batches  *)
(* are submitted as actions.  A restart keeps the saved text and the       *)
(* scheduler, and analyses the text again.                                 *)
(*                                                                         *)
(* One statement and one action stand for a script and the two lanes,      *)
(* which Scheduler and RuntimeEngine have: statements share nothing, and   *)
(* no override or batch comes in while there is a script.                  *)
(***************************************************************************)
EXTENDS ScriptActions

CONSTANTS
  Statements, \* statements that clients submit
  Requests,   \* typed actions that clients submit
  Knowledge   \* what may be known: the identifiers of each kind, those of owned ships apart

VARIABLES
  idents,     \* the identifiers that are known
  saved,     \* script_source: its normal form
  analysis,   \* analyzed_script
  decided,    \* the cursor is past the statement
  running,    \* the action in the scheduler
  heard,      \* what the planner last read
  meant,      \* history: the action that the text or the request says
  way         \* history: how the planner's arguments were made

langVars == <<idents, saved, analysis, decided, running, heard, meant, way>>

Silent == [node |-> "silent"]
Empty == Statement("", <<>>)

LangInit ==
  /\ idents \in Knowledge
  /\ saved = Empty /\ analysis = NoNode /\ decided = FALSE
  /\ running = NoNode /\ heard = Silent /\ meant = NoNode /\ way = "none"

\* A refresh shows more of the world, or other ships.
Learn(k) == idents' = k /\ UNCHANGED <<saved, analysis, decided, running, heard, meant, way>>

\* What a text says, before it is brought into its normal form.
Says(text) == LET a == Reanalyze(text, idents) IN IF a = NoNode THEN NoNode ELSE Compile(a)

\* set_script: a new scheduler; a script that is refused changes nothing.
SetScript(text) ==
  LET loaded == Load(text, idents) IN
  /\ loaded.meaning # NoNode
  /\ saved' = loaded.source /\ analysis' = loaded.meaning /\ decided' = FALSE
  /\ running' = NoNode /\ heard' = Silent /\ meant' = Says(text) /\ way' = "none"
  /\ UNCHANGED idents

\* decide and schedule_command: the cursor moves on even if there is no such action.
Decide ==
  /\ running = NoNode /\ analysis # NoNode /\ ~decided
  /\ decided' = TRUE
  /\ LET named == NameOf(analysis)
         fits == analysis.node \in {"command", "craft", "transfer"} \/ Representable(analysis)
         action == IF fits THEN Materialize(named, ScriptArgs(analysis)) ELSE NoNode
     IN  IF action = NoNode THEN UNCHANGED <<running, heard, way>>
         ELSE running' = action /\ heard' = Reading(named, ScriptArgs(analysis)) /\ way' = "decision"
  /\ UNCHANGED <<idents, saved, analysis, meant>>

\* scheduled_running_command: a tick of the action that is running.
Continue ==
  /\ running # NoNode /\ Representable(running)
  /\ heard' = Reading(NameOf(running), ResolveArgs(running))
  /\ way' = IF way = "decision" THEN "script" ELSE way
  /\ UNCHANGED <<idents, saved, analysis, decided, running, meant>>

Finish ==
  /\ running # NoNode /\ heard # Silent
  /\ running' = NoNode /\ heard' = Silent /\ way' = "none"
  /\ UNCHANGED <<idents, saved, analysis, decided, meant>>

\* submit_script_override: compiled, not validated as a batch is.
Override(text) ==
  LET loaded == Load(text, idents).meaning
      action == IF loaded = NoNode THEN NoNode ELSE Compile(loaded)
  IN  /\ saved = Empty /\ running = NoNode /\ action # NoNode
      /\ running' = action /\ meant' = Says(text) /\ heard' = Silent /\ way' = "typed"
      /\ UNCHANGED <<idents, saved, analysis, decided>>

\* start_actions with its validate_action_batch.
StartActions(x) ==
  /\ saved = Empty /\ running = NoNode /\ Representable(x)
  /\ running' = x /\ meant' = x /\ heard' = Silent /\ way' = "typed"
  /\ UNCHANGED <<idents, saved, analysis, decided>>

\* Restored before any state is; the analysis is not made again afterwards.
Restart ==
  /\ analysis # NoNode
  /\ analysis' = Reanalyze(saved, NothingKnown)
  /\ meant' = IF running = NoNode /\ ~decided /\ analysis' # NoNode THEN Compile(analysis') ELSE meant
  /\ UNCHANGED <<idents, saved, decided, running, heard, way>>

LangNext ==
  \/ \E k \in Knowledge : Learn(k)
  \/ \E text \in Statements : SetScript(text) \/ Override(text)
  \/ \E x \in Requests : StartActions(x)
  \/ Decide \/ Continue \/ Finish \/ Restart
-----------------------------------------------------------------------------
(* Properties.                                                             *)

\* No option follows one that is missing.
InOrder(options) == \A i, j \in DOMAIN options : i < j /\ options[j] # <<>> => options[i] # <<>>

\* Positions tell the options of the action apart.
PositionsTell(x) ==
  CASE x.node = "buy" -> InOrder(<<x.price, Ordered(x.order), x.to>>)
    [] x.node = "sell" -> InOrder(<<x.item, x.quantity, x.price, Ordered(x.order)>>)
    [] x.node = "repair" -> InOrder(<<x.target, x.item, x.quantity>>)
    [] x.node = "refuel" -> x.item = <<>>
    [] x.node = "transfer" -> "ship" \notin {x.from[1], x.to[1]}
    [] OTHER -> TRUE

\* The list of the decision is not the one that is later made of the action.
HeardInDecision(x) == x.node # "trade_offer" /\ ~(x.node = "refuel" /\ x.target = <<>> /\ x.quantity # <<>>)

\* What the scheduler's action of a script does not keep.
KeptInScheduler(x) ==
  CASE x.node \in {"craft", "recycle"} ->
         x.source = <<>> /\ x.facility = <<>> /\ x.preset = <<>> /\ x.to \in {<<>>, <<"storage">>}
    [] x.node = "buy" -> x.to = <<>>
    [] x.node = "commission_ship" -> ~x.materials
    [] OTHER -> TRUE

(* In every tick the planner reads what the client wrote, whichever way    *)
(* the statement or the action took, but for the named shapes.             *)
PlannerHearsWhatWasSaid ==
  heard # Silent /\ PositionsTell(meant)
    /\ (way = "decision" => HeardInDecision(meant)) /\ (way = "script" => KeptInScheduler(meant))
    => heard = Meaning(meant)

(* A script that was accepted is accepted again after a restart, whatever  *)
(* was known when it was.                                                  *)
SavedScriptsRestore == saved # Empty => analysis # NoNode /\ Reanalyze(saved, NothingKnown) # NoNode

\* Actions whose printed text is refused or says something else.
Misprinted(x) ==
  \/ RemovedSyntax(Render(x)) \/ ~Lexes(Render(x))
  \/ x.node = "do" /\ (~Representable(x) \/ x.name \in Internal \cup {"modify_order"})
  \/ x.node = "buy" /\ ~(x.quantity \in Positive /\ (x.order => x.price # <<>>) /\ (x.to # <<>> => x.order))
  \/ x.node = "sell" /\ ~(InOrder(<<x.item, x.quantity \o x.price>>) /\ (x.order => Len(x.quantity \o x.price) = 2))
  \/ x.node = "repair" /\ ~PositionsTell(x)
  \/ x.node = "refuel" /\ x.item # <<>>
  \/ x.node = "transfer" /\ (x.subject = <<"all">> \/ ~PositionsTell(x))
  \/ x.node = "trade_offer" /\ x.offerCredits \o x.requestCredits = <<>> /\ x.offers \o x.requests = <<>>

(* The text that is shown for an action in the queue can be submitted      *)
(* again and is the same action, but for the named shapes.                 *)
ShownActionsReadBack ==
  running # NoNode /\ ~Misprinted(running)
    => LET back == Load(Render(running), NothingKnown).meaning IN back # NoNode /\ Compile(back) = running

=============================================================================

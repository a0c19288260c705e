---------------------------- MODULE CommandLine ----------------------------
(***************************************************************************)
(* One run of sn-module-gen (cli.py): arguments or the main menu, the      *)
(* operation lock, the developer environment of devconfig.json, the        *)
(* questions of the add wizard and the update confirmation                 *)
(* (feature_workflows.py, interaction.py), the service, and the mapping of *)
(* what it raises to an exit code.                                         *)
(*                                                                         *)
(* Data.  The JavaScript name and the namespace are one derived field: of  *)
(* its value only the package it was derived or typed for is kept.  A key  *)
(* or line at a prompt is an event; editing within a line is left out.     *)
(* What a service does to the files is GenerationPublication; here it is   *)
(* an outcome.                                                             *)
(***************************************************************************)
EXTENDS Naturals, Sequences

CONSTANTS Packages          \* package names an author may give

ASSUME CommandLineAssumption == {"none", "option"} \cap Packages = {}

VARIABLES
    args,         \* ParsedArguments: command, options given, --yes, tty
    cli,          \* pc, whether the menu launched the command, exception in flight
    locked,       \* plugin_operation_lock
    environ,      \* os.environ: as launched, or with devconfig.json applied
    wizard,       \* collector.add: index, revisit and the answers
    project,      \* untouched, generated or partial
    closed,       \* the reader of stdout is gone
    shown,        \* result, nothing or traceback
    exit

cliVars == <<args, cli, locked, environ, wizard, project, closed, shown, exit>>

Nothing == "none"
Commands == {"add", "update", "validate", "doctor"}
Fields == <<"starters", "package", "description", "derived", "version">>
CliAt(pc) == cli.pc = pc
CliTo(pc) == cli' = [cli EXCEPT !.pc = pc]

NoWizard == [index |-> 1, revisit |-> Nothing, package |-> Nothing, derived |-> Nothing, given |-> {}]
NotAsked == [command |-> Nothing, package |-> Nothing, options |-> {}, yes |-> FALSE, tty |-> TRUE]

CliInit ==
    /\ args \in [command : Commands \cup {Nothing}, package : Packages \cup {Nothing},
                 options : SUBSET {"starters", "derived"}, yes : BOOLEAN, tty : BOOLEAN]
    /\ args.command # "add" => args.options = {} /\ args.package = Nothing
    /\ args.command \notin {"add", "update"} => ~args.yes
    /\ cli = [pc |-> "parse", menu |-> FALSE, raised |-> Nothing]
    /\ locked = FALSE /\ environ = "launched"
    /\ wizard = NoWizard
    /\ project = "untouched"
    /\ closed \in BOOLEAN
    /\ shown = "nothing" /\ exit = 99

(*--------------------------- ends of the run ----------------------------*)
(* main: a result is rendered; a closed pipe turns every exit code into 0. *)
Rendered(code) ==
    /\ exit' = IF closed THEN 0 ELSE code
    /\ shown' = IF closed THEN "nothing" ELSE "result"
Quit(code) ==
    /\ exit' = IF closed THEN 0 ELSE code
    /\ UNCHANGED shown

(* An exception leaves _run_command: its context managers undo first. *)
Unwind(what) ==
    /\ cli' = [cli EXCEPT !.pc = "raised", !.raised = what]
    /\ locked' = FALSE /\ environ' = "launched"

(*------------------------ parse_arguments, _main ------------------------*)
(* Unknown or contradictory arguments are a usage failure. *)
Reject ==
    /\ CliAt("parse") /\ ~(args.command = Nothing /\ args.tty)
    /\ Rendered(2) /\ CliTo("over")
    /\ UNCHANGED <<args, locked, environ, wizard, project, closed>>

Parse ==
    /\ CliAt("parse")
    /\ \/ args.command # Nothing /\ CliTo("public") /\ UNCHANGED <<shown, exit>>
       \/ args.command = Nothing /\ args.tty /\ CliTo("menu") /\ UNCHANGED <<shown, exit>>
       \/ args.command = Nothing /\ ~args.tty /\ Rendered(2) /\ CliTo("over")
    /\ UNCHANGED <<args, locked, environ, wizard, project, closed>>

(*--------------------------- _interactive_loop --------------------------*)
MenuChoice(c) ==
    /\ CliAt("menu")
    /\ args' = [NotAsked EXCEPT !.command = c]
    /\ cli' = [cli EXCEPT !.pc = "public", !.menu = TRUE]
    /\ UNCHANGED <<locked, environ, wizard, project, closed, shown, exit>>

MenuLeft(event) ==
    /\ CliAt("menu")
    /\ Quit(IF event = "interrupt" THEN 130 ELSE 0)
    /\ CliTo("over")
    /\ UNCHANGED <<args, locked, environ, wizard, project, closed>>

(*----------------------------- _run_command -----------------------------*)
(* resolve_plugin_root, assert_public_project, the lock and the journal of *)
(* the retired workflow: each may refuse.                                  *)
RefuseCommand ==
    /\ cli.pc \in {"public", "locked"}
    /\ Unwind("error")
    /\ UNCHANGED <<args, wizard, project, closed, shown, exit>>

TakeLock ==
    /\ CliAt("public")
    /\ locked' = TRUE
    /\ CliTo("locked")
    /\ UNCHANGED <<args, environ, wizard, project, closed, shown, exit>>

(* configured_developer_environment, around the whole command. *)
ApplyEnvironment ==
    /\ CliAt("locked")
    /\ environ' \in {"launched", "devconfig"}
    /\ wizard' = [NoWizard EXCEPT
           !.package = args.package,
           !.derived = IF "derived" \in args.options THEN "option"
                       ELSE IF args.yes /\ args.package # Nothing THEN args.package ELSE Nothing,
           !.given = args.options \cup (IF args.yes THEN {"starters", "description", "version"}
                                        ELSE {})]
    /\ cli' = [cli EXCEPT !.pc = CASE args.command = "add" /\ args.tty -> "wizard"
                                   [] args.command = "update" /\ args.tty /\ ~args.yes -> "confirm"
                                   [] OTHER -> "noninteractive"]
    /\ UNCHANGED <<args, locked, project, closed, shown, exit>>

(* _add_noninteractive: without --yes every decision must be given. *)
NonInteractive ==
    /\ CliAt("noninteractive")
    /\ LET complete == args.package # Nothing
                       /\ (args.yes \/ {"starters", "derived"} \subseteq args.options) IN
       \/ /\ args.command = "add" /\ ~complete /\ Unwind("usage")
          /\ UNCHANGED wizard
       \/ /\ args.command = "add" /\ complete
          /\ wizard' = [wizard EXCEPT !.derived = IF @ = Nothing THEN args.package ELSE @]
          /\ CliTo("service") /\ UNCHANGED <<locked, environ>>
       \/ args.command # "add" /\ CliTo("service") /\ UNCHANGED <<locked, environ, wizard>>
    /\ UNCHANGED <<args, project, closed, shown, exit>>

(*------------------- FeatureDecisionCollector.add ------------------------*)
Field == Fields[wizard.index]
Answered == CASE Field = "package" -> wizard.package # Nothing
              [] Field = "derived" -> wizard.derived # Nothing
              [] OTHER -> Field \in wizard.given
Asking == CliAt("wizard") /\ wizard.index <= Len(Fields) /\ (~Answered \/ wizard.revisit = Field)
NextField(w) == [w EXCEPT !.revisit = Nothing, !.index = @ + 1]

SkipAnswered ==
    /\ CliAt("wizard") /\ wizard.index <= Len(Fields) /\ ~Asking
    /\ wizard' = NextField(wizard)
    /\ UNCHANGED <<args, cli, locked, environ, project, closed, shown, exit>>

(* Mutant: a new package name leaves the derived names as they were. *)
AnswerPackageOnly(p) ==
    /\ Asking /\ Field = "package"
    /\ wizard' = NextField([wizard EXCEPT !.package = p])
    /\ UNCHANGED <<args, cli, locked, environ, project, closed, shown, exit>>

(* A new package name forgets the names derived from the old one, unless   *)
(* an option gave them.                                                    *)
AnswerPackage(p) ==
    /\ Asking /\ Field = "package"
    /\ wizard' = NextField([wizard EXCEPT
           !.package = p,
           !.derived = IF p # wizard.package /\ "derived" \notin args.options THEN Nothing ELSE @])
    /\ UNCHANGED <<args, cli, locked, environ, project, closed, shown, exit>>

AnswerOther ==
    /\ Asking /\ Field # "package"
    /\ wizard' = NextField(IF Field = "derived" THEN [wizard EXCEPT !.derived = wizard.package]
                      ELSE [wizard EXCEPT !.given = @ \cup {Field}])
    /\ UNCHANGED <<args, cli, locked, environ, project, closed, shown, exit>>

Back ==
    /\ Asking
    /\ IF wizard.index = 1
       THEN Unwind("cancelled") /\ UNCHANGED wizard
       ELSE /\ wizard' = [wizard EXCEPT !.index = @ - 1, !.revisit = Fields[wizard.index - 1]]
            /\ UNCHANGED <<cli, locked, environ>>
    /\ UNCHANGED <<args, project, closed, shown, exit>>

(* :cancel and the end of input; Ctrl-C as a key or as a signal. *)
LeavePrompt(event) ==
    /\ Asking \/ CliAt("confirm")
    /\ Unwind(event)
    /\ UNCHANGED <<args, wizard, project, closed, shown, exit>>

WizardDone ==
    /\ CliAt("wizard") /\ wizard.index > Len(Fields)
    /\ CliTo("service")
    /\ UNCHANGED <<args, locked, environ, wizard, project, closed, shown, exit>>

(* update: a refusal cancels; Esc and :back are not caught by _confirm. *)
Confirm(answer) ==
    /\ CliAt("confirm")
    /\ CASE answer = "yes" -> CliTo("service") /\ UNCHANGED <<locked, environ>>
         [] answer = "no" -> Unwind("cancelled")
         [] answer = "back" -> Unwind("back")
    /\ UNCHANGED <<args, wizard, project, closed, shown, exit>>

(*------------------------------ the service -----------------------------*)
ServiceReturns(ok) ==
    /\ CliAt("service")
    /\ project' = IF args.command \in {"add", "update"} THEN "generated" ELSE project
    /\ Rendered(IF ok THEN 0 ELSE 1)
    /\ CliTo("over")
    /\ locked' = FALSE /\ environ' = "launched"
    /\ UNCHANGED <<args, wizard, closed>>

(* An error before anything was written, a partial generation, or Ctrl-C,  *)
(* which the service passes on even when files have been published.        *)
ServiceRaises(what) ==
    /\ CliAt("service")
    /\ what = "partial" => args.command \in {"add", "update"}
    /\ project' \in CASE what = "partial" -> {"partial"}
                      [] what = "signal" /\ args.command \in {"add", "update"}
                            -> {"untouched", "partial"}
                      [] OTHER -> {"untouched"}
    /\ Unwind(what)
    /\ UNCHANGED <<args, wizard, closed, shown, exit>>

(*-------------------- what becomes of an exception ----------------------*)
(* Mutant: a cancellation covers everything the menu launched. *)
MenuCatchesAll ==
    /\ CliAt("raised") /\ cli.menu
    /\ cli' = [cli EXCEPT !.pc = "menu", !.menu = FALSE, !.raised = Nothing]
    /\ wizard' = NoWizard
    /\ UNCHANGED <<args, locked, environ, project, closed, shown, exit>>

(* Under the menu a cancelled command returns to the menu, Ctrl-C ends the *)
(* run; nothing else is caught.                                            *)
MenuCatches ==
    /\ CliAt("raised") /\ cli.menu
    /\ \/ /\ cli.raised = "cancelled"
          /\ cli' = [cli EXCEPT !.pc = "menu", !.menu = FALSE, !.raised = Nothing]
          /\ wizard' = NoWizard
          /\ UNCHANGED <<shown, exit>>
       \/ /\ cli.raised \in {"interrupt", "signal"}
          /\ Rendered(130) /\ CliTo("over") /\ UNCHANGED wizard
       \/ /\ cli.raised \in {"error", "usage", "partial", "back"}
          /\ shown' = "traceback" /\ exit' = 1 /\ CliTo("over") /\ UNCHANGED wizard
    /\ UNCHANGED <<args, locked, environ, project, closed>>

(* _main and _exception_result. *)
MainCatches ==
    /\ CliAt("raised") /\ ~cli.menu
    /\ Rendered(CASE cli.raised = "cancelled" -> 0
                  [] cli.raised \in {"interrupt", "signal"} -> 130
                  [] cli.raised = "usage" -> 2
                  [] cli.raised = "partial" -> 3
                  [] cli.raised \in {"error", "back"} -> 1)
    /\ CliTo("over")
    /\ UNCHANGED <<args, locked, environ, wizard, project, closed>>

CliNext ==
    \/ Reject \/ Parse \/ RefuseCommand \/ TakeLock \/ ApplyEnvironment \/ NonInteractive
    \/ SkipAnswered \/ AnswerOther \/ Back \/ WizardDone \/ MenuCatches \/ MainCatches
    \/ \E c \in Commands : MenuChoice(c)
    \/ \E p \in Packages : AnswerPackage(p)
    \/ \E e \in {"interrupt", "back"} : MenuLeft(e)
    \/ \E e \in {"cancelled", "interrupt", "signal"} : LeavePrompt(e)
    \/ \E a \in {"yes", "no", "back"} : Confirm(a)
    \/ \E ok \in BOOLEAN : ServiceReturns(ok)
    \/ \E what \in {"error", "partial", "signal"} : ServiceRaises(what)

CliSpec == CliInit /\ [][CliNext]_cliVars

(*------------------------------ properties ------------------------------*)
(* The service gets names that belong to the package it gets, however      *)
(* often the author goes back and changes answers.  With the names given   *)
(* as options a changed package keeps them, also when they were answered   *)
(* anew for the old one (FeatureDecisionCollector.add).                    *)
NamesFollowPackage ==
    CliAt("service") /\ args.command = "add" /\ "derived" \notin args.options
        => wizard.derived = wizard.package

(* A run that left the project partly generated does not end with exit     *)
(* code 0 unless nobody reads its output, and the menu never opens on such *)
(* a project as if the command had been cancelled (_main,                  *)
(* _interactive_loop).                                                     *)
ExitIsHonest ==
    /\ CliAt("over") /\ project = "partial" /\ ~closed => exit # 0
    /\ CliAt("menu") => project = "untouched" /\ ~locked /\ environ = "launched"

(*-------------------------- inductive invariant -------------------------*)
FieldNames == {"starters", "package", "description", "derived", "version"}
Answers == [index : 1 .. 6, revisit : FieldNames \cup {Nothing},
            package : Packages \cup {Nothing},
            derived : Packages \cup {Nothing, "option"}, given : SUBSET FieldNames]
CliTypes ==
    /\ args \in [command : Commands \cup {Nothing}, package : Packages \cup {Nothing},
                 options : SUBSET {"starters", "derived"}, yes : BOOLEAN, tty : BOOLEAN]
    /\ cli \in [pc : {"parse", "public", "menu", "locked", "wizard", "confirm", "noninteractive",
                     "service", "raised", "over"},
                menu : BOOLEAN,
                raised : {Nothing, "error", "usage", "cancelled", "interrupt", "signal", "partial",
                          "back"}]
    /\ wizard \in Answers
    /\ project \in {"untouched", "generated", "partial"}

(* Past a question its answer is there, and the derived names are those of *)
(* the package or not yet asked for.                                       *)
NamesInv ==
    /\ CliAt("wizard") =>
          /\ wizard.index > 2 => wizard.package # Nothing
          /\ wizard.index > 4 => wizard.derived # Nothing
    /\ CliAt("confirm") => args.command = "update"
    /\ CliAt("noninteractive") => wizard.package = args.package
    /\ cli.pc \in {"wizard", "noninteractive"} /\ "derived" \notin args.options =>
          wizard.derived \in {Nothing, wizard.package}

(* Only a service changes the project, and what it raises afterwards is    *)
(* never a cancellation.                                                   *)
UnwoundInv ==
    /\ cli.pc \notin {"raised", "over"} => project = "untouched"
    /\ CliAt("raised") /\ project # "untouched" => cli.raised \in {"partial", "signal"}
    /\ CliAt("raised") => cli.raised # Nothing
    /\ cli.pc \in {"parse", "menu", "raised"} => ~locked /\ environ = "launched"

CliInv == CliTypes /\ NamesInv /\ UnwoundInv /\ NamesFollowPackage /\ ExitIsHonest
=============================================================================

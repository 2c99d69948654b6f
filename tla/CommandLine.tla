---------------------------- MODULE CommandLine ----------------------------
(* One call of a command-line application (pkg/cli: app.go, chain.go): its    *)
(* registry is checked once, answers to prompts are taken out of the          *)
(* arguments, Cobra finds the command and its flags, and the command runs and *)
(* asks. A name, a flag, a key or a value is a model value; texts are left    *)
(* out. Cobra is modelled by what app.go relies on.                           *)
EXTENDS Naturals, Sequences, FiniteSets, FiniteSetsExt

CONSTANTS
    Registries,     \* [commands, flags, groups]: what was added before the first run
    Calls,          \* [args, env]: arguments, and the environment variables that are set
    Matches(_, _),  \* path.Match(pattern, key)
    Rank(_)         \* literal characters and wildcards of a pattern

VARIABLES registry, call, cli
cliVars == <<registry, call, cli>>

NoOne == "nobody"
Words(s) == {s[i] : i \in DOMAIN s}
NamesOf(flags) == {f.name : f \in Words(flags)}
ShortsOf(flags) == {f.short : f \in Words(flags)} \ {NoOne}

-----------------------------------------------------------------------------
(* validateRegistry: identities are unique among siblings, flags are unique  *)
(* and shadow no inherited one, and a command that runs says how.            *)
Unique(list, of(_)) == \A i, j \in DOMAIN list : of(list[i]) \cap of(list[j]) # {} => i = j

Identities(spec) == {spec.name} \cup spec.aliases

IdentitiesDiffer(specs) == Unique(specs, Identities)

validateFlagSpecs(flags, names, shorts) ==
    /\ Unique(flags, LAMBDA f : {f.name}) /\ NamesOf(flags) \cap names = {}
    /\ Unique(flags, LAMBDA f : {f.short} \ {NoOne}) /\ ShortsOf(flags) \cap shorts = {}

Runs(spec) ==
    /\ spec.mode \in {"bootstrap", "application"} /\ spec.effect # "unspecified"
    /\ spec.positional \in {"none", "any", "custom"}
    /\ (spec.positional = "custom") = spec.validates

RECURSIVE validateSiblings(_, _, _, _)
validateSiblings(specs, groups, names, shorts) ==
    /\ IdentitiesDiffer(specs)
    /\ \A spec \in Words(specs) :
        /\ Identities(spec) \cap {"help", "completion"} = {}
        /\ spec.group \in groups \cup {NoOne}
        /\ spec.run => Runs(spec)
        /\ validateFlagSpecs(spec.flags, names, shorts)
        /\ validateSiblings(spec.commands, groups, names \cup NamesOf(spec.flags), shorts \cup ShortsOf(spec.flags))

validateRegistry(r) ==
    /\ Unique(r.groups, LAMBDA g : {g})
    /\ validateFlagSpecs(r.flags, {}, {})
    /\ validateSiblings(r.commands, Words(r.groups), NamesOf(r.flags), ShortsOf(r.flags))

-----------------------------------------------------------------------------
(* Arguments are [kind, name, value]: a "word"; a "flag"; a "chain" argument, *)
(* whose value may be the next argument; and "end", which is --.             *)
Dashed(arg) == arg.kind \in {"flag", "chain", "end"}

\* extractChainArgs: what is left, and the answers, of which the last counts.
Refused == [args |-> << >>, answers |-> << >>, ok |-> FALSE]
extractChainArgs(args) ==
    LET Kept(arg, rest) == [rest EXCEPT !.args = <<arg>> \o @]
        Answer(key, value, rest) ==
            [rest EXCEPT !.answers = [k \in DOMAIN @ \cup {key} |-> IF k \in DOMAIN @ THEN @[k] ELSE value]]
        from[i \in 1..Len(args) + 2] ==
            IF i > Len(args) THEN [args |-> << >>, answers |-> << >>, ok |-> TRUE]
            ELSE LET arg == args[i] IN
                CASE arg.kind = "end" -> [args |-> SubSeq(args, i, Len(args)), answers |-> << >>, ok |-> TRUE]
                  [] arg.kind \in {"word", "flag"} -> Kept(arg, from[i + 1])
                  [] arg.kind = "chain" ->
                        IF arg.name = NoOne THEN Refused
                        ELSE IF arg.value # NoOne THEN Answer(arg.name, arg.value, from[i + 1])
                        ELSE IF i = Len(args) \/ Dashed(args[i + 1]) THEN Refused
                        ELSE Answer(arg.name, args[i + 1].name, from[i + 2])
    IN  from[1]

\* promptAnswer: the key itself, or the pattern with most literal characters,
\* then fewest wildcards.
Before(p, q) ==
    \/ Rank(p).literals > Rank(q).literals
    \/ Rank(p).literals = Rank(q).literals /\ Rank(p).wildcards <= Rank(q).wildcards
promptAnswer(answers, key) ==
    LET patterns == {p \in DOMAIN answers \ {key} : Matches(p, key)}
        best == CHOOSE p \in patterns : \A q \in patterns : Before(p, q)
    IN  IF key \in DOMAIN answers THEN answers[key]
        ELSE IF patterns # {} THEN answers[best]
        ELSE NoOne

-----------------------------------------------------------------------------
(* Cobra: the words name a path as long as they name a command; the rest, and *)
(* what follows --, is positional.                                            *)
Named(specs, word) == CHOOSE s \in Words(specs) : word \in Identities(s)
Known(specs, arg) == \E s \in Words(specs) : arg.name \in Identities(s)
Reach(spec, rest) == [spec |-> spec, rest |-> rest]

RECURSIVE Walk(_, _, _)
Walk(spec, specs, words) ==
    IF words # << >> /\ Head(words).kind = "word" /\ Known(specs, Head(words))
    THEN LET next == Named(specs, Head(words).name) IN Walk(next, next.commands, Tail(words))
    ELSE Reach(spec, words)

\* What follows -- is no option, and names no command.
Ending(args) == {i \in DOMAIN args : args[i].kind = "end"}
Options(args) == SelectSeq(IF Ending(args) = {} THEN args ELSE SubSeq(args, 1, Min(Ending(args))), LAMBDA a : a.kind = "flag")
Others(args) ==
    [i \in DOMAIN args |-> IF \E e \in Ending(args) : e < i THEN [args[i] EXCEPT !.kind = "word"] ELSE args[i]]
Root == [name |-> NoOne, run |-> FALSE, flags |-> << >>, positional |-> "any", commands |-> << >>]
Reached(args) == Walk(Root, registry.commands, SelectSeq(args, LAMBDA a : a.kind # "flag"))

\* A flag's value: the last one given, or the environment's, or its default.
Given(flag, args) == {i \in DOMAIN args : args[i].name = flag.name}
defaultSource(flag) == IF flag.env \in DOMAIN call.env THEN call.env[flag.env] ELSE flag.value
Value(flag, args) ==
    IF Given(flag, args) = {} THEN defaultSource(flag)
    ELSE args[Max(Given(flag, args))].value

-----------------------------------------------------------------------------
(* The call. Every outcome of a command is one of four errors, or none.      *)
Step(phase) == cli' = [cli EXCEPT !.phase = phase] /\ UNCHANGED <<registry, call>>
Ends(outcome) == cli' = [cli EXCEPT !.phase = "ended", !.outcome = outcome] /\ UNCHANGED <<registry, call>>

freeze ==
    /\ cli.phase = "new"
    /\ IF validateRegistry(registry) THEN Step("frozen") ELSE Ends("registry")

extract ==
    /\ cli.phase = "frozen"
    /\ LET got == extractChainArgs(call.args)
       IN  IF ~got.ok THEN Ends("usage")
           ELSE IF got.args = << >> THEN Ends("shell")
           ELSE /\ cli' = [cli EXCEPT !.phase = "parse", !.args = got.args, !.answers = got.answers]
                /\ UNCHANGED <<registry, call>>

\* Unknown commands and flags are usage errors, and so are a missing flag and
\* words that the command does not accept; one that does not run shows its help.
Accepts(spec, words) ==
    CASE spec.positional = "none" -> words = << >>
      [] spec.positional = "custom" -> words # << >>
      [] OTHER -> spec.positional = "any"

execute ==
    LET reached == Reached(cli.args)
        spec == reached.spec
        options == Options(cli.args)
        flags == Words(registry.flags) \cup Words(spec.flags)
        words == SelectSeq(Others(reached.rest), LAMBDA a : a.kind = "word")
    IN  /\ cli.phase = "parse"
        /\ IF \/ ~(NamesOf(options) \subseteq {f.name : f \in flags})
              \/ spec = Root /\ words # << >>
              \/ \E f \in Words(spec.flags) : f.required /\ Value(f, options) = NoOne
              \/ ~Accepts(spec, words)
           THEN Ends("usage")
           ELSE IF ~spec.run THEN Ends("help")
           ELSE /\ cli' = [cli EXCEPT !.phase = "running", !.command = spec, !.words = words]
                /\ UNCHANGED <<registry, call>>

\* The command asks to confirm: an answer that is given is used or refused, and
\* the terminal is asked only if there is none.
Confirm ==
    /\ cli.phase = "running" /\ cli.confirmed = "unasked"
    /\ LET answer == promptAnswer(cli.answers, "confirm")
       IN  \/ answer = NoOne /\ \E said \in {"yes", "no"} : cli' = [cli EXCEPT !.confirmed = said, !.asked = TRUE]
           \/ answer \in {"yes", "no"} /\ cli' = [cli EXCEPT !.confirmed = answer]
           \/ answer \notin {"yes", "no", NoOne} /\ cli' = [cli EXCEPT !.phase = "ended", !.outcome = "command"]
    /\ UNCHANGED <<registry, call>>

Return ==
    /\ cli.phase = "running"
    /\ \E outcome \in {"ok", "command", "canceled", "config", "usage"} : Ends(outcome)

CliInit ==
    /\ registry \in Registries /\ call \in Calls
    /\ cli = [phase |-> "new", outcome |-> "none", args |-> << >>, answers |-> << >>, command |-> Root,
              words |-> << >>, confirmed |-> "unasked", asked |-> FALSE]

CliNext == freeze \/ extract \/ execute \/ Confirm \/ Return

-----------------------------------------------------------------------------
(* Properties.                                                               *)
CliTypeOK ==
    /\ cli.phase \in {"new", "frozen", "parse", "running", "ended"}
    /\ cli.confirmed \in {"unasked", "yes", "no"} /\ cli.asked \in BOOLEAN

Meant(specs, word) == {i \in DOMAIN specs : word \in Identities(specs[i])}
Answering == {k \in DOMAIN call.args :
    /\ call.args[k].kind = "chain" /\ Matches(call.args[k].name, "confirm")
    /\ \A e \in Ending(call.args) : k < e}
Says(k) == IF call.args[k].value # NoOne THEN call.args[k].value ELSE call.args[k + 1].name

\* When a command runs, no word of the call could have meant two commands; and
\* what it is told is confirmed was said by the last argument for the key or for
\* a pattern of it, and by the user only if there is no such argument.
CommandIsMeant ==
    /\ CliTypeOK
    /\ cli.phase = "running" =>
        /\ \A k \in DOMAIN call.args :
             /\ Cardinality(Meant(registry.commands, call.args[k].name)) <= 1
             /\ Cardinality(Meant(cli.command.commands, call.args[k].name)) <= 1
        /\ cli.asked => Answering = {}
        /\ cli.confirmed # "unasked" /\ ~cli.asked =>
             \E k \in Answering :
                /\ Says(k) = cli.confirmed
                /\ \A l \in Answering : call.args[l].name = call.args[k].name => l <= k

-----------------------------------------------------------------------------
(* The interactive shell (pkg/cli/shell.go): an Update loop that handles one  *)
(* message at a time, and a goroutine per activated command, its flow. Flows  *)
(* send prompts and output over one channel of events, of which one at a time *)
(* is on its way to Update; the end of a flow comes beside that channel. What *)
(* is drawn, other than the scene, is left out, and so is the text that is    *)
(* typed; logs are the scene task.                                            *)

CONSTANTS
    Flows,      \* activations of commands
    Asks,       \* how many prompts each flow has (bound)
    Room        \* capacity of events (256 in the code)

NoFlow == "none"
NoPrompt == [flow |-> NoFlow, kind |-> "none", number |-> 0, default |-> FALSE]

VARIABLES
    model,      \* shellModel: scene, previousScene, prompt, promptSelected,
                \* paletteOpen, and the flow that flowCancel ends
    events,     \* prompts and output on their way
    flows,      \* what each flow is doing, its context and its last answer
    ended,      \* "no", or how the program ended
    moved       \* the user chose since the prompt came up (history)

shellVars == <<model, events, flows, ended, moved>>

Prompt(f, kind, number, default) == [flow |-> f, kind |-> kind, number |-> number, default |-> default]
Output == [NoPrompt EXCEPT !.kind = "output"]
Asked(f, prompt) == flows[f].step = "waiting" /\ prompt.flow = f /\ prompt.number = flows[f].asked
Shows(scene) == ended = "no" /\ ~model.palette /\ model.scene = scene
Going == {f \in Flows : flows[f].step \in {"running", "waiting"}}

Blank == [scene |-> "home", previous |-> "home", prompt |-> NoPrompt, selected |-> 0,
          palette |-> FALSE, cancels |-> NoFlow]

-----------------------------------------------------------------------------
(* Flows. Only a request for an answer looks at the flow's context, so every  *)
(* other step of a command is possible whatever becomes of it; a write, or a  *)
(* prompt, waits for room.                                                    *)
Send(event) == Len(events) < Room /\ events' = Append(events, event)

Ask(f, kind, default) ==
    /\ flows[f].step = "running" /\ flows[f].asked < Asks[f]
    /\ Send(Prompt(f, kind, flows[f].asked + 1, default))
    /\ flows' = [flows EXCEPT ![f].step = "waiting", ![f].asked = @ + 1]
    /\ UNCHANGED <<model, ended, moved>>

\* The response, or the end of the context.
Response(f) ==
    /\ flows[f].step = "waiting" /\ (flows[f].answer # "none" \/ flows[f].canceled)
    /\ flows' = [flows EXCEPT ![f].step = "running", ![f].answer = "none"]
    /\ UNCHANGED <<model, events, ended, moved>>

Write(f) ==
    /\ flows[f].step = "running" /\ Send(Output)
    /\ UNCHANGED <<model, flows, ended, moved>>

EndFlow(f) ==
    /\ flows[f].step = "running"
    /\ flows' = [flows EXCEPT ![f].step = "done"]
    /\ UNCHANGED <<model, events, ended, moved>>

-----------------------------------------------------------------------------
(* Messages to Update.                                                       *)
sceneForPrompt(prompt) ==
    CASE prompt.kind = "select" -> "menu"
      [] prompt.kind = "confirm" -> "confirm"
      [] OTHER -> "form"

PromptSelected(prompt) == IF prompt.kind = "confirm" /\ ~prompt.default THEN 1 ELSE 0

\* Faulty: the choice stays where an earlier prompt left it.
KeepSelected(prompt) ==
    model' = [model EXCEPT !.prompt = prompt, !.scene = sceneForPrompt(prompt)]

ShowPrompt(prompt) ==
    model' = [model EXCEPT !.prompt = prompt, !.scene = sceneForPrompt(prompt), !.selected = PromptSelected(prompt)]

TakeEvent ==
    /\ ended = "no" /\ events # << >>
    /\ events' = Tail(events)
    /\ IF Head(events) = Output THEN UNCHANGED <<model, moved>>
       ELSE ShowPrompt(Head(events)) /\ moved' = FALSE
    /\ UNCHANGED <<flows, ended>>

FlowDone(f) ==
    /\ ended = "no" /\ flows[f].step = "done"
    /\ flows' = [flows EXCEPT ![f].step = "over"]
    /\ model' = [model EXCEPT !.cancels = NoFlow, !.prompt = NoPrompt, !.scene = "result"]
    /\ moved' = FALSE /\ UNCHANGED <<events, ended>>

-----------------------------------------------------------------------------
(* Keys. A response finds the one-place channel of its prompt full, or nobody *)
(* reading it any more, without harm.                                         *)
respond(answer) ==
    flows' = [f \in Flows |->
        IF Asked(f, model.prompt) /\ flows[f].answer = "none" THEN [flows[f] EXCEPT !.answer = answer]
        ELSE flows[f]]

cancelPrompt == respond("canceled") /\ UNCHANGED model

Submit(answer) ==
    /\ respond(answer)
    /\ model' = [model EXCEPT !.prompt = NoPrompt, !.scene = "task"]
    /\ moved' = FALSE /\ UNCHANGED <<events, ended>>

Goes(scene) == model' = [model EXCEPT !.scene = scene] /\ UNCHANGED <<events, flows, ended, moved>>

\* What the model shows does not matter any more. Every flow's context is a child of the shell's, which quit cancels too.
quit(how) ==
    /\ ended' = how
    /\ flows' = [f \in Flows |->
         IF flows[f].step = "none" THEN flows[f]
         ELSE [flows[f] EXCEPT !.canceled = TRUE,
                               !.answer = IF Asked(f, model.prompt) /\ @ = "none" THEN "canceled" ELSE @]]
    /\ model' = Blank /\ moved' = FALSE /\ UNCHANGED events

\* A command may be activated over one that still runs.
activateCommand(f) ==
    /\ flows[f].step = "none"
    /\ flows' = [flows EXCEPT ![f].step = "running"]
    /\ model' = [model EXCEPT !.cancels = f, !.prompt = NoPrompt, !.scene = "task", !.palette = FALSE]
    /\ moved' = FALSE /\ UNCHANGED <<events, ended>>

Help == model' = [model EXCEPT !.previous = model.scene, !.scene = "help", !.palette = FALSE]
        /\ UNCHANGED <<events, flows, ended, moved>>

Activate == (\E f \in Flows : activateCommand(f)) \/ Help \/ quit("exited")

\* On every scene; in the palette only ctrl+c is just another key.
Anywhere ==
    /\ ended = "no" /\ ~model.palette
    /\ \/ Help
       \/ quit("canceled")
       \/ model' = [model EXCEPT !.palette = TRUE] /\ UNCHANGED <<events, flows, ended, moved>>

handlePaletteKey ==
    /\ ended = "no" /\ model.palette
    /\ \/ Activate
       \/ model' = [model EXCEPT !.palette = FALSE] /\ UNCHANGED <<events, flows, ended, moved>>

handleHomeKey == Shows("home") /\ (Activate \/ quit("exited"))

Move == /\ model' = [model EXCEPT !.selected = 1 - @]
        /\ moved' = TRUE /\ UNCHANGED <<events, flows, ended>>

handleMenuKey ==
    /\ Shows("menu")
    /\ IF model.prompt = NoPrompt THEN Goes("task")
       ELSE \/ Move
            \/ Submit("option")
            \/ cancelPrompt /\ UNCHANGED <<events, ended, moved>>

handleConfirmKey ==
    /\ Shows("confirm")
    /\ IF model.prompt = NoPrompt THEN Goes("task")
       ELSE \/ Move
            \/ Submit("yes")
            \/ Submit("no")
            \/ Submit(IF model.selected = 0 THEN "yes" ELSE "no")
            \/ cancelPrompt /\ UNCHANGED <<events, ended, moved>>

handleFormKey ==
    /\ Shows("form")
    /\ \/ Submit("text")
       \/ cancelPrompt /\ UNCHANGED <<events, ended, moved>>

handleTaskKey ==
    /\ Shows("task")
    /\ \/ /\ model.cancels # NoFlow
          /\ flows' = [flows EXCEPT ![model.cancels].canceled = TRUE]
          /\ UNCHANGED <<model, events, ended, moved>>
       \/ model.cancels = NoFlow /\ Goes("home")
       \/ quit("canceled")

handleResultKey == Shows("result") /\ (Goes("home") \/ quit("exited"))
handleHelpKey == Shows("help") /\ (Goes(model.previous) \/ quit("canceled"))

Keys == \/ Anywhere \/ handlePaletteKey \/ handleHomeKey \/ handleMenuKey \/ handleConfirmKey
        \/ handleFormKey \/ handleTaskKey \/ handleResultKey \/ handleHelpKey

\* The context of the shell ends: the program is killed.
Kill == ended = "no" /\ quit("canceled")

-----------------------------------------------------------------------------
ShellInit ==
    /\ model = Blank
    /\ events = << >>
    /\ flows = [f \in Flows |-> [step |-> "none", asked |-> 0, canceled |-> FALSE, answer |-> "none"]]
    /\ ended = "no" /\ moved = FALSE

ShellNext ==
    \/ \E f \in Flows :
        \/ \E kind \in {"select", "confirm", "input"}, default \in BOOLEAN :
             (kind # "confirm" => ~default) /\ Ask(f, kind, default)
        \/ Response(f) \/ Write(f) \/ EndFlow(f) \/ FlowDone(f)
    \/ TakeEvent \/ Keys \/ Kill

-----------------------------------------------------------------------------
(* Properties.                                                               *)
ShellTypeOK ==
    /\ model.scene \in {"home", "menu", "form", "confirm", "task", "result", "help"}
    /\ model.cancels \in Flows \cup {NoFlow} /\ model.selected \in {0, 1}
    /\ Len(events) <= Room /\ ended \in {"no", "exited", "canceled"}
    /\ \A f \in Flows : flows[f].step \in {"none", "running", "waiting", "done", "over"}

\* What is on the screen is the prompt that a key answers, after help, a second
\* command, or a prompt of a flow that has given it up; and nobody agrees to
\* what defaults to no by a choice made for another prompt.
AnswersAreMeant ==
    model.prompt # NoPrompt =>
        /\ model.scene \in {"menu", "confirm", "form"} => model.scene = sceneForPrompt(model.prompt)
        /\ model.prompt.kind = "confirm" /\ ~moved => model.selected = PromptSelected(model.prompt)

\* The prompt can be answered: it is on the screen, or one key away behind the help.
InReach(prompt) ==
    LET scene == sceneForPrompt(prompt) IN
    model.scene = scene \/ (model.scene = "help" /\ model.previous = scene)

\* `?` while the help is shown makes help the scene to return to: esc and enter lead
\* from help to help, and what was behind it is out of reach for good.
HelpInHelp == model.scene = "help" /\ model.previous = "help"

\* The only command that was activated waits for an answer that can be given: its
\* prompt is on its way, on the screen or behind the help, or answered; and when the
\* shell ends, no flow is left waiting. One prompt is lost, against "esc: back or
\* cancel current prompt" (shell.go:747): the one behind a help opened from the
\* help, which ends with the shell only (handleKey, shell.go:232-236).
NoPromptIsForgotten ==
    /\ \A f \in Flows :
        flows[f].step = "waiting" /\ (\A g \in Flows \ {f} : flows[g].step = "none") =>
            \/ flows[f].answer # "none" \/ flows[f].canceled
            \/ \E i \in DOMAIN events : Asked(f, events[i])
            \/ Asked(f, model.prompt) /\ (InReach(model.prompt) \/ HelpInHelp)
    /\ ended # "no" => \A f \in Going : flows[f].canceled

\* Both: a key answers the prompt that is on the screen, and every prompt gets there.
ShellIsSound == ShellTypeOK /\ AnswersAreMeant /\ NoPromptIsForgotten
=============================================================================

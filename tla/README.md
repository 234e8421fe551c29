# complyctl in TLA+

Specifications, model-checking configurations and machine-checked proofs for complyctl, the
command that turns compliance content (OSCAL component definitions) into an assessment plan, has
policy plugins generate policies from it, has them scan the system, and reports the results. The
specifications follow the Go code of `src/cmd`, `src/internal` and of the vendored libraries that
hold complyctl's control flow: compliance-to-policy-go (plugin discovery, launch and calls),
oscal-sdk-go (settings of a plan), errgroup and go-plugin.

## The system

| Component | State | Operations | Interacts through | What is hard |
|---|---|---|---|---|
| Assessment scope (`internal/complytime/scope.go`, `cli/plan.go`) | the plan in memory: per activity its controls, the marks skipped and waived, its parameters | plan --dry-run (template), plan --scope-config (three passes) | the scope file, the written plan | passes that look at each other's leavings; entries that override each other; wildcards; a plan file that changes completely or not at all |
| Plan settings (oscal-sdk-go `settings`) | the rules and parameter values of a plan | NewAssessmentActivitiesSettings, ApplyToComponent | read from the plan by generate and scan, given to every plugin call | values stored by name for the whole plan |
| Plan and results files (`internal/complytime/plan.go`, `scan.go`) | assessment-plan.json, assessment-results.json | write by truncation, read | the workspace directory | commands that die or overlap |
| generate and scan (`cli/generate.go`, `cli/scan.go`, `main.go`) | the command's context, its plugins | load plan, launch, call, report, clean up | all of the above | interrupts, cleanup on every way out |
| Plugin discovery and launch (`internal/complytime/plugins.go`, compliance-to-policy-go `plugin`, `framework/manager.go`) | manifests, clients | find, resolve selections, launch, configure | processes over gRPC (go-plugin) | one of several failing; a plugin that hangs |
| Policy actions (compliance-to-policy-go `framework/actions`) and errgroup | goroutines, semaphore, result channel, first error | GeneratePolicy, AggregateResults | calls to plugins | interleaving, deadlock, cancellation, channel closing |
| openscap plugin (`cmd/openscap-plugin`) | its configuration; tailoring file, ARF file, remediation files in the workspace | Configure, Generate, GetResults | oscap processes, the datastream | stale files, a profile and its tailoring, orphaned oscap, a datastream searched anew by every command |
| Report (compliance-to-policy-go `actions/report.go`, oscal-sdk-go `results`) and Markdown | observations, findings, risks | Report, GenerateAssessmentResults, template | the plugins' results and the plan | merging observations of several plugins, by check and by title; waived rules; checks without a result |
| Frameworks, controls, info, list, options, terminal, logging | none | read-only display | component definitions | nothing that concurrency or order could break |

`PROJECT.json` lists every component with its sources and whether it is modelled, and every hazard
with its line in the code and the properties that would notice it going wrong.

What makes the components correct:

* *Scope*: an activity keeps exactly the controls for which the scope declares its rule, is skipped
  exactly when none is left, is waived exactly when a remaining control waives the rule; parameters
  take validated values, exactly those of the right control; the plan file says all of that, or stays
  what an earlier command wrote.
* *Calls*: no send on the closed channel, nobody waiting in a circle, no more calls at a time than
  allowed, the reported error is a plugin's own, success means every plugin answered, and every
  call ends unless a plugin hangs and nobody interrupts.
* *Processes*: none outlives its command, none runs that was not asked for, and a command that
  succeeds has called every requested plugin.
* *Workspace*: whatever dies or overlaps, results come from an evaluation for the framework of the
  plan that they name, and, if no other oscap writes the ARF file in between, from the scan's own
  evaluation.
* *Tailoring*: scanning with the differences evaluates the policy, whatever the profile lists.
* *Template*: the scope file that plan --dry-run writes, given back unedited, keeps what template and
  plan both see: controls, and parameters on which the components agree.
* *Configuration*: generate and scan, which each look for the datastream, take the same one unless
  something was updated; a refused configuration touches nothing; no scan damages a tailoring file.
* *Report*: a rule of which only failures are reported leads to a finding against each of its controls, a finding rests on a failed
  rule of its control, waivers are shown where they were planned.

## The modules

| Module | Models | Variables and the code's state | Actions and the code's operations |
|---|---|---|---|
| `AssessmentScope` | one `plan --scope-config` and the first thing a later command does with its plan | `related`, `skipped`, `waived`, `value`: RelatedControls and properties of each activity; `reviewed`: the plan's control selections; `planFile`: assessment-plan.json, `earlier` what a command before left there; `settings`: the Settings read from it | one action per pass (`applyControlScope`, `applyRuleScope`, `applyParameterScope`, with `rejectParameters` its early return), `WritePlan`, `LoadSettings` |
| `PluginFanOut` | GeneratePolicy and AggregateResults on an errgroup | `pc`: each goroutine; `once`, `err`, `cancelled`: the group; `buffer`, `closed`, `closer`: the channel; `allResults` | the steps of a goroutine, of the main goroutine and of the closer, each the code between two points at which others can interfere |
| `PluginCallContract` | what these calls promise their command | `gathered`, `outcome` | an answer is gathered, the calls succeed, an error or a cancellation is reported |
| `PluginLifecycle` | the plugin processes of one command | `process` per plugin, `found`, where the command stands | discovery, selections, launch, configure and their failures, the calls (as the contract's actions), report, kill, exit |
| `Workspace` | the files through which commands hand work to each other | `plan`, `policy`, `arf`, `results` files; per shell the command's place and what it remembers; `orphans` | the steps of plan, generate and scan between which files can change; death; an orphaned oscap's end |
| `Tailoring` | the tailoring of the datastream's profile and what oscap makes of it | `unselects`, `selects`, `setValues`: the tailoring; `remediated`, `evaluated`, `evaluatedWith`: oscap's work | `GetDsProfile`, `getTailoringSelections`, `getTailoringValues`, `OscapGenerateFix`, `OscapScan` |
| `ScopeTemplate` (extends `AssessmentScope`) | plan --dry-run, and --scope-config with its output unedited | `bundle`: the control implementations of the component definitions; `scope` and `generated` are the template (`IsTemplate`) and the plan (`PlanOf`) made of it | those of `AssessmentScope`; the template is made in the initial state |
| `Results` | from the ARF file to the assessment results | `arf`, `others`: what was reported; `associated`: the observations that GenerateAssessmentResults collects; `marked`: subjects with the waived property; `findings` | `GetResults` of the plugin, `toOscalObservations`, `AssociateActivity` for one activity after another, `generateFindings`, and the two ways to panic |
| `OpenscapConfig` | the openscap plugin's configuration, command after command | `contents`, `system`: installed datastreams and os-release; `entries`: the directories of the workspaces; `files`: tailoring, results and ARF files by path; `options`, `datastream`, `todo`: one plugin process | `LoadSettings`, `CheckDatastream`, one `EnsureDirectory` at a time, `defineFilesPaths`; what Generate and GetResults do with the paths; `Update`, `Die` |

How they compose: `PluginFanOut` implements `PluginCallContract` (a refinement mapping: `gathered`
is `allResults`, `outcome` is the group's error once main has returned), and `PluginLifecycle` uses
the contract's actions where the command calls its plugins. `ScopeTemplate`
starts `AssessmentScope` from the scope file and the plan that a bundle gives. The settings that
`AssessmentScope` ends with are the policy that `Tailoring` begins with, and its marks are those of the
plans of `Results`. `Workspace` keeps of both only which plan a file was made from, and fixes the
configuration; `OpenscapConfig` varies the configuration and keeps of a file only which datastream it
was made with. `MC*` modules give the instances for TLC.

Operators named `...` with a comment that begins "Mutant:" are not part of the model. Each is a
definition with a plausible bug; substituted for the definition after it, it makes a property of
that module fail, which shows that the property can fail.

## What is abstracted

* Rule, parameter and file names are model values; a control's id is a number because the code sorts
  them; a rule list is a set; the list of control entries stays a sequence because position decides.
* A plan, in `Workspace`, is a model value with a framework. A tailoring file is the plan it was
  generated from and an ARF file the tailoring that was evaluated, so that stale files show.
* A file is written in two steps, truncation and content. That two writers' contents could mix is
  left out: for plans the decoder stops at the end of the first JSON value.
* What a plugin does (no validation component, no rule in scope, an answer, an error, nothing) is
  chosen in the beginning, and the moment it does it is left open. Configuration likewise.
* oscap is not part of the repository: `Tailoring` and `Workspace` model it as far as the plugin
  relies on it (which profile a name selects, when it writes the ARF file); `PROJECT.json` marks
  those definitions external.
* The plan file of `AssessmentScope` is written at once (`Workspace` has its truncation). What an earlier
  command left is given, and is not touched by a command that is refused; a later command reads it then.
* In `ScopeTemplate` an implementation names the framework by property, by the path of its source, or
  is of another; a remarks group is the list of what each component ties by it. Bundles whose plan would
  have an activity without controls are left out: the transformer makes none.
* In `Results` an observation is its plugin and position, its subjects a set of results. Whether
  openscap or the other plugins come last is open, as is which of several observations for one check a
  map iteration finds. Inventory items, resources, evidence and origins are left out.
* In `OpenscapConfig` paths are model values, with what matters of them given per path (directory,
  distribution, version, expansion of `~`). A tailoring file is the datastream it was made with, the
  option that was given and the number of updates until then.

## The runs

Passing runs:

| Run | Instance | What it shows |
|---|---|---|
| `scope` | two activities, two controls, scope files of up to two entries | the result of the passes equals a direct reading of the scope file (`Declares`, `DeclaresWaived`), over every combination of lists including wildcards and of a control listed twice; every parameter gets exactly what the right entry of the right control selects (`ParametersAsDeclared`, which reads both off the scope file); the plugins get what is declared for the last of the assessed activities with the parameter (`LastSelectionArrives`); the plan file says all that the scope declares or, if one selection is inadmissible, stays the earlier one, and it is that one which is then read (`PlanFileAllOrNothing`) |
| `template` | two implementations, each naming the framework in three ways, mapping rules in six and setting a parameter in four; three components of which two share their remarks | an unedited template keeps the controls and agreed parameters of the plan, and is refused only over values that the components exclude themselves |
| `fanout` | three plugins, two at a time, both actions, every combination of behaviours, an interrupt at any time | the safety of goroutines and channel, that somebody can always go on unless a plugin hangs, the refinement of the contract, and that the calls end |
| `lifecycle` | two plugins, both commands, every combination of requests, manifests, configurations and behaviours | processes are cleaned up on every way out; success covers the requested plugins; commands end |
| `workspace_undisturbed` | two shells, three plans of two frameworks, deaths at any step, orphaned oscap processes; no other oscap runs while an ARF file has yet to be read (`UndisturbedSpec`) | results are observed from the scan's own oscap |
| `workspace_concurrent` | two shells, orphaned oscap processes | results never mix frameworks |
| `config` | six configurations, three workspaces (one given as `~`), four installed datastreams in three directories, one update, deaths at any step | a scan evaluates the datastream that its tailoring was made with, refusals touch nothing and have a reason, and remediations lie where they were meant to |
| `tailoring` | two rules, a variable with two values, up to two parameters, every datastream | the tailored profile evaluates exactly the policy |
| `results` | two activities, two checks, up to two rule results, at most one observation of another plugin | findings rest on evidence, a check reported as failing only is not lost (whichever of its observations is taken), waivers are marked as planned, and scans are refused or crash only for the reasons named |

Violated statements of the documentation (each run checks one; `PROJECT.json` quotes them under
"findings"):

| Run | The documentation says | The code |
|---|---|---|
| `doc_global_waive` | globalWaiveRules take priority over includeRules (README.md) | filters by includeRules first, and then nothing is left to waive |
| `doc_waived_parameters` | parameters of a globally waived rule are not altered (complyctl.md) | updates the parameters of every activity |
| `doc_remediation` | remediation is based on the whole policy (complyctl-openscap-plugin.md) | generates fixes for the untailored profile |

### What the properties leave open, because the code does

A property with a premise says less than a reader may expect; these are the cases outside:

* Parameters are stored by name for the whole plan: two controls that select different values are both
  evaluated with the last activity's. `LastSelectionArrives` says exactly that; what else was selected is
  lost, and `KeepsAgreedParameters` asks for agreement.
* A plan written after generate is scanned with the tailoring of the plan before, if it is of the same
  framework (`ScannedOwnFramework` speaks of frameworks only). An oscap process that survives its
  killed scan, or that of a concurrent scan, may overwrite the ARF file of another one before it is read.
  `ObservedOwnScan` is checked and proved where that does not happen (`ArfUndisturbed`); nothing in the
  code prevents it.
* A control whose implementation names the framework only by the path of its source is in the default
  plan but not in the template, so that an unedited template drops it (`KeepsControls` has the premise
  `NamedByProperty`). A parameter set to several values is ignored by the plan, and the template selects
  the first of them.
* Of two observations for one check a step gets either, in no fixed order, and of two of one title the
  last is kept: a failure beside a pass for the same check, or under the title of another check's
  observation, may be dropped (`OnlyFailuresFor`, the premise of `FailuresReported`). A check that two
  rules share counts for the last one indexed only.
* An update of the system's content between generate and scan, or different datastream options, let a scan
  evaluate another datastream than the one its tailoring was made for: nothing in the code compares them
  (the premise of `ScansWhatWasTailored`).
* A waived activity with a check that has no result makes scan panic, and so does a plan without steps
  (`CrashesOnlyWithoutResults`).
* Without a datastream option, the datastream is the match that the directory walk finds last among the
  files it looks at, not that of the first id in os-release: an ID_LIKE match may win.
* With a workspace under `~`, the directories are made in the home directory, and oscap is told to write
  the remediation files under a path that begins with `~`: generate fails, its tailoring file written
  (`RemediationsBesideTailoring`). A file in the place of a directory of the workspace is accepted until
  something is written under it.

### Bounds

* Two activities and two controls: the passes treat activities independently of each other, except
  that settings merge them, for which two are needed; a selection of two controls distinguishes "some"
  from "all" and "first" from "last". Two entries let one override the other. A rule list is empty,
  names the rule, names another (includes only), or is the wildcard.
* In `scope` the earlier plan is one that skips a rule and has a value of its own, so that reading it
  differs from reading the new one; in `template` there is none, and nothing to read after a refusal.
* Three plugins with a limit of two: main blocks in `Go` while two run, and the third is started by a
  token given back. Main, the closer and a sender can each be the last that waits for the others: with
  a channel that has no room TLC finds main in `Go` waiting for senders that wait for main.
* Two plugins in `PluginLifecycle`: one is up while the other fails.
* Three plans: two of one framework (a stale tailoring that oscap accepts) and one of another (a stale
  tailoring that it refuses). `plan` may be run any number of times.
* In `Tailoring` a rule is any of: undefined, evaluated by default or not, listed selected, unselected
  or not at all. Two parameters may share the variable and disagree.

* Two implementations in `ScopeTemplate`: one may overwrite, contradict or complete the other; three
  components, so that two share remarks and a third has alternatives of its own.
* In `Results` two activities of the same or of different rules share a check or a title; two rule
  results and an observation of another plugin compete for it in either order.
* In `OpenscapConfig` the four datastreams lie in directories before, at and after the first match, and
  two of them match one system; file names are safe or not, and results and ARF may be named alike.

One variable counts, `updates` of `OpenscapConfig`, and its bound `MaxUpdates` cuts off further updates:
one suffices to change the content between a generate and a scan, and the proofs are for any bound.
Otherwise no bound cuts off a behaviour: within an instance TLC explores all of it. A
command that has ended stutters (`Done`), or the next one starts, so TLC's check for deadlock stays on in every run: any
other state without a next step is an error.

### Fairness

Safety runs assume none. `PluginFanOut` assumes weak fairness of each goroutine, of main and of the
closer: Go schedules goroutines that can run. It does not make a plugin that hangs answer, nor the
user interrupt. A cancelled call returns: grpc-go returns from an invocation whose context is done.
`PluginLifecycle` assumes weak fairness of the command's own steps, and of the calls only where
`PluginFanOut` shows that they end (`CallsMustEnd`). The other modules check safety only.

`EndsAfterInterrupt` of the lifecycle has an exception that the code makes necessary: plugins are
launched and configured with `context.Background()`, so that an interrupt does not reach a plugin
that hangs in Configure (`Stuck`).

## The proofs

The eight `*_proofs` modules prove every safety property that the passing runs check, and the type
invariants, as theorems of the specifications without fairness, for every value of the constants
(`PROJECT.json` lists the theorems; `ScopeTemplate` adds no state to `AssessmentScope`, whose
`TypeCorrect` serves for both). Each follows the same argument: an inductive invariant made of named
parts (`IInv`, or `Inv` in the later modules) holds initially, is preserved by every step (one lemma
per group of actions), and implies the property. The assumptions are those named beside the constants.

| Module | What is proved | Assumed | Why the properties are not inductive alone, and what `IInv` adds |
|---|---|---|---|
| `AssessmentScope_proofs` | `RelatedAsDeclared`, `WaivedAsDeclared`, `MarksConsistent`, `SettingsAsDeclared`, `ParametersAsDeclared`, `LastSelectionArrives`, `PlanFileAllOrNothing`, `ParametersFollowControls`, `SettingsValuesAdmissible` | control ids are numbers; a plan reviews the controls of its activities; the wildcard is no rule; scope files and earlier plans have their types | the rule pass looks at what the control pass left: `Unscoped`, `ControlScoped`, `RuleScoped` say what each leaves, in terms of the generated plan. `KeptAsDeclared` is the heart: for a listed control, normalising its entry and filtering by it is reading the entry directly; `WaivedIfDeclared` the same for waivers. `PInv` adds that parameters are the transformer's until they are scoped, `Applied` what the parameter pass has made of each; with `RelatedIfScoped` and `SelectsAsConfigured` (what the code looks up is what the deciding entry selects) that becomes a statement about the scope file alone. `Validated` ties a refusal to the scope, `OnFile` the plan file to the plan in memory or the earlier one, and the settings to the file: `InMemoryAsDeclared` then gives the plan file all that is declared |
| `PluginFanOut_proofs` | `NoSendAfterClose`, `SendersHaveRoom`, `HeldUpOnlyByHanging`, `StepsRunOut`, `ConcurrencyLimited`, `ReportedErrorIsOwn`, `SuccessIsComplete`, `NothingLeftBehind`, `FirstErrorStays`, and the refinement `ImplementsContract` | finitely many plugins, a positive limit | `Progress` relates main, closer and goroutines (the closer closes only when all are done); `Results` that a result is sent once; `Group` that the error is recorded before the context is cancelled; `Causes` where errors come from; `Accounted` that a goroutine that ended left a result or an error, or had nothing to do. The limit has an invariant of its own, `Tokens`. `StepContract` maps each step to one of the contract or a stutter. `IdleDoneOrHanging` is the case in which no goroutine can move; `StepsLeft` is the measure of `StepsRunOut` |
| `PluginLifecycle_proofs` | `NoPluginOutlivesCommand`, `LaunchedAsRequested`, `SuccessCoversRequested`, `HeldUpOnlyByHanging`, `StepsRunOut` | finitely many plugins | `Found` ties what was found to the request and the manifests, `Processes` what runs to where the command stands, `Outcome` what the calls' end says of the plugins, `Pending` what the calls and launches still to come find |
| `Workspace_proofs` | `ScannedOwnFramework` for any number of shells with orphans; `ObservedOwnScan` as well, as long as `ArfUndisturbed` holds | plans have frameworks and are none of the other contents of a file | `Loaded` says what a command remembers by the time it needs it, `Matched` that an oscap at work reads a tailoring of the framework of its scan; `Own` that an ARF file still to be read is the scan's own |
| `Tailoring_proofs` | `EvaluatedAsPlanned`, `ValuesAsPlanned`, `TailoringIsValid` | a datastream's profile evaluates rules that the datastream defines; the markers are no values | `Selected` and `Valued` carry what the checks before the file is written have established to the moment that oscap reads it |
| `ScopeTemplate_proofs` | `KeepsControls`, `KeepsAgreedParameters`, `RefusedOnlyIfInadmissible`, `ChangesToSetValues` | what `AssessmentScope` assumes; every default value's parameter is tied to its rule by a component; nothing is named N/A; alternatives are those of the groups | a behaviour of `TemplateSpec` is one of `Spec` (`TemplateSpecIsSpec`), so the invariants of `AssessmentScope` hold. `TInv` adds `Made` (scope and plan come from one bundle) and `StillThere` (a changed parameter was set before and still is); the lemmas `TemplateEntries` and `TemplateSelections` compare the two readings of a bundle: which controls they list, and which values they select |
| `Results_proofs` | `FindingsJustified`, `FailuresReported`, `WaivedAsPlanned`, `RefusedOnlyInScope`, `CrashesOnlyWithoutResults` | activities of one rule have the same controls, a waived one has some; checks have a rule | `Associated` says what the steps of the activities so far are associated with, `Marked` which observations are marked, `Filed` that the findings are those of the associated observations. `SomethingKept` (of all that is received under a title the last is kept) and `FailureObserved` show that no choice of createOrGet loses a check with nothing but failures |
| `OpenscapConfig_proofs` | `ScansWhatWasTailored`, `RemediationsBesideTailoring`, `TailoringKept`, `RefusedTouchesNothing`, `RefusedForAReason` | options and contents have their types; a directory contains its own files | `FilesAgree`: two files made without the option at the same number of updates have the same datastream, and it is the one a search would find now if that number has not changed; `ProcessAgrees` the same of the running plugin; `Placed`, `Progress` and `Made` say what is in which directory and which directories exist by when |

Type correctness (`TypeCorrect` in each of these modules) is proved rather than checked, except in
`Workspace`, where it says that no command goes on with an empty or missing file, so that TLC checks
it as well. More properties are proved and in no run: `SuccessIsComplete` and `FirstErrorStays`
of `PluginFanOut`, which go with the contract; `SendersHaveRoom`, of which `HeldUpOnlyByHanging` makes
use; `ParametersFollowControls`, which `ParametersAsDeclared` sharpens and the proofs of
`ScopeTemplate` use; `SettingsValuesAdmissible`, that no unvalidated value reaches a plugin; and
`TailoringKept`, that no scan damages a tailoring file whatever the names of its own files.

### What is proved towards termination

That the calls and the command end is a liveness property, which the prover cannot reach. Two safety
theorems of both `PluginFanOut` and `PluginLifecycle` go as far as it can:

* `HeldUpOnlyByHanging`: until the end is reached, somebody can take a step, or a plugin hangs (in a
  call that nobody has cancelled or, in the lifecycle, in Configure). "Can take a step" is spelled out as
  the guards of the steps (`CanMove` and its companions), because the prover does not know ENABLED; on the
  instances of the runs TLC finds them equal to ENABLED of the actions.
* `StepsRunOut`: `StepsLeft`, a natural number, decreases in every step, the user's interrupt included.
  With n plugins the calls take no more than 9 n + 7 steps and a command no more than 4 n + 8; with two
  plugins TLC finds a command that takes all 16.

Whoever accepts that a goroutine or a command which can go on will do so has the liveness properties
from these two, for any number of plugins: the steps run out, and where they have, the end is reached or
a plugin hangs.

Only model-checked: the liveness properties of `PluginFanOut` and `PluginLifecycle`, with their
fairness. Nothing is proved of `ObservedOwnScan` without `ArfUndisturbed`: it does not hold there (an
orphan or another scan may overwrite the ARF file).

## Not modelled

* Layout and display: the Markdown template, tables, `info`, `list`, logging.
* Parsing and validation of YAML, JSON, XML and OSCAL; the file system beyond the files above.
* The gRPC wire format and go-plugin's handshake, except that a launch may fail in each of its ways.
* A kill of complyctl itself in `PluginLifecycle`: its plugins then live on. `Workspace` has the death
  of any command.

## Plan

The order in which the modules were written, by what they matter to a user: `AssessmentScope`;
`PluginFanOut` with `PluginCallContract`; `PluginLifecycle`; `Workspace`; `Tailoring`; then
`ScopeTemplate`, `Results` and `OpenscapConfig`; each with its proofs. What would come next:

1. Errors of the plan transformer, and plans made of SSPs, as further initial states of `ScopeTemplate`.
2. The Markdown report: which profile and catalog it reads, and that its findings are those of the JSON.
3. `Workspace` with the paths of `OpenscapConfig`, so that concurrent commands may differ in their
   configurations as well.

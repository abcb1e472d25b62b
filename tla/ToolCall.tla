------------------------------ MODULE ToolCall ------------------------------
(***************************************************************************)
(* plugin.py, acpx.py and workspace.py: what the plugin makes of its       *)
(* configuration when it is registered, and of one tool call up to the     *)
(* ACPX process it starts: arguments, workspace policy, permission mode,   *)
(* approval gate, argument vector.  The process itself is ControlCommand's *)
(* or RunLifecycle's.                                                      *)
(*                                                                         *)
(* Arguments are told apart by whether they are usable strings, sessions   *)
(* and prompts by what they would mean as arguments of ACPX; a path by     *)
(* what it resolves to, the parts of that, and whether git calls it the    *)
(* root of a worktree.  The policy resolves a path once; while a human is  *)
(* asked, and until the process is there, it may come to resolve to        *)
(* something else, or to nothing.                                          *)
(*                                                                         *)
(* A definition headed "Slip:" is a plausible mistake in the definition    *)
(* that follows it; nothing uses it.                                       *)
(***************************************************************************)
EXTENDS Integers, Sequences, SequencesExt

CONSTANTS
    Configs,     \* raw configurations: [acpx, agent, command, mode, model, roots]
    Texts,       \* values of the session and prompt arguments, without outer blanks
    Candidates,  \* values of the cwd argument
    Absolute,    \* those that are absolute paths
    Paths,       \* what they resolve to
    Real,        \* expanduser and resolve, when the call arrives
    Parts,       \* the parts of each path
    Directories, \* paths that are directories
    Worktrees,   \* directories that git calls the root of a worktree
    None         \* nothing: an absent value

ASSUME PathsAssumption ==
    /\ Absolute \subseteq Candidates /\ Worktrees \subseteq Directories /\ Directories \subseteq Paths
    /\ Real \in [Candidates -> Paths] /\ DOMAIN Parts = Paths /\ None \notin Paths

VARIABLES
    config,  \* the configuration
    plugin,  \* whether register accepted it
    at,      \* where the call is
    request, \* its arguments
    vetted,  \* the path the policy returned
    place,   \* what that path resolves to by now
    moved,   \* whether it ever resolved to anything else
    allowed, \* the unrestricted turns the operator allows: harness and worktree
    argv,    \* the vector built for ACPX
    started  \* the directory its process was started in

pluginVars == <<config, plugin>>
pathVars   == <<vetted, place, moved>>
launchVars == <<argv, started>>
vars       == <<pluginVars, at, request, pathVars, allowed, launchVars>>

ControlTools == {"harness_start", "harness_status", "harness_cancel", "harness_close"}
Required(tool) ==
    CASE tool = "harness_list"   -> {}
      [] tool = "harness_events" -> {"run_id", "cursor"}
      [] tool = "harness_prompt" -> {"harness", "cwd", "session", "prompt"}
      [] OTHER                   -> {"harness", "cwd", "session"}
Tools == ControlTools \union {"harness_list", "harness_events", "harness_prompt"}

(* The configuration names one harness, "coder". *)
Harnesses == {"coder", "unknown"}

(* Calls with at most one argument absent, blank or of the wrong type. *)
Requests ==
    UNION {[tool : {tool}, unusable : {{}} \union {{p} : p \in Required(tool)},
            harness : Harnesses, cwd : Candidates, session : Texts,
            text : IF tool = "harness_prompt" THEN Texts ELSE {None},
            fresh : IF tool = "harness_start" THEN BOOLEAN ELSE {FALSE}] : tool \in Tools}

-----------------------------------------------------------------------------
(* register: the loaders, and HarnessSpec.__post_init__. *)

Flag == [deny_all |-> "--deny-all", approve_reads |-> "--approve-reads", approve_all |-> "--approve-all"]
Modes == DOMAIN Flag

(* get("permission_mode", "approve_reads") *)
Mode(c) == IF c.mode = None THEN "approve_reads" ELSE c.mode

AcceptableLists(c) ==
    /\ c.acpx # <<>> /\ \A i \in DOMAIN c.acpx : c.acpx[i] # ""
    /\ c.roots # None
AcceptableHarness(c) == Mode(c) \in Modes /\ c.model # "padded"
AcceptableSpec(c)    == (c.agent = None) # (c.command = None)

Init ==
    /\ config \in Configs
    /\ plugin = "unregistered"
    /\ at = "none" /\ request = None /\ allowed = {}
    /\ vetted = None /\ place = None /\ moved = FALSE
    /\ argv = <<>> /\ started = None

Register ==
    /\ plugin = "unregistered"
    /\ plugin' = IF AcceptableLists(config) /\ AcceptableHarness(config) /\ AcceptableSpec(config)
                 THEN "registered" ELSE "refused"
    /\ UNCHANGED <<config, at, request, pathVars, allowed, launchVars>>

-----------------------------------------------------------------------------
(* WorkspacePolicy.validate, and the check of plugin.py before it. *)

Under(path, root) == IsPrefix(Parts[root], Parts[path])
Roots == {Real[root] : root \in config.roots}

Valid(cwd) ==
    /\ cwd \in Absolute
    /\ Real[cwd] \in Directories
    /\ \E root \in Roots : Under(Real[cwd], root)
    /\ Real[cwd] \in Worktrees

-----------------------------------------------------------------------------
(* build_acpx_argv.  No tool reaches its action "list": that is only for    *)
(* list_sessions of the controller, which plugin.py never calls.  No "--"   *)
(* stands in front of what the model chose.                                 *)

Selector == IF config.agent # None THEN <<config.agent>> ELSE <<"--agent", config.command>>

\* Slip: a custom server's session option stands where a built-in one's does.
CommandUniform(r) ==
    CASE r.tool = "harness_start"  -> <<"sessions", IF r.fresh THEN "new" ELSE "ensure", "--name", r.session>>
      [] r.tool = "harness_status" -> <<"status", "-s", r.session>>
      [] r.tool = "harness_cancel" -> <<"cancel", "-s", r.session>>
      [] r.tool = "harness_close"  -> <<"sessions", "close", r.session>>
      [] OTHER -> <<"-s", r.session, "prompt", r.text>>
Command(r) ==
    CASE r.tool = "harness_start"  -> <<"sessions", IF r.fresh THEN "new" ELSE "ensure", "--name", r.session>>
      [] r.tool = "harness_status" -> <<"status", "-s", r.session>>
      [] r.tool = "harness_cancel" -> <<"cancel", "-s", r.session>>
      [] r.tool = "harness_close"  -> <<"sessions", "close", r.session>>
      [] r.tool = "harness_prompt" /\ config.command # None -> <<"prompt", "-s", r.session, r.text>>
      [] OTHER -> <<"-s", r.session, "prompt", r.text>>

Argv(r, mode, resolved_cwd) ==
    config.acpx \o <<"--cwd", resolved_cwd, "--format", "json", "--json-strict">>
        \o (IF config.model # None THEN <<"--model", config.model>> ELSE <<>>)
        \o <<Flag[mode], "--non-interactive-permissions", "fail">>
        \o Selector \o Command(r)

(* The permission mode a tool's process runs with. *)
ModeOf(r) == IF r.tool = "harness_prompt" THEN Mode(config) ELSE "deny_all"

-----------------------------------------------------------------------------
(* The handlers. *)

(* _required_string, int(), _absolute_directory and _configured_permission_mode, *)
(* or the ValueError of _get_harness in the controller; git may fail as well.   *)
Refused(r) ==
    \/ r.unusable # {}
    \/ "harness" \in Required(r.tool) /\ (r.harness = "unknown" \/ ~Valid(r.cwd))

(* harness_list and harness_events start no process. *)
Receive ==
    /\ plugin = "registered" /\ at = "none"
    /\ \E r \in Requests :
        /\ request' = r
        /\ \/ /\ ~Refused(r) /\ "harness" \in Required(r.tool)
              /\ at' = IF r.tool = "harness_prompt" /\ ModeOf(r) = "approve_all"
                       THEN "asking" ELSE "launching"
              /\ vetted' = Real[r.cwd] /\ place' = Real[r.cwd]
           \/ at' = "answered" /\ UNCHANGED <<vetted, place>>
    /\ UNCHANGED <<pluginVars, moved, allowed, launchVars>>

\* Slip: the rule of an approval names the harness only.
RuleOfHarness(harness, cwd) == <<harness>>
(* What an approval is given for; the name of the session is only shown. *)
Rule(harness, cwd) == <<harness, cwd>>

Turns == Harnesses \X Worktrees

(* request_tool_approval: a human allows this turn; or the gate is switched *)
(* off, which allows every turn; or an approval given earlier, for a        *)
(* session or for good, has the same rule; or the answer is no, or there is *)
(* none.                                                                    *)
GateAnswers ==
    /\ at = "asking"
    /\ \/ at' = "launching" /\ allowed' \in {{<<request.harness, vetted>>}, Turns}
       \/ /\ at' = "launching"
          /\ \E earlier \in SUBSET Turns :
               /\ \E turn \in earlier : Rule(turn[1], turn[2]) = Rule(request.harness, vetted)
               /\ allowed' = earlier
       \/ at' \in {"answered", "raised"} /\ UNCHANGED allowed
    /\ UNCHANGED <<pluginVars, request, pathVars, launchVars>>

(* Part of the path is removed, or replaced by a link. *)
PathMoves ==
    /\ at \in {"asking", "launching", "spawning"}
    /\ place' \in (Paths \union {None}) \ {place}
    /\ moved' = TRUE
    /\ UNCHANGED <<pluginVars, at, request, vetted, allowed, launchVars>>

(* The path is resolved again for the vector; the policy is not asked again. *)
Build ==
    /\ at = "launching"
    /\ IF place \in Directories
       THEN at' = "spawning" /\ argv' = Argv(request, ModeOf(request), place)
       ELSE at' = "answered" /\ UNCHANGED argv
    /\ UNCHANGED <<pluginVars, request, pathVars, allowed, started>>

(* ... and once more for the process, which may not come to be; and what     *)
(* follows in the handler may raise, with a process or without.              *)
Spawn ==
    /\ at = "spawning"
    /\ at' \in {"answered", "raised"}
    /\ started' \in {None} \union ({place} \intersect Directories)
    /\ UNCHANGED <<pluginVars, request, pathVars, allowed, argv>>

Next == Register \/ Receive \/ GateAnswers \/ PathMoves \/ Build \/ Spawn

Spec == Init /\ [][Next]_vars

-----------------------------------------------------------------------------
(* How ACPX reads the arguments behind its own command: external, as          *)
(* tests/test_acpx_command.py has it.  An option that takes a value takes the *)
(* argument after it, whatever that says; every other argument is read.       *)

Taking == {"--cwd", "--format", "--model", "--non-interactive-permissions", "--agent", "--name", "-s"}
Words  == Taking \union {Flag[m] : m \in Modes} \union {"--json-strict", "sessions", "prompt", "close"}

(* HarnessSpec: an agent is the name of a profile that ACPX has built in.     *)
ASSUME ConfigsAssumption ==
    \A c \in Configs : c.acpx \in Seq(STRING) /\ c.agent \notin Words

Arguments == SubSeq(argv, Len(config.acpx) + 1, Len(argv))
IsRead[i \in DOMAIN Arguments] == i = 1 \/ ~(IsRead[i - 1] /\ Arguments[i - 1] \in Taking)

(* The last word of a prompt or a close is the model's own: whether ACPX      *)
(* takes one that looks like an option for an option is left open.  All       *)
(* others are looked at.                                                      *)
EndsOwn  == request.tool \in {"harness_prompt", "harness_close"}
Governed == IF EndsOwn THEN DOMAIN Arguments \ {Len(Arguments)} ELSE DOMAIN Arguments

Reads(i, word) == IsRead[i] /\ Arguments[i] = word
Uses(word)     == \E i \in Governed : Reads(i, word)
Place(word)    == CHOOSE i \in Governed : Reads(i, word)
After(word)    == Arguments[Place(word) + 1]

SessionRead ==
    IF Uses("--name") THEN After("--name") ELSE IF Uses("-s") THEN After("-s") ELSE After("close")

VerbRead ==
    CASE Uses("sessions") -> After("sessions")
      [] Uses("prompt")   -> "prompt"
      [] OTHER            -> Arguments[Place("-s") - 1]

VerbAsked ==
    CASE request.tool = "harness_start" /\ request.fresh  -> "new"
      [] request.tool = "harness_start" /\ ~request.fresh -> "ensure"
      [] request.tool = "harness_prompt" -> "prompt"
      [] request.tool = "harness_status" -> "status"
      [] request.tool = "harness_cancel" -> "cancel"
      [] request.tool = "harness_close"  -> "close"

(* What ACPX reads is the call that was made: its session, verb and text, and *)
(* the operator's model and harness, although the model may choose words that *)
(* look like options; the session option stands behind the verb for a custom  *)
(* server and before it for a built-in one.  And README.md: the process has   *)
(* the validated path, a worktree under an allowed root, both as --cwd and as *)
(* its own directory, as long as that path does not come to resolve to        *)
(* something else.                                                            *)
LaunchIsAsAsked ==
    started # None =>
        /\ SessionRead = request.session /\ VerbRead = VerbAsked
        /\ VerbAsked = "prompt" =>
               Last(Arguments) = request.text /\ (Uses("--agent") <=> Place("-s") > Place("prompt"))
        /\ EndsOwn => IsRead[Len(Arguments)]
        /\ IF config.agent = None THEN Uses("--agent") /\ After("--agent") = config.command
                                  ELSE ~Uses("--agent") /\ Uses(config.agent)
        /\ IF config.model = None THEN ~Uses("--model") ELSE After("--model") = config.model
        /\ vetted \in Worktrees /\ \E root \in config.roots : Under(vetted, Real[root])
        /\ ~moved => After("--cwd") = vetted /\ started = vetted

(* README.md: the permission mode is the operator's, control commands have   *)
(* none, and an unrestricted turn is one that the operator allows, for this  *)
(* harness in this worktree: now, by an approval that stands, or by allowing *)
(* all.                                                                      *)
PermissionIsOperators ==
    started # None =>
        /\ {m \in Modes : Uses(Flag[m])} =
               {IF request.tool \in ControlTools THEN "deny_all" ELSE Mode(config)}
        /\ Uses("--approve-all") => <<request.harness, vetted>> \in allowed

=============================================================================

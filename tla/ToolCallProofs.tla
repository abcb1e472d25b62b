--------------------------- MODULE ToolCallProofs ---------------------------
(***************************************************************************)
(* What ToolCall promises of a started process, for every configuration,   *)
(* every set of paths and every way of resolving them.                     *)
(***************************************************************************)
EXTENDS ToolCall, SequenceTheorems, Numbers

(* The path of the call passed the policy, and the rest of it the handler. *)
Passed ==
    /\ request.unusable = {} /\ request.harness \in Harnesses \ {"unknown"}
    /\ vetted \in Worktrees
    /\ \E root \in Roots : Under(vetted, root)

(* The operator allows this harness to go unrestricted in this worktree. *)
Unrestricted == request.tool = "harness_prompt" /\ Mode(config) = "approve_all"
Consented    == Unrestricted => <<request.harness, vetted>> \in allowed

(* The vector is the one of the call, for the path that passed as long as     *)
(* that resolves to itself.                                                   *)
BuiltFor(cwd) == argv = Argv(request, ModeOf(request), cwd) /\ (~moved => cwd = vetted)
Built         == \E cwd \in Paths : BuiltFor(cwd)

(* The process is the one the call asks for, after every check. *)
StartedAsVetted ==
    started # None => Passed /\ Consented /\ Built /\ (~moved => started = vetted)

(* The checks are made in the order of the handler: nothing runs before them. *)
Vetted ==
    /\ at \in {"none", "asking", "launching", "spawning"} => started = None
    /\ at \in {"asking", "launching", "spawning"} => Passed /\ (~moved => place = vetted)
    /\ at \in {"launching", "spawning"} => Consented
    /\ at = "spawning" => Built
    /\ StartedAsVetted

LEMMA VettedInit == Init => Vetted
BY DEF Init, Vetted, StartedAsVetted

LEMMA RequestTypes ==
  ASSUME NEW r \in Requests
  PROVE  r.tool \in Tools /\ r.fresh \in BOOLEAN /\ r.harness \in Harnesses
<1>1. PICK tool \in Tools :
        r \in [tool : {tool}, unusable : {{}} \union {{p} : p \in Required(tool)},
               harness : Harnesses, cwd : Candidates, session : Texts,
               text : IF tool = "harness_prompt" THEN Texts ELSE {None},
               fresh : IF tool = "harness_start" THEN BOOLEAN ELSE {FALSE}]
  BY DEF Requests
<1>2. r.fresh \in IF tool = "harness_start" THEN BOOLEAN ELSE {FALSE}
  BY <1>1
<1>3. QED
  BY <1>1, <1>2

(* Steps that leave the call alone keep what is known of it. *)
LEMMA CallKept ==
  ASSUME UNCHANGED <<config, request, vetted>>
  PROVE  /\ Passed => Passed'
         /\ allowed' = allowed /\ Consented => Consented'
         /\ argv' = argv /\ (moved' = moved \/ moved') /\ Built => Built'
<1>1. Passed => Passed'
  BY DEF Passed, Roots
<1>2. allowed' = allowed /\ Consented => Consented'
  BY DEF Consented, Unrestricted, Mode
<1>3. ASSUME argv' = argv, moved' = moved \/ moved', Built PROVE Built'
  <2>1. PICK cwd \in Paths : argv = Argv(request, ModeOf(request), cwd) /\ (~moved => cwd = vetted)
    BY <1>3 DEF Built, BuiltFor
  <2>2. Argv(request, ModeOf(request), cwd)' = Argv(request, ModeOf(request), cwd)
    BY DEF Argv, ModeOf, Mode, Selector, Command
  <2>3. QED
    BY <1>3, <2>1, <2>2 DEF Built, BuiltFor
<1>4. QED
  BY <1>1, <1>2, <1>3

LEMMA VettedStep == Vetted /\ [Next]_vars => Vetted'
<1>1. SUFFICES ASSUME Vetted, [Next]_vars PROVE Vetted'
  OBVIOUS
<1> USE DEF Vetted, StartedAsVetted, pluginVars, pathVars, launchVars
<1>2. ASSUME UNCHANGED <<config, at, request, pathVars, allowed, launchVars>> PROVE Vetted'
  BY <1>1, <1>2, CallKept
<1>3. CASE Register
  BY <1>2, <1>3 DEF Register
<1>4. CASE Receive
  <2>1. PICK r \in Requests :
          /\ request' = r
          /\ \/ /\ ~Refused(r) /\ "harness" \in Required(r.tool)
                /\ at' = IF r.tool = "harness_prompt" /\ ModeOf(r) = "approve_all"
                         THEN "asking" ELSE "launching"
                /\ vetted' = Real[r.cwd] /\ place' = Real[r.cwd]
             \/ at' = "answered" /\ UNCHANGED <<vetted, place>>
    BY <1>4 DEF Receive
  <2>2. config' = config /\ started' = None
    BY <1>1, <1>4 DEF Receive
  <2>3. ASSUME at' # "answered" PROVE Passed' /\ place' = vetted'
    <3>1. r.unusable = {} /\ r.harness # "unknown" /\ Valid(r.cwd) /\ vetted' = Real[r.cwd] /\ place' = vetted'
      BY <2>1, <2>3 DEF Refused
    <3>2. QED
      BY <2>1, <2>2, <3>1, RequestTypes DEF Passed, Valid, Roots
  <2>4. ASSUME at' = "launching" PROVE Consented'
    BY <2>1, <2>2, <2>4 DEF Consented, Unrestricted, ModeOf, Mode
  <2>5. at' \in {"asking", "launching", "answered"}
    BY <2>1
  <2>6. QED
    BY <2>2, <2>3, <2>4, <2>5
<1>5. CASE GateAnswers
  <2>1. /\ UNCHANGED <<config, request, vetted, place, moved, argv, started>>
        /\ at' \in {"launching", "answered", "raised"}
        /\ Passed /\ started = None /\ (~moved => place = vetted)
    BY <1>1, <1>5 DEF GateAnswers
  <2>2. Passed'
    BY <2>1, CallKept
  <2>3. ASSUME at' = "launching" PROVE <<request.harness, vetted>> \in allowed'
    <3>2. CASE allowed' \in {{<<request.harness, vetted>>}, Turns}
      BY <2>1, <3>2 DEF Turns, Passed
    <3>3. CASE \E earlier \in SUBSET Turns :
                 /\ \E turn \in earlier : Rule(turn[1], turn[2]) = Rule(request.harness, vetted)
                 /\ allowed' = earlier
      <4>1. PICK turn \in allowed' : turn \in Turns /\ Rule(turn[1], turn[2]) = Rule(request.harness,
      vetted)
        BY <3>3
      <4>2. turn = <<turn[1], turn[2]>> /\ turn[1] = request.harness /\ turn[2] = vetted
        BY <4>1 DEF Turns, Rule
      <4>3. QED
        BY <4>1, <4>2
    <3>4. QED
      BY <1>5, <2>3, <3>2, <3>3 DEF GateAnswers
  <2>4. QED
    BY <2>1, <2>2, <2>3 DEF Consented
<1>6. CASE PathMoves
  <2>1. UNCHANGED <<config, at, request, vetted, allowed, argv, started>> /\ moved' /\ started = None
    BY <1>1, <1>6 DEF PathMoves
  <2>2. QED
    BY <1>1, <2>1, CallKept
<1>7. CASE Build
  <2>1. /\ UNCHANGED <<config, request, vetted, place, moved, allowed, started>>
        /\ Passed /\ Consented /\ started = None /\ (~moved => place = vetted)
    BY <1>1, <1>7 DEF Build
  <2>2. Passed' /\ Consented'
    BY <2>1, CallKept
  <2>3. CASE place \in Directories
    <3>1. at' = "spawning" /\ argv' = Argv(request, ModeOf(request), place) /\ place \in Paths
      BY <1>7, <2>3, PathsAssumption DEF Build
    <3>2. Argv(request, ModeOf(request), place)' = Argv(request, ModeOf(request), place)
      BY <2>1 DEF Argv, ModeOf, Mode, Selector, Command
    <3>3. argv' = Argv(request, ModeOf(request),
    place)' /\ place' \in Paths /\ (~moved' => place' = vetted')
      BY <2>1, <3>1, <3>2
    <3>4. Built'
      BY <3>3 DEF Built, BuiltFor
    <3>5. QED
      BY <2>1, <2>2, <3>1, <3>4
  <2>4. CASE place \notin Directories
    BY <1>7, <2>1, <2>4 DEF Build
  <2>5. QED
    BY <2>3, <2>4
<1>8. CASE Spawn
  <2>1. /\ UNCHANGED <<config, request, vetted, place, moved, allowed, argv>>
        /\ Passed /\ Consented /\ Built /\ (~moved => place = vetted)
        /\ at' \in {"answered", "raised"} /\ started' \in {None, place}
    BY <1>1, <1>8 DEF Spawn
  <2>2. Passed' /\ Consented' /\ Built'
    BY <2>1, CallKept
  <2>3. QED
    BY <2>1, <2>2
<1>9. CASE UNCHANGED vars
  BY <1>2, <1>9 DEF vars
<1>10. QED
  BY <1>1, <1>3, <1>4, <1>5, <1>6, <1>7, <1>8, <1>9 DEF Next

(* However the operator configured the plugin, whatever the model asks for,  *)
(* whatever approvals stand and whatever becomes of the path: a process      *)
(* starts only with the vector of the call it was started for and after the  *)
(* policy passed its path, an unrestricted turn only if the operator allows  *)
(* it; and, unless the path came to resolve to something else, vector and    *)
(* process have the path that was passed.                                    *)
THEOREM LaunchSafety == Spec => []StartedAsVetted
<1>1. Vetted => StartedAsVetted
  BY DEF Vetted
<1>2. QED
  BY VettedInit, VettedStep, <1>1, PTL DEF Spec

(* Who can be on the way to a process: a call with an accepted configuration, *)
(* of a tool that has one.                                                    *)
Starters == ControlTools \union {"harness_prompt"}
Ready ==
    /\ config \in Configs
    /\ Mode(config) \in Modes /\ AcceptableSpec(config)
    /\ request.tool \in Starters /\ request.fresh \in BOOLEAN

Accepted ==
    /\ config \in Configs
    /\ plugin = "registered" => Mode(config) \in Modes /\ AcceptableSpec(config)
    /\ at # "none" => plugin = "registered"
    /\ at \in {"asking", "launching", "spawning"} \/ started # None => Ready

LEMMA AcceptedInit == Init => Accepted
BY DEF Init, Accepted

LEMMA AcceptedStep == Vetted /\ Accepted /\ [Next]_vars => Accepted'
<1>1. SUFFICES ASSUME Vetted, Accepted, [Next]_vars PROVE Accepted'
  OBVIOUS
<1> USE DEF Accepted, pluginVars, pathVars, launchVars
<1>2. config' = config
  BY <1>1 DEF Next, Register, Receive, GateAnswers, PathMoves, Build, Spawn, vars
<1> USE <1>2 DEF Ready, Mode, AcceptableSpec
<1>3. CASE Register
  BY <1>1, <1>3 DEF Register, AcceptableHarness, Vetted, Mode, AcceptableSpec
<1>4. CASE Receive
  <2>1. PICK r \in Requests :
          /\ request' = r
          /\ at' = "answered" \/ "harness" \in Required(r.tool)
    BY <1>4 DEF Receive
  <2>2. r.tool \in Tools /\ r.fresh \in BOOLEAN
    BY RequestTypes
  <2>3. r.tool \in {"harness_list", "harness_events"} => "harness" \notin Required(r.tool)
    BY DEF Required
  <2>4. started' = None /\ plugin' = "registered"
    BY <1>1, <1>4 DEF Receive, Vetted
  <2>5. at' # "answered" => r.tool \in Starters
    BY <2>1, <2>2, <2>3 DEF Tools, Starters
  <2>6. QED
    BY <1>1, <1>4, <2>1, <2>2, <2>4, <2>5 DEF Receive
<1>5. CASE GateAnswers
  BY <1>1, <1>5 DEF GateAnswers
<1>6. CASE PathMoves
  BY <1>1, <1>6 DEF PathMoves
<1>7. CASE Build
  BY <1>1, <1>7 DEF Build
<1>8. CASE Spawn
  BY <1>1, <1>8 DEF Spawn
<1>9. CASE UNCHANGED vars
  BY <1>1, <1>9 DEF vars
<1>10. QED
  BY <1>1, <1>3, <1>4, <1>5, <1>6, <1>7, <1>8, <1>9 DEF Next

(* Reading from the left says of every argument whether it is read. *)
LEMMA ReadingIsDefined ==
  ASSUME NEW n \in Nat, DOMAIN Arguments = 1..n
  PROVE  \A i \in 1..n : IsRead[i] <=> (i = 1 \/ ~(IsRead[i - 1] /\ Arguments[i - 1] \in Taking))
<1> DEFINE Fits(f, k) == f = [i \in 1..k |-> i = 1 \/ ~(f[i - 1] /\ Arguments[i - 1] \in Taking)]
           T == {k \in 0..n : ~\E f : Fits(f, k)}
<1>1. \E f : Fits(f, n)
  <2>1. SUFFICES ASSUME T # {} PROVE FALSE
    <3>1. n \in 0..n
      OBVIOUS
    <3>2. QED
      BY <2>1, <3>1
  <2>2. PICK k \in T : \A j \in T : k <= j
    <3>1. T \in SUBSET Nat
      OBVIOUS
    <3> HIDE DEF T
    <3>2. QED
      BY <2>1, <3>1, LeastNumber
  <2>3. k \in 0..n /\ ~\E f : Fits(f, k)
    BY <2>2
  <2>4. k # 0
    <3>1. Fits([i \in 1..0 |-> TRUE], 0)
      BY DEF Fits
    <3>2. QED
      BY <2>3, <3>1
  <2>5. k - 1 \in 0..n /\ k - 1 \notin T
    BY <2>2, <2>3, <2>4
  <2>6. PICK f : Fits(f, k - 1)
    BY <2>5
  <2> DEFINE g == [i \in 1..k |-> i = 1 \/ ~(f[i - 1] /\ Arguments[i - 1] \in Taking)]
  <2>7. ASSUME NEW i \in 1..(k - 1) PROVE g[i] = f[i]
    <3>1. i \in 1..k
      BY <2>3
    <3>2. f[i] = (i = 1 \/ ~(f[i - 1] /\ Arguments[i - 1] \in Taking))
      BY <2>6, <2>7, Zenon DEF Fits
    <3>3. g[i] = (i = 1 \/ ~(f[i - 1] /\ Arguments[i - 1] \in Taking))
      BY <3>1, Zenon
    <3>4. QED
      BY <3>2, <3>3, Zenon
  <2>8. ASSUME NEW i \in 1..k
        PROVE  (i = 1 \/ ~(f[i - 1] /\ Arguments[i - 1] \in Taking))
                 = (i = 1 \/ ~(g[i - 1] /\ Arguments[i - 1] \in Taking))
    <3>1. i = 1 \/ i - 1 \in 1..(k - 1)
      BY <2>3, <2>8
    <3>2. QED
      BY <2>7, <3>1, Zenon
  <2>9. Fits(g, k)
    BY <2>8, Zenon DEF Fits
  <2>10. QED
    BY <2>3, <2>9
<1>2. IsRead = CHOOSE f : Fits(f, n)
  BY Zenon DEF IsRead, Fits
<1>3. Fits(IsRead, n)
  BY <1>1, <1>2, Zenon
<1>4. QED
  BY <1>3, Zenon DEF Fits

-----------------------------------------------------------------------------
(* What stands where behind ACPX's own command: m arguments for the model,    *)
(* s for the harness.                                                         *)

ModelSize   == IF config.model = None THEN 0 ELSE 2
HarnessSize == IF config.agent = None THEN 2 ELSE 1
Options     == 8 + ModelSize + HarnessSize

Laid(c) ==
    /\ Len(Arguments) = Options + Len(c)
    /\ DOMAIN Arguments = 1..(Options + Len(c))
    /\ Arguments[1] = "--cwd"
    /\ Arguments[3] = "--format" /\ Arguments[4] = "json" /\ Arguments[5] = "--json-strict"
    /\ ModelSize = 2 => Arguments[6] = "--model" /\ Arguments[7] = config.model
    /\ Arguments[6 + ModelSize] = Flag[ModeOf(request)]
    /\ Arguments[7 + ModelSize] = "--non-interactive-permissions" /\ Arguments[8 + ModelSize] = "fail"
    /\ HarnessSize = 1 => Arguments[9 + ModelSize] = config.agent
    /\ HarnessSize = 2 => Arguments[9 + ModelSize] = "--agent" /\ Arguments[10 + ModelSize] = config.command
    /\ \A i \in 1..Len(c) : Arguments[Options + i] = c[i]

(* What is behind the first k of a vector keeps its place when more is appended. *)
Grown(S, x, y, k, n) ==
    /\ x \o y \in Seq(S) /\ Len(x \o y) = k + n + Len(y)
    /\ \A i \in 1..n : (x \o y)[k + i] = x[k + i]
    /\ \A i \in 1..Len(y) : (x \o y)[k + n + i] = y[i]

LEMMA Appended ==
  ASSUME NEW S, NEW x \in Seq(S), NEW y \in Seq(S), NEW k \in Nat, NEW n \in Nat, Len(x) = k + n
  PROVE  Grown(S, x, y, k, n)
<1>1. /\ x \o y \in Seq(S) /\ Len(x \o y) = Len(x) + Len(y)
      /\ \A i \in 1..(Len(x) + Len(y)) : (x \o y)[i] = IF i <= Len(x) THEN x[i] ELSE y[i - Len(x)]
  BY ConcatProperties
<1>2. Len(y) \in Nat
  OBVIOUS
<1>3. ASSUME NEW i \in 1..n PROVE (x \o y)[k + i] = x[k + i]
  <2>1. k + i \in 1..(Len(x) + Len(y)) /\ k + i <= Len(x)
    BY <1>2
  <2>2. QED
    BY <1>1, <2>1
<1>4. ASSUME NEW i \in 1..Len(y) PROVE (x \o y)[k + n + i] = y[i]
  <2>1. k + n + i \in 1..(Len(x) + Len(y)) /\ ~(k + n + i <= Len(x)) /\ (k + n + i) - Len(x) = i
    BY <1>2
  <2>2. QED
    BY <1>1, <2>1
<1>5. QED
  BY <1>1, <1>2, <1>3, <1>4 DEF Grown

LEMMA Tokens ==
  ASSUME Ready, NEW resolved_cwd
  PROVE  \E S : /\ config.acpx \in Seq(S) /\ Command(request) \in Seq(S)
                /\ {"--cwd", resolved_cwd, "--format", "json", "--json-strict", "--model", config.model,
                    Flag[ModeOf(request)], "--non-interactive-permissions", "fail", config.agent, "--agent",
                    config.command} \subseteq S
<1> DEFINE verbs == {"sessions", "new", "ensure", "--name", "status", "-s", "cancel", "close", "prompt",
                     request.session, request.text}
           S == STRING \union verbs \union
                   {"--cwd", resolved_cwd, "--format", "json", "--json-strict", "--model", config.model,
                    Flag[ModeOf(request)], "--non-interactive-permissions", "fail", config.agent, "--agent",
                    config.command}
<1>1. config.acpx \in Seq(STRING)
  BY ConfigsAssumption DEF Ready
<1>2. config.acpx \in Seq(S)
  <2>1. Len(config.acpx) \in Nat /\ config.acpx \in [1..Len(config.acpx) -> STRING]
    BY <1>1
  <2>2. config.acpx \in [1..Len(config.acpx) -> S]
    BY <2>1
  <2>3. QED
    BY <2>1, <2>2, SeqDef
<1>3. verbs \subseteq S
  OBVIOUS
<1>4. Command(request) \in Seq(S)
  <2> HIDE DEF S
  <2>1. CASE request.tool = "harness_start"
    BY <1>3, <2>1 DEF Command
  <2>2. CASE request.tool = "harness_status"
    BY <1>3, <2>2 DEF Command
  <2>3. CASE request.tool = "harness_cancel"
    BY <1>3, <2>3 DEF Command
  <2>4. CASE request.tool = "harness_close"
    BY <1>3, <2>4 DEF Command
  <2>5. CASE request.tool = "harness_prompt"
    BY <1>3, <2>5 DEF Command
  <2>6. QED
    BY <2>1, <2>2, <2>3, <2>4, <2>5 DEF Ready, Starters, ControlTools
<1>5. QED
  BY <1>2, <1>4

LEMMA ArgumentsLaid ==
  ASSUME Ready, NEW resolved_cwd, argv = Argv(request, ModeOf(request), resolved_cwd)
  PROVE  Laid(Command(request)) /\ Arguments[2] = resolved_cwd
<1>1. PICK S :
        /\ config.acpx \in Seq(S) /\ Command(request) \in Seq(S)
        /\ {"--cwd", resolved_cwd, "--format", "json", "--json-strict", "--model", config.model,
            Flag[ModeOf(request)], "--non-interactive-permissions", "fail", config.agent, "--agent",
            config.command} \subseteq S
  BY Tokens
<1> DEFINE a  == <<"--cwd", resolved_cwd, "--format", "json", "--json-strict">>
           b  == IF config.model # None THEN <<"--model", config.model>> ELSE <<>>
           d  == <<Flag[ModeOf(request)], "--non-interactive-permissions", "fail">>
           c  == Command(request)
           k  == Len(config.acpx)
           s1 == config.acpx \o a
           s2 == s1 \o b
           s3 == s2 \o d
           s4 == s3 \o Selector
           s5 == s4 \o c
<1>2. /\ a \in Seq(S) /\ Len(a) = 5
      /\ a[1] = "--cwd" /\ a[2] = resolved_cwd /\ a[3] = "--format" /\ a[4] = "json" /\ a[5] = "--json-strict"
  BY <1>1
<1>3. /\ b \in Seq(S) /\ Len(b) = ModelSize
      /\ ModelSize = 2 => b[1] = "--model" /\ b[2] = config.model
  BY <1>1 DEF ModelSize
<1>4. /\ d \in Seq(S) /\ Len(d) = 3
      /\ d[1] = Flag[ModeOf(request)] /\ d[2] = "--non-interactive-permissions" /\ d[3] = "fail"
  BY <1>1
<1>5. /\ Selector \in Seq(S) /\ Len(Selector) = HarnessSize
      /\ HarnessSize = 1 => Selector[1] = config.agent
      /\ HarnessSize = 2 => Selector[1] = "--agent" /\ Selector[2] = config.command
  BY <1>1 DEF Selector, HarnessSize
<1>6. c \in Seq(S) /\ Len(c) \in Nat /\ config.acpx \in Seq(S) /\ k \in Nat
  BY <1>1
<1>7. ModelSize \in {0, 2} /\ HarnessSize \in {1, 2}
  BY DEF ModelSize, HarnessSize
<1>8. argv = s5
  BY DEF Argv
<1> HIDE DEF a, b, c, d, k
<1>9. /\ s1 \in Seq(S) /\ Len(s1) = k + 5
      /\ \A i \in 1..5 : s1[k + i] = a[i]
  <2>1. k + 0 = Len(config.acpx) /\ 0 \in Nat /\ k + 0 + 5 = k + 5 /\ \A i \in 1..5 : k + 0 + i = k + i
    BY <1>6 DEF k
  <2>2. Grown(S, config.acpx, a, k, 0)
    BY <1>2, <1>6, <2>1, Appended
  <2>3. QED
    BY <1>2, <1>6, <2>1, <2>2 DEF Grown
<1> HIDE DEF s1
<1>10. /\ s2 \in Seq(S) /\ Len(s2) = k + 5 + ModelSize
       /\ \A i \in 1..5 : s2[k + i] = s1[k + i]
       /\ \A i \in 1..ModelSize : s2[k + 5 + i] = b[i]
  <2>1. 5 \in Nat
    OBVIOUS
  <2>2. Grown(S, s1, b, k, 5)
    BY <1>3, <1>6, <1>9, <2>1, Appended
  <2>3. QED
    BY <1>3, <1>6, <1>9, <2>1, <2>2 DEF Grown
<1> HIDE DEF s2
<1>11. /\ s3 \in Seq(S) /\ Len(s3) = k + 8 + ModelSize
       /\ \A i \in 1..(5 + ModelSize) : s3[k + i] = s2[k + i]
       /\ \A i \in 1..3 : s3[k + 5 + ModelSize + i] = d[i]
  <2>1. /\ 5 + ModelSize \in Nat /\ Len(s2) = k + (5 + ModelSize)
        /\ k + (5 + ModelSize) + 3 = k + 8 + ModelSize
        /\ \A i \in 1..3 : k + (5 + ModelSize) + i = k + 5 + ModelSize + i
    BY <1>6, <1>7, <1>10
  <2>2. Grown(S, s2, d, k, 5 + ModelSize)
    BY <1>4, <1>6, <1>10, <2>1, Appended
  <2>3. QED
    BY <1>4, <1>6, <1>10, <2>1, <2>2 DEF Grown
<1> HIDE DEF s3
<1>12. /\ s4 \in Seq(S) /\ Len(s4) = k + Options
       /\ \A i \in 1..(8 + ModelSize) : s4[k + i] = s3[k + i]
       /\ \A i \in 1..HarnessSize : s4[k + 8 + ModelSize + i] = Selector[i]
  <2>1. /\ 8 + ModelSize \in Nat /\ Len(s3) = k + (8 + ModelSize)
        /\ k + (8 + ModelSize) + HarnessSize = k + Options
        /\ \A i \in 1..HarnessSize : k + (8 + ModelSize) + i = k + 8 + ModelSize + i
    BY <1>6, <1>7, <1>11 DEF Options
  <2>2. Grown(S, s3, Selector, k, 8 + ModelSize)
    BY <1>5, <1>6, <1>11, <2>1, Appended
  <2>3. QED
    BY <1>5, <1>6, <1>11, <2>1, <2>2 DEF Grown
<1> HIDE DEF s4
<1>13. /\ s5 \in Seq(S) /\ Len(s5) = k + Options + Len(c)
       /\ \A i \in 1..Options : s5[k + i] = s4[k + i]
       /\ \A i \in 1..Len(c) : s5[k + Options + i] = c[i]
  <2>1. Options \in Nat
    BY <1>7 DEF Options
  <2>2. Grown(S, s4, c, k, Options)
    BY <1>6, <1>12, <2>1, Appended
  <2>3. QED
    BY <1>6, <1>12, <2>1, <2>2 DEF Grown
<1> HIDE DEF s5
<1>14. /\ Len(Arguments) = Options + Len(c) /\ DOMAIN Arguments = 1..(Options + Len(c))
       /\ \A i \in 1..(Options + Len(c)) : Arguments[i] = argv[k + i]
  <2>1. k + 1 \in Int /\ Len(argv) \in Int /\ Len(argv) = k + Options + Len(c) /\ Options \in Nat
    BY <1>6, <1>7, <1>8, <1>13 DEF Options
  <2>2. \A i \in (k + 1)..Len(argv) : argv[i] \in S
    BY <1>6, <1>8, <1>13, <2>1
  <2>3. /\ Arguments \in Seq(S)
        /\ Len(Arguments) = IF k + 1 <= Len(argv) THEN Len(argv) - (k + 1) + 1 ELSE 0
        /\ \A i \in 1..(Len(argv) - (k + 1) + 1) : Arguments[i] = argv[(k + 1) + i - 1]
    BY <2>1, <2>2, SubSeqProperties DEF Arguments, k
  <2>4. /\ k + 1 <= Len(argv) /\ Len(argv) - (k + 1) + 1 = Options + Len(c)
        /\ \A i \in 1..(Options + Len(c)) : (k + 1) + i - 1 = k + i
    BY <1>6, <1>7, <2>1 DEF Options
  <2>5. QED
    BY <2>3, <2>4
<1>15. \A i \in 1..(Options + Len(c)) : Arguments[i] = s5[k + i]
  BY <1>8, <1>14
<1>16. \A i \in 1..Len(c) : Arguments[Options + i] = c[i]
  BY <1>6, <1>7, <1>13, <1>15 DEF Options
<1>17. ASSUME NEW i \in 1..(5 + ModelSize) PROVE Arguments[i] = s2[k + i]
  <2>1. /\ i \in 1..(8 + ModelSize) /\ i \in 1..Options /\ i \in 1..(Options + Len(c))
    BY <1>6, <1>7 DEF Options
  <2>2. Arguments[i] = s5[k + i] /\ s5[k + i] = s4[k + i] /\ s4[k + i] = s3[k + i]
    BY <1>12, <1>13, <1>15, <2>1
  <2>3. QED
    BY <1>11, <2>2
<1>18. ASSUME NEW i \in 1..5 PROVE Arguments[i] = a[i]
  <2>1. i \in 1..(5 + ModelSize)
    BY <1>7
  <2>2. QED
    BY <1>9, <1>10, <1>17, <2>1
<1>19. ASSUME ModelSize = 2 PROVE Arguments[6] = b[1] /\ Arguments[7] = b[2]
  <2>1. /\ 6 \in 1..(5 + ModelSize) /\ 7 \in 1..(5 + ModelSize)
        /\ 1 \in 1..ModelSize /\ 2 \in 1..ModelSize
        /\ k + 6 = k + 5 + 1 /\ k + 7 = k + 5 + 2
    BY <1>6, <1>19
  <2>2. QED
    BY <1>10, <1>17, <2>1
<1>20. ASSUME NEW i \in 1..3 PROVE Arguments[5 + ModelSize + i] = d[i]
  <2>1. /\ 5 + ModelSize + i \in 1..(8 + ModelSize) /\ 5 + ModelSize + i \in 1..Options
        /\ 5 + ModelSize + i \in 1..(Options + Len(c)) /\ k + 5 + ModelSize + i = k + (5 + ModelSize + i)
    BY <1>6, <1>7, SMTT(30) DEF Options
  <2>2. QED
    BY <1>11, <1>12, <1>13, <1>15, <2>1, SMTT(30)
<1>21. ASSUME NEW i \in 1..HarnessSize PROVE Arguments[8 + ModelSize + i] = Selector[i]
  <2>1. /\ 8 + ModelSize + i \in 1..Options /\ 8 + ModelSize + i \in 1..(Options + Len(c))
        /\ k + 8 + ModelSize + i = k + (8 + ModelSize + i)
    BY <1>6, <1>7 DEF Options
  <2>2. QED
    BY <1>12, <1>13, <1>15, <2>1
<1>22. QED
  <2>1. /\ Arguments[6 + ModelSize] = d[1] /\ Arguments[7 + ModelSize] = d[2] /\ Arguments[8 + ModelSize] = d[3]
    <3>1. 1 \in 1..3 /\ 2 \in 1..3 /\ 3 \in 1..3
      OBVIOUS
    <3>2. 5 + ModelSize + 1 = 6 + ModelSize /\ 5 + ModelSize + 2 = 7 + ModelSize /\ 5 + ModelSize + 3 = 8 + ModelSize
      BY <1>7
    <3>3. QED
      BY <1>20, <3>1, <3>2
  <2>2. Arguments[9 + ModelSize] = Selector[1] /\ (HarnessSize = 2 => Arguments[10 + ModelSize] = Selector[2])
    <3>1. 1 \in 1..HarnessSize /\ (HarnessSize = 2 => 2 \in 1..HarnessSize)
      BY <1>7
    <3>2. 8 + ModelSize + 1 = 9 + ModelSize /\ 8 + ModelSize + 2 = 10 + ModelSize
      BY <1>7
    <3>3. QED
      BY <1>21, <3>1, <3>2
  <2>3. /\ Arguments[1] = a[1] /\ Arguments[2] = a[2] /\ Arguments[3] = a[3]
        /\ Arguments[4] = a[4] /\ Arguments[5] = a[5]
    BY <1>18
  <2>4. Laid(c)
    BY <1>2, <1>3, <1>4, <1>5, <1>14, <1>16, <1>19, <2>1, <2>2, <2>3, SMTT(30) DEF Laid
  <2>5. QED
    BY <1>2, <2>3, <2>4 DEF c

-----------------------------------------------------------------------------
(* What ACPX reads of it. *)

(* An argument is read unless the one before it took it as its value. *)
LEMMA ReadNext ==
  ASSUME NEW n \in Nat, DOMAIN Arguments = 1..n, NEW i \in 1..(n - 1)
  PROVE  IsRead[i + 1] <=> ~(IsRead[i] /\ Arguments[i] \in Taking)
<1>1. i + 1 \in 1..n /\ i + 1 # 1 /\ (i + 1) - 1 = i
  OBVIOUS
<1>2. QED
  BY <1>1, ReadingIsDefined

(* In front of the command, the values of the options are not read, and      *)
(* everything else is.                                                       *)
LEMMA OptionsRead ==
  ASSUME Ready, NEW c, Laid(c), Len(c) \in Nat \ {0}
  PROVE  /\ IsRead[1] /\ ~IsRead[2] /\ IsRead[3] /\ ~IsRead[4] /\ IsRead[5] /\ IsRead[6]
         /\ ModelSize = 2 => ~IsRead[7]
         /\ IsRead[6 + ModelSize] /\ IsRead[7 + ModelSize] /\ ~IsRead[8 + ModelSize] /\ IsRead[9 + ModelSize]
         /\ HarnessSize = 2 => ~IsRead[10 + ModelSize]
         /\ IsRead[Options + 1]
<1> DEFINE n == Options + Len(c)
<1>1. /\ DOMAIN Arguments = 1..n /\ n \in Nat /\ n >= Options + 1
      /\ ModelSize \in {0, 2} /\ HarnessSize \in {1, 2} /\ Options = 8 + ModelSize + HarnessSize
  BY DEF Laid, ModelSize, HarnessSize, Options
<1> HIDE DEF n
<1>2. \A i \in 1..(n - 1) : IsRead[i + 1] <=> ~(IsRead[i] /\ Arguments[i] \in Taking)
  BY <1>1, ReadNext
<1>3. IsRead[1]
  BY <1>1, ReadingIsDefined
<1>4. ~IsRead[2] /\ IsRead[3] /\ ~IsRead[4] /\ IsRead[5] /\ IsRead[6]
  <2>1. /\ 1 \in 1..(n - 1) /\ 2 \in 1..(n - 1) /\ 3 \in 1..(n - 1) /\ 4 \in 1..(n - 1) /\ 5 \in 1..(n - 1)
        /\ 1 + 1 = 2 /\ 2 + 1 = 3 /\ 3 + 1 = 4 /\ 4 + 1 = 5 /\ 5 + 1 = 6
    BY <1>1
  <2>2. Arguments[1] \in Taking /\ Arguments[3] \in Taking /\ Arguments[5] \notin Taking
    BY DEF Laid, Taking
  <2>3. QED
    BY <1>2, <1>3, <2>1, <2>2
<1>5. (ModelSize = 2 => ~IsRead[7]) /\ IsRead[6 + ModelSize]
  <2>1. CASE ModelSize = 0
    BY <1>4, <2>1
  <2>2. CASE ModelSize = 2
    <3>1. 6 \in 1..(n - 1) /\ 7 \in 1..(n - 1) /\ 6 + 1 = 7 /\ 7 + 1 = 6 + ModelSize
      BY <1>1, <2>2
    <3>2. Arguments[6] \in Taking
      BY <2>2 DEF Laid, Taking
    <3>3. QED
      BY <1>2, <1>4, <3>1, <3>2
  <2>3. QED
    BY <1>1, <2>1, <2>2
<1>6. IsRead[7 + ModelSize] /\ ~IsRead[8 + ModelSize] /\ IsRead[9 + ModelSize]
  <2>1. /\ 6 + ModelSize \in 1..(n - 1) /\ 7 + ModelSize \in 1..(n - 1) /\ 8 + ModelSize \in 1..(n - 1)
        /\ (6 + ModelSize) + 1 = 7 + ModelSize /\ (7 + ModelSize) + 1 = 8 + ModelSize
        /\ (8 + ModelSize) + 1 = 9 + ModelSize
    BY <1>1
  <2>2. ModeOf(request) \in Modes
    BY DEF Ready, ModeOf, Modes, Flag
  <2>3. Flag[ModeOf(request)] \notin Taking
    BY <2>2 DEF Modes, Flag, Taking
  <2>4. Arguments[6 + ModelSize] \notin Taking /\ Arguments[7 + ModelSize] \in Taking
    BY <2>3 DEF Laid, Taking
  <2>5. QED
    BY <1>2, <1>5, <2>1, <2>4
<1>7. (HarnessSize = 2 => ~IsRead[10 + ModelSize]) /\ IsRead[Options + 1]
  <2>1. CASE HarnessSize = 1
    <3>1. 9 + ModelSize \in 1..(n - 1) /\ (9 + ModelSize) + 1 = Options + 1
      BY <1>1, <2>1
    <3>2. Arguments[9 + ModelSize] \notin Taking
      BY <2>1, ConfigsAssumption DEF Laid, Ready, Words
    <3>3. QED
      BY <1>2, <2>1, <3>1, <3>2
  <2>2. CASE HarnessSize = 2
    <3>1. /\ 9 + ModelSize \in 1..(n - 1) /\ 10 + ModelSize \in 1..(n - 1)
          /\ (9 + ModelSize) + 1 = 10 + ModelSize /\ (10 + ModelSize) + 1 = Options + 1
      BY <1>1, <2>2
    <3>2. Arguments[9 + ModelSize] \in Taking
      BY <2>2 DEF Laid, Taking
    <3>3. QED
      BY <1>2, <1>6, <3>1, <3>2
  <2>3. QED
    BY <1>1, <2>1, <2>2
<1>8. QED
  BY <1>3, <1>4, <1>5, <1>6, <1>7

(* The words ACPX reads in front of the command. *)
CommandWords == {"sessions", "prompt", "close", "-s", "--name"}

LEMMA OptionWords ==
  ASSUME Ready, NEW c, Laid(c), Len(c) \in Nat \ {0}, NEW i \in 1..Options
  PROVE  /\ Reads(i, "--cwd") <=> i = 1
         /\ Reads(i, "--model") <=> ModelSize = 2 /\ i = 6
         /\ Reads(i, "--agent") <=> HarnessSize = 2 /\ i = 9 + ModelSize
         /\ \A m \in Modes : Reads(i, Flag[m]) <=> i = 6 + ModelSize /\ m = ModeOf(request)
         /\ \A w \in CommandWords : ~Reads(i, w)
         /\ HarnessSize = 1 /\ i = 9 + ModelSize => Reads(i, config.agent)
<1>1. ModelSize \in {0, 2} /\ HarnessSize \in {1, 2} /\ Options = 8 + ModelSize + HarnessSize
  BY DEF ModelSize, HarnessSize, Options
<1>2. ModeOf(request) \in Modes
  BY DEF Ready, ModeOf, Modes, Flag
<1>3. \A m \in Modes : Flag[m] \in {"--deny-all", "--approve-reads", "--approve-all"}
  BY DEF Modes, Flag
<1>4. \A m \in Modes : Flag[m] = Flag[ModeOf(request)] => m = ModeOf(request)
  BY <1>2 DEF Modes, Flag
<1>5. HarnessSize = 1 => config.agent \notin Words
  BY ConfigsAssumption DEF Ready
<1>6. ASSUME IsRead[i] PROVE \A w : Reads(i, w) <=> Arguments[i] = w
  BY <1>6 DEF Reads
<1>7. \/ i \in {1, 2, 3, 4, 5}
      \/ ModelSize = 2 /\ i \in {6, 7}
      \/ i \in {6 + ModelSize, 7 + ModelSize, 8 + ModelSize, 9 + ModelSize}
      \/ HarnessSize = 2 /\ i = 10 + ModelSize
  BY <1>1
<1>8. CASE ~IsRead[i]
  BY <1>1, <1>8, OptionsRead DEF Reads
<1>9. CASE i = 1
  <2>1. IsRead[i] /\ Arguments[i] = "--cwd"
    BY <1>1, <1>9, OptionsRead DEF Laid
  <2>2. QED
    BY <1>1, <1>3, <1>6, <1>9, <2>1 DEF CommandWords
<1>10. CASE i = 3 \/ i = 5
  <2>1. IsRead[i] /\ Arguments[i] \in {"--format", "--json-strict"}
    BY <1>1, <1>10, OptionsRead DEF Laid
  <2>2. QED
    BY <1>1, <1>3, <1>6, <1>10, <2>1 DEF CommandWords
<1>11. CASE ModelSize = 2 /\ i = 6
  <2>1. IsRead[i] /\ Arguments[i] = "--model"
    BY <1>1, <1>11, OptionsRead DEF Laid
  <2>2. QED
    BY <1>1, <1>3, <1>6, <1>11, <2>1 DEF CommandWords
<1>12. CASE i = 6 + ModelSize
  <2>1. IsRead[i] /\ Arguments[i] = Flag[ModeOf(request)]
    BY <1>1, <1>12, OptionsRead DEF Laid
  <2>2. QED
    BY <1>1, <1>3, <1>6, <1>12, <1>2, <1>4, <2>1 DEF CommandWords
<1>13. CASE i = 7 + ModelSize
  <2>1. IsRead[i] /\ Arguments[i] = "--non-interactive-permissions"
    BY <1>1, <1>13, OptionsRead DEF Laid
  <2>2. QED
    BY <1>1, <1>3, <1>6, <1>13, <2>1 DEF CommandWords
<1>14. CASE i = 9 + ModelSize /\ HarnessSize = 2
  <2>1. IsRead[i] /\ Arguments[i] = "--agent"
    BY <1>1, <1>14, OptionsRead DEF Laid
  <2>2. QED
    BY <1>1, <1>3, <1>6, <1>14, <2>1 DEF CommandWords
<1>15. CASE i = 9 + ModelSize /\ HarnessSize = 1
  <2>1. IsRead[i] /\ Arguments[i] = config.agent
    BY <1>1, <1>15, OptionsRead DEF Laid
  <2>2. /\ config.agent \notin {"--cwd", "--model", "--agent"} \union CommandWords
        /\ \A m \in Modes : config.agent # Flag[m]
    BY <1>5, <1>15 DEF Words, Taking, CommandWords
  <2>3. QED
    BY <1>1, <1>6, <1>15, <2>1, <2>2
<1>16. QED
  BY <1>1, <1>7, <1>8, <1>9, <1>10, <1>11, <1>12, <1>13, <1>14, <1>15, OptionsRead

(* Where the command has each of its words, counted from its first argument. *)
Spot(w) ==
    CASE request.tool = "harness_start" -> IF w = "sessions" THEN 1 ELSE IF w = "--name" THEN 3 ELSE 0
      [] request.tool = "harness_close" -> IF w = "sessions" THEN 1 ELSE IF w = "close" THEN 2 ELSE 0
      [] request.tool = "harness_prompt" /\ config.command # None ->
             IF w = "prompt" THEN 1 ELSE IF w = "-s" THEN 2 ELSE 0
      [] request.tool = "harness_prompt" /\ config.command = None ->
             IF w = "-s" THEN 1 ELSE IF w = "prompt" THEN 3 ELSE 0
      [] OTHER -> IF w = "-s" THEN 2 ELSE 0

OptionWordSet == {"--cwd", "--model", "--agent"} \union {Flag[m] : m \in Modes}

(* In the command, each of its words is read in its place, and no option is, *)
(* the model's own last word apart, which is an argument of its own.         *)
LEMMA CommandWordsRead ==
  ASSUME Ready, Laid(Command(request)), NEW i \in Governed, i > Options
  PROVE  /\ \A w \in CommandWords : Reads(i, w) <=> i = Options + Spot(w)
         /\ \A w \in OptionWordSet : ~Reads(i, w)
         /\ EndsOwn => IsRead[Len(Arguments)]
<1> DEFINE c == Command(request)
           n == Options + Len(c)
<1>1. Options \in Nat
  BY DEF Options, ModelSize, HarnessSize
<1>2. ASSUME NEW k \in Nat \ {0}, Len(c) = k
      PROVE  /\ DOMAIN Arguments = 1..(Options + k) /\ IsRead[Options + 1]
             /\ \A j \in 1..k : Arguments[Options + j] = c[j]
             /\ \A j \in 1..(k - 1) : IsRead[Options + j + 1] <=> ~(IsRead[Options + j] /\ c[j] \in Taking)
             /\ i - Options \in 1..k /\ i = Options + (i - Options)
             /\ Len(Arguments) = Options + k /\ (EndsOwn => i - Options # k)
  <2>1. DOMAIN Arguments = 1..(Options + k) /\ \A j \in 1..k : Arguments[Options + j] = c[j]
    BY <1>2 DEF Laid
  <2>2. IsRead[Options + 1]
    BY <1>2, OptionsRead
  <2>3. ASSUME NEW j \in 1..(k - 1)
        PROVE  IsRead[Options + j + 1] <=> ~(IsRead[Options + j] /\ c[j] \in Taking)
    <3>1. Options + j \in 1..((Options + k) - 1) /\ Options + k \in Nat /\ (Options + j) + 1 = Options + j + 1
      BY <1>1
    <3>2. Arguments[Options + j] = c[j]
      BY <2>1
    <3>3. QED
      BY <2>1, <3>1, <3>2, ReadNext
  <2>4. i - Options \in 1..k /\ i = Options + (i - Options)
    BY <1>1, <2>1 DEF Governed
  <2>5. Len(Arguments) = Options + k /\ (EndsOwn => i - Options # k)
    BY <1>1, <1>2, <2>4 DEF Laid, Governed
  <2>6. QED
    BY <2>1, <2>2, <2>3, <2>4, <2>5
<1>3. \A m \in Modes : Flag[m] \in {"--deny-all", "--approve-reads", "--approve-all"}
  BY DEF Modes, Flag
<1> DEFINE j == i - Options
<1>4. CASE request.tool = "harness_start"
  <2>1. c = <<"sessions", IF request.fresh THEN "new" ELSE "ensure", "--name",
  request.session>> /\ Len(c) = 4
    BY <1>4 DEF Command
  <2>2. j \in 1..4 /\ i = Options + j /\ \A l \in 1..4 : Arguments[Options + l] = c[l]
    BY <1>2, <2>1
  <2>3. IsRead[Options + 1] /\ IsRead[Options + 2] /\ IsRead[Options + 3] /\ ~IsRead[Options + 4]
    <3>1. IsRead[Options + 1] /\ \A l \in 1..3 : IsRead[Options + l + 1] <=> ~(IsRead[Options + l] /\ c[l] \in Taking)
      BY <1>2, <2>1
    <3>2. /\ 1 \in 1..3 /\ 2 \in 1..3 /\ 3 \in 1..3
          /\ Options + 1 + 1 = Options + 2 /\ Options + 2 + 1 = Options + 3 /\ Options + 3 + 1 = Options + 4
      BY <1>1
    <3>3. c[1] \notin Taking /\ c[2] \notin Taking /\ c[3] \in Taking
      BY <2>1 DEF Taking
    <3>4. QED
      BY <3>1, <3>2, <3>3
  <2>4. \A w : Reads(i, w) <=> IsRead[Options + j] /\ c[j] = w
    BY <2>2 DEF Reads
  <2>5. j = 1 \/ j = 2 \/ j = 3 \/ j = 4
    BY <2>2
  <2>6. \A w \in CommandWords : Spot(w) = IF w = "sessions" THEN 1 ELSE IF w = "--name" THEN 3 ELSE 0
    BY <1>4 DEF Spot
  <2>7. QED
    BY <1>1, <1>3, <1>4, <2>1, <2>2, <2>3, <2>4, <2>5, <2>6 DEF CommandWords, OptionWordSet, EndsOwn
<1>5. CASE request.tool = "harness_status"
  <2>1. c = <<"status", "-s", request.session>> /\ Len(c) = 3
    BY <1>5 DEF Command
  <2>2. j \in 1..3 /\ i = Options + j /\ \A l \in 1..3 : Arguments[Options + l] = c[l]
    BY <1>2, <2>1
  <2>3. IsRead[Options + 1] /\ IsRead[Options + 2] /\ ~IsRead[Options + 3]
    <3>1. IsRead[Options + 1] /\ \A l \in 1..2 : IsRead[Options + l + 1] <=> ~(IsRead[Options + l] /\ c[l] \in Taking)
      BY <1>2, <2>1
    <3>2. /\ 1 \in 1..2 /\ 2 \in 1..2
          /\ Options + 1 + 1 = Options + 2 /\ Options + 2 + 1 = Options + 3
      BY <1>1
    <3>3. c[1] \notin Taking /\ c[2] \in Taking
      BY <2>1 DEF Taking
    <3>4. QED
      BY <3>1, <3>2, <3>3
  <2>4. \A w : Reads(i, w) <=> IsRead[Options + j] /\ c[j] = w
    BY <2>2 DEF Reads
  <2>5. j = 1 \/ j = 2 \/ j = 3
    BY <2>2
  <2>6. \A w \in CommandWords : Spot(w) = IF w = "-s" THEN 2 ELSE 0
    BY <1>5 DEF Spot
  <2>7. QED
    BY <1>1, <1>3, <1>5, <2>1, <2>2, <2>3, <2>4, <2>5, <2>6 DEF CommandWords, OptionWordSet, EndsOwn
<1>6. CASE request.tool = "harness_cancel"
  <2>1. c = <<"cancel", "-s", request.session>> /\ Len(c) = 3
    BY <1>6 DEF Command
  <2>2. j \in 1..3 /\ i = Options + j /\ \A l \in 1..3 : Arguments[Options + l] = c[l]
    BY <1>2, <2>1
  <2>3. IsRead[Options + 1] /\ IsRead[Options + 2] /\ ~IsRead[Options + 3]
    <3>1. IsRead[Options + 1] /\ \A l \in 1..2 : IsRead[Options + l + 1] <=> ~(IsRead[Options + l] /\ c[l] \in Taking)
      BY <1>2, <2>1
    <3>2. /\ 1 \in 1..2 /\ 2 \in 1..2
          /\ Options + 1 + 1 = Options + 2 /\ Options + 2 + 1 = Options + 3
      BY <1>1
    <3>3. c[1] \notin Taking /\ c[2] \in Taking
      BY <2>1 DEF Taking
    <3>4. QED
      BY <3>1, <3>2, <3>3
  <2>4. \A w : Reads(i, w) <=> IsRead[Options + j] /\ c[j] = w
    BY <2>2 DEF Reads
  <2>5. j = 1 \/ j = 2 \/ j = 3
    BY <2>2
  <2>6. \A w \in CommandWords : Spot(w) = IF w = "-s" THEN 2 ELSE 0
    BY <1>6 DEF Spot
  <2>7. QED
    BY <1>1, <1>3, <1>6, <2>1, <2>2, <2>3, <2>4, <2>5, <2>6 DEF CommandWords, OptionWordSet, EndsOwn
<1>7. CASE request.tool = "harness_close"
  <2>1. c = <<"sessions", "close", request.session>> /\ Len(c) = 3
    BY <1>7 DEF Command
  <2>2. EndsOwn /\ Len(Arguments) = Options + 3 /\ j \in 1..2 /\ i = Options + j /\ \A l \in 1..3 : Arguments[Options + l] = c[l]
    BY <1>2, <2>1, <1>7 DEF EndsOwn
  <2>3. IsRead[Options + 1] /\ IsRead[Options + 2] /\ IsRead[Options + 3]
    <3>1. IsRead[Options + 1] /\ \A l \in 1..2 : IsRead[Options + l + 1] <=> ~(IsRead[Options + l] /\ c[l] \in Taking)
      BY <1>2, <2>1
    <3>2. /\ 1 \in 1..2 /\ 2 \in 1..2
          /\ Options + 1 + 1 = Options + 2 /\ Options + 2 + 1 = Options + 3
      BY <1>1
    <3>3. c[1] \notin Taking /\ c[2] \notin Taking
      BY <2>1 DEF Taking
    <3>4. QED
      BY <3>1, <3>2, <3>3
  <2>4. \A w : Reads(i, w) <=> IsRead[Options + j] /\ c[j] = w
    BY <2>2 DEF Reads
  <2>5. j = 1 \/ j = 2
    BY <2>2
  <2>6. \A w \in CommandWords : Spot(w) = IF w = "sessions" THEN 1 ELSE IF w = "close" THEN 2 ELSE 0
    BY <1>7 DEF Spot
  <2>7. QED
    BY <1>1, <1>3, <2>1, <2>2, <2>3, <2>4, <2>5, <2>6 DEF CommandWords, OptionWordSet
<1>8. CASE request.tool = "harness_prompt" /\ config.command # None
  <2>1. c = <<"prompt", "-s", request.session, request.text>> /\ Len(c) = 4
    BY <1>8 DEF Command
  <2>2. EndsOwn /\ Len(Arguments) = Options + 4 /\ j \in 1..3 /\ i = Options + j /\ \A l \in 1..4 : Arguments[Options + l] = c[l]
    BY <1>2, <2>1, <1>8 DEF EndsOwn
  <2>3. IsRead[Options + 1] /\ IsRead[Options + 2] /\ ~IsRead[Options + 3] /\ IsRead[Options + 4]
    <3>1. IsRead[Options + 1] /\ \A l \in 1..3 : IsRead[Options + l + 1] <=> ~(IsRead[Options + l] /\ c[l] \in Taking)
      BY <1>2, <2>1
    <3>2. /\ 1 \in 1..3 /\ 2 \in 1..3 /\ 3 \in 1..3
          /\ Options + 1 + 1 = Options + 2 /\ Options + 2 + 1 = Options + 3 /\ Options + 3 + 1 = Options + 4
      BY <1>1
    <3>3. c[1] \notin Taking /\ c[2] \in Taking
      BY <2>1 DEF Taking
    <3>4. QED
      BY <3>1, <3>2, <3>3
  <2>4. \A w : Reads(i, w) <=> IsRead[Options + j] /\ c[j] = w
    BY <2>2 DEF Reads
  <2>5. j = 1 \/ j = 2 \/ j = 3
    BY <2>2
  <2>6. \A w \in CommandWords : Spot(w) = IF w = "prompt" THEN 1 ELSE IF w = "-s" THEN 2 ELSE 0
    BY <1>8 DEF Spot
  <2>7. QED
    BY <1>1, <1>3, <2>1, <2>2, <2>3, <2>4, <2>5, <2>6 DEF CommandWords, OptionWordSet
<1>9. CASE request.tool = "harness_prompt" /\ config.command = None
  <2>1. c = <<"-s", request.session, "prompt", request.text>> /\ Len(c) = 4
    BY <1>9 DEF Command
  <2>2. EndsOwn /\ Len(Arguments) = Options + 4 /\ j \in 1..3 /\ i = Options + j /\ \A l \in 1..4 : Arguments[Options + l] = c[l]
    BY <1>2, <2>1, <1>9 DEF EndsOwn
  <2>3. IsRead[Options + 1] /\ ~IsRead[Options + 2] /\ IsRead[Options + 3] /\ IsRead[Options + 4]
    <3>1. IsRead[Options + 1] /\ \A l \in 1..3 : IsRead[Options + l + 1] <=> ~(IsRead[Options + l] /\ c[l] \in Taking)
      BY <1>2, <2>1
    <3>2. /\ 1 \in 1..3 /\ 2 \in 1..3 /\ 3 \in 1..3
          /\ Options + 1 + 1 = Options + 2 /\ Options + 2 + 1 = Options + 3 /\ Options + 3 + 1 = Options + 4
      BY <1>1
    <3>3. c[1] \in Taking /\ c[3] \notin Taking
      BY <2>1 DEF Taking
    <3>4. QED
      BY <3>1, <3>2, <3>3
  <2>4. \A w : Reads(i, w) <=> IsRead[Options + j] /\ c[j] = w
    BY <2>2 DEF Reads
  <2>5. j = 1 \/ j = 2 \/ j = 3
    BY <2>2
  <2>6. \A w \in CommandWords : Spot(w) = IF w = "-s" THEN 1 ELSE IF w = "prompt" THEN 3 ELSE 0
    BY <1>9 DEF Spot
  <2>7. \A w \in CommandWords : Reads(i, w) <=> i = Options + Spot(w)
    <3>1. \A w \in CommandWords : c[j] = w /\ IsRead[Options + j] <=> j = Spot(w)
      BY <2>1, <2>3, <2>5, <2>6 DEF CommandWords
    <3>2. \A w \in CommandWords : Spot(w) \in 0..3 /\ (j = Spot(w) <=> i = Options + Spot(w))
      BY <1>1, <2>2, <2>6
    <3>3. QED
      BY <2>4, <3>1, <3>2
  <2>8. \A w \in OptionWordSet : ~Reads(i, w)
    BY <1>3, <2>1, <2>3, <2>4, <2>5 DEF OptionWordSet
  <2>9. QED
    BY <2>2, <2>3, <2>7, <2>8
<1>10. QED
  BY <1>4, <1>5, <1>6, <1>7, <1>8, <1>9 DEF Ready, Starters, ControlTools

(* All that is read of what the properties speak of. *)
LEMMA WhatIsRead ==
  ASSUME Ready, Laid(Command(request)), NEW i \in Governed
  PROVE  /\ Reads(i, "--cwd") <=> i = 1
         /\ Reads(i, "--model") <=> ModelSize = 2 /\ i = 6
         /\ Reads(i, "--agent") <=> HarnessSize = 2 /\ i = 9 + ModelSize
         /\ \A m \in Modes : Reads(i, Flag[m]) <=> i = 6 + ModelSize /\ m = ModeOf(request)
         /\ \A w \in CommandWords : Reads(i, w) <=> Spot(w) # 0 /\ i = Options + Spot(w)
<1>1. /\ ModelSize \in {0, 2} /\ HarnessSize \in {1, 2} /\ Options = 8 + ModelSize + HarnessSize
      /\ i \in 1..(Options + Len(Command(request)))
  BY DEF ModelSize, HarnessSize, Options, Laid, Governed
<1>2. \A w : Spot(w) \in 0..3
  BY DEF Spot, Ready, Starters, ControlTools
<1>3. Len(Command(request)) \in Nat \ {0}
  <2>1. CASE request.tool = "harness_start"
    BY <2>1 DEF Command
  <2>2. CASE request.tool = "harness_status"
    BY <2>2 DEF Command
  <2>3. CASE request.tool = "harness_cancel"
    BY <2>3 DEF Command
  <2>4. CASE request.tool = "harness_close"
    BY <2>4 DEF Command
  <2>5. CASE request.tool = "harness_prompt"
    BY <2>5 DEF Command
  <2>6. QED
    BY <2>1, <2>2, <2>3, <2>4, <2>5 DEF Ready, Starters, ControlTools
<1>4. CASE i \in 1..Options
  <2>1. \A w \in CommandWords : ~(Spot(w) # 0 /\ i = Options + Spot(w))
    BY <1>1, <1>2, <1>4
  <2>2. QED
    BY <1>3, <1>4, <2>1, OptionWords
<1>5. CASE i > Options
  <2>1. i # 1 /\ i # 6 /\ i # 9 + ModelSize /\ i # 6 + ModelSize /\ i # Options
    BY <1>1, <1>5
  <2>2. \A w \in CommandWords : i = Options + Spot(w) <=> Spot(w) # 0 /\ i = Options + Spot(w)
    BY <1>1, <1>2, <2>1
  <2>3. /\ {"--cwd", "--model", "--agent"} \subseteq OptionWordSet
        /\ \A m \in Modes : Flag[m] \in OptionWordSet
    BY DEF OptionWordSet
  <2>4. /\ \A w \in CommandWords : Reads(i, w) <=> i = Options + Spot(w)
        /\ \A w \in OptionWordSet : ~Reads(i, w)
    BY <1>5, CommandWordsRead
  <2>5. QED
    BY <2>1, <2>2, <2>3, <2>4
<1>6. QED
  BY <1>1, <1>3, <1>4, <1>5

(* A word read in one place only is found there. *)
LEMMA WordFound ==
  ASSUME NEW word, NEW i \in Governed, \A l \in Governed : Reads(l, word) <=> l = i
  PROVE  Uses(word) /\ Place(word) = i /\ After(word) = Arguments[i + 1]
<1>1. Place(word) = i
  BY DEF Place
<1>2. QED
  BY <1>1 DEF Uses, After

LEMMA WordsFound ==
  ASSUME Ready, Laid(Command(request))
  PROVE  /\ After("--cwd") = Arguments[2]
         /\ IF ModelSize = 2 THEN After("--model") = config.model ELSE ~Uses("--model")
         /\ IF HarnessSize = 2 THEN Uses("--agent") /\ After("--agent") = config.command ELSE ~Uses("--agent")
         /\ HarnessSize = 1 => Uses(config.agent)
         /\ \A m \in Modes : Uses(Flag[m]) <=> m = ModeOf(request)
         /\ \A w \in CommandWords :
                IF Spot(w) = 0 THEN ~Uses(w)
                ELSE Uses(w) /\ Place(w) = Options + Spot(w)
<1> DEFINE c == Command(request)
<1>1. /\ ModelSize \in {0, 2} /\ HarnessSize \in {1, 2} /\ Options = 8 + ModelSize + HarnessSize
      /\ DOMAIN Arguments = 1..(Options + Len(c)) /\ Len(Arguments) = Options + Len(c)
  BY DEF ModelSize, HarnessSize, Options, Laid
<1>2. /\ Len(c) \in Nat \ {0}
      /\ \A w \in CommandWords : Spot(w) \in 0..Len(c) /\ (EndsOwn => Spot(w) # Len(c))
  <2>1. CASE request.tool = "harness_start"
    BY <2>1 DEF Command, Spot, EndsOwn
  <2>2. CASE request.tool = "harness_status"
    BY <2>2 DEF Command, Spot, EndsOwn
  <2>3. CASE request.tool = "harness_cancel"
    BY <2>3 DEF Command, Spot, EndsOwn
  <2>4. CASE request.tool = "harness_close"
    BY <2>4 DEF Command, Spot, EndsOwn
  <2>5. CASE request.tool = "harness_prompt"
    BY <2>5 DEF Command, Spot, EndsOwn
  <2>6. QED
    BY <2>1, <2>2, <2>3, <2>4, <2>5 DEF Ready, Starters, ControlTools
<1> HIDE DEF c
<1>3. \A i \in 1..Options : i \in Governed
  BY <1>1, <1>2 DEF Governed
<1>4. After("--cwd") = Arguments[2]
  <2>1. 1 \in Governed /\ 1 + 1 = 2
    BY <1>1, <1>2, <1>3 DEF Laid
  <2>2. QED
    BY <2>1, WhatIsRead, WordFound
<1>5. IF ModelSize = 2 THEN After("--model") = config.model ELSE ~Uses("--model")
  <2>1. CASE ModelSize = 2
    <3>1. 6 \in Governed /\ Arguments[6 + 1] = config.model
      BY <1>1, <1>2, <1>3, <2>1 DEF Laid
    <3>2. \A l \in Governed : Reads(l, "--model") <=> l = 6
      BY <2>1, WhatIsRead
    <3>3. QED
      BY <2>1, <3>1, <3>2, WordFound
  <2>2. QED
    BY <2>1, WhatIsRead DEF Uses
<1>6. IF HarnessSize = 2 THEN Uses("--agent") /\ After("--agent") = config.command ELSE ~Uses("--agent")
  <2>1. CASE HarnessSize = 2
    <3>1. 9 + ModelSize \in Governed /\ Arguments[(9 + ModelSize) + 1] = config.command
      BY <1>1, <1>2, <1>3, <2>1 DEF Laid
    <3>2. \A l \in Governed : Reads(l, "--agent") <=> l = 9 + ModelSize
      BY <2>1, WhatIsRead
    <3>3. QED
      BY <2>1, <3>1, <3>2, WordFound
  <2>2. QED
    BY <2>1, WhatIsRead DEF Uses
<1>7. HarnessSize = 1 => Uses(config.agent)
  <2>1. 9 + ModelSize \in Governed /\ 9 + ModelSize \in 1..Options
    BY <1>1, <1>2, <1>3
  <2>2. QED
    BY <1>2, <2>1, OptionWords DEF Uses, c
<1>8. \A m \in Modes : Uses(Flag[m]) <=> m = ModeOf(request)
  <2>1. 6 + ModelSize \in Governed
    BY <1>1, <1>2, <1>3
  <2>2. QED
    BY <2>1, WhatIsRead DEF Uses
<1>9. ASSUME NEW w \in CommandWords
      PROVE  IF Spot(w) = 0 THEN ~Uses(w) ELSE Uses(w) /\ Place(w) = Options + Spot(w)
  <2>1. CASE Spot(w) = 0
    BY <2>1, WhatIsRead DEF Uses
  <2>2. CASE Spot(w) # 0
    <3>1. Options + Spot(w) \in Governed
      BY <1>1, <1>2, <2>2 DEF Governed
    <3>2. \A l \in Governed : Reads(l, w) <=> l = Options + Spot(w)
      BY <2>2, WhatIsRead
    <3>3. QED
      BY <2>2, <3>1, <3>2, WordFound
  <2>3. QED
    BY <2>1, <2>2
<1>10. QED
  BY <1>4, <1>5, <1>6, <1>7, <1>8, <1>9

(* The session and the verb that are read are the ones of the call, whatever *)
(* the tool; a prompt has its text last, and its session option on the side  *)
(* of the verb where ACPX takes it.                                          *)
LEMMA CommandUnderstood ==
  ASSUME Ready, Laid(Command(request))
  PROVE  /\ SessionRead = request.session /\ VerbRead = VerbAsked
         /\ VerbAsked = "prompt" =>
                Last(Arguments) = request.text /\ (config.command # None <=> Place("-s") > Place("prompt"))
         /\ EndsOwn => IsRead[Len(Arguments)]
<1> DEFINE c == Command(request)
<1>1. Options \in Nat
  BY DEF Options, ModelSize, HarnessSize
<1>2. \A j \in 1..Len(c) : Arguments[Options + j] = c[j]
  BY DEF Laid
<1>3. \A w \in CommandWords :
        IF Spot(w) = 0 THEN ~Uses(w)
        ELSE Uses(w) /\ Place(w) = Options + Spot(w) /\ After(w) = Arguments[Options + Spot(w) + 1]
  BY WordsFound DEF After
<1>4. Len(Arguments) = Options + Len(c)
  BY DEF Laid
<1>5. request.fresh \in BOOLEAN
  BY DEF Ready
<1>6. EndsOwn => IsRead[Len(Arguments)]
  <2>1. SUFFICES ASSUME EndsOwn PROVE Options + 1 \in Governed /\ Options + 1 > Options
    BY CommandWordsRead
  <2>2. Len(c) \in {3, 4}
    <3>1. CASE request.tool = "harness_close"
      BY <3>1 DEF Command
    <3>2. CASE request.tool = "harness_prompt"
      BY <3>2 DEF Command
    <3>3. QED
      BY <2>1, <3>1, <3>2 DEF EndsOwn
  <2>3. DOMAIN Arguments = 1..(Options + Len(c))
    BY DEF Laid
  <2> HIDE DEF c
  <2>4. Options + 1 \in 1..(Options + Len(c)) /\ Options + 1 # Options + Len(c) /\ Options + 1 > Options
    BY <1>1, <2>2
  <2>5. QED
    BY <1>4, <2>3, <2>4 DEF Governed
<1>7. CASE request.tool = "harness_start"
  <2>1. c = <<"sessions", IF request.fresh THEN "new" ELSE "ensure", "--name",
  request.session>> /\ Len(c) = 4
    BY <1>7 DEF Command
  <2>2. Arguments[Options + 1] = "sessions" /\ Arguments[Options + 2] = (IF request.fresh THEN "new" ELSE "ensure") /\ Arguments[Options + 3] = "--name" /\ Arguments[Options + 4] = request.session
    BY <1>2, <2>1
  <2>3. Spot("sessions") = 1 /\ Spot("prompt") = 0 /\ Spot("close") = 0 /\ Spot("-s") = 0 /\ Spot("--name") = 3
    BY <1>7 DEF Spot
  <2>4. /\ Uses("sessions") /\ Place("sessions") = Options + 1 /\ After("sessions") = Arguments[Options + 2]
        /\ ~Uses("prompt")
        /\ ~Uses("close")
        /\ ~Uses("-s")
        /\ Uses("--name") /\ Place("--name") = Options + 3 /\ After("--name") = Arguments[Options + 4]
    BY <1>1, <1>3, <2>3 DEF CommandWords
  <2>5. VerbAsked # "prompt"
    BY <1>5, <1>7 DEF VerbAsked
  <2>6. QED
    BY <1>1, <1>5, <1>7, <1>6, <2>2, <2>4, <2>5 DEF SessionRead, VerbRead, VerbAsked
<1>8. CASE request.tool = "harness_status"
  <2>1. c = <<"status", "-s", request.session>> /\ Len(c) = 3
    BY <1>8 DEF Command
  <2>2. Arguments[Options + 1] = "status" /\ Arguments[Options + 2] = "-s" /\ Arguments[Options + 3] = request.session
    BY <1>2, <2>1
  <2>3. Spot("sessions") = 0 /\ Spot("prompt") = 0 /\ Spot("close") = 0 /\ Spot("-s") = 2 /\ Spot("--name") = 0
    BY <1>8 DEF Spot
  <2>4. /\ ~Uses("sessions")
        /\ ~Uses("prompt")
        /\ ~Uses("close")
        /\ Uses("-s") /\ Place("-s") = Options + 2 /\ After("-s") = Arguments[Options + 3]
        /\ ~Uses("--name")
    BY <1>1, <1>3, <2>3 DEF CommandWords
  <2>5. VerbAsked # "prompt"
    BY <1>5, <1>8 DEF VerbAsked
  <2>6. QED
    BY <1>1, <1>5, <1>8, <1>6, <2>2, <2>4, <2>5 DEF SessionRead, VerbRead, VerbAsked
<1>9. CASE request.tool = "harness_cancel"
  <2>1. c = <<"cancel", "-s", request.session>> /\ Len(c) = 3
    BY <1>9 DEF Command
  <2>2. Arguments[Options + 1] = "cancel" /\ Arguments[Options + 2] = "-s" /\ Arguments[Options + 3] = request.session
    BY <1>2, <2>1
  <2>3. Spot("sessions") = 0 /\ Spot("prompt") = 0 /\ Spot("close") = 0 /\ Spot("-s") = 2 /\ Spot("--name") = 0
    BY <1>9 DEF Spot
  <2>4. /\ ~Uses("sessions")
        /\ ~Uses("prompt")
        /\ ~Uses("close")
        /\ Uses("-s") /\ Place("-s") = Options + 2 /\ After("-s") = Arguments[Options + 3]
        /\ ~Uses("--name")
    BY <1>1, <1>3, <2>3 DEF CommandWords
  <2>5. VerbAsked # "prompt"
    BY <1>5, <1>9 DEF VerbAsked
  <2>6. QED
    BY <1>1, <1>5, <1>9, <1>6, <2>2, <2>4, <2>5 DEF SessionRead, VerbRead, VerbAsked
<1>10. CASE request.tool = "harness_close"
  <2>1. c = <<"sessions", "close", request.session>> /\ Len(c) = 3
    BY <1>10 DEF Command
  <2>2. Arguments[Options + 1] = "sessions" /\ Arguments[Options + 2] = "close" /\ Arguments[Options + 3] = request.session
    BY <1>2, <2>1
  <2>3. Spot("sessions") = 1 /\ Spot("prompt") = 0 /\ Spot("close") = 2 /\ Spot("-s") = 0 /\ Spot("--name") = 0
    BY <1>10 DEF Spot
  <2>4. /\ Uses("sessions") /\ Place("sessions") = Options + 1 /\ After("sessions") = Arguments[Options + 2]
        /\ ~Uses("prompt")
        /\ Uses("close") /\ Place("close") = Options + 2 /\ After("close") = Arguments[Options + 3]
        /\ ~Uses("-s")
        /\ ~Uses("--name")
    BY <1>1, <1>3, <2>3 DEF CommandWords
  <2>5. VerbAsked # "prompt"
    BY <1>5, <1>10 DEF VerbAsked
  <2>6. QED
    BY <1>1, <1>5, <1>10, <1>6, <2>2, <2>4, <2>5 DEF SessionRead, VerbRead, VerbAsked
<1>11. CASE request.tool = "harness_prompt" /\ config.command # None
  <2>1. c = <<"prompt", "-s", request.session, request.text>> /\ Len(c) = 4
    BY <1>11 DEF Command
  <2>2. Arguments[Options + 1] = "prompt" /\ Arguments[Options + 2] = "-s" /\ Arguments[Options + 3] = request.session /\ Arguments[Options + 4] = request.text
    BY <1>2, <2>1
  <2>3. Spot("sessions") = 0 /\ Spot("prompt") = 1 /\ Spot("close") = 0 /\ Spot("-s") = 2 /\ Spot("--name") = 0
    BY <1>11 DEF Spot
  <2>4. /\ ~Uses("sessions")
        /\ Uses("prompt") /\ Place("prompt") = Options + 1 /\ After("prompt") = Arguments[Options + 2]
        /\ ~Uses("close")
        /\ Uses("-s") /\ Place("-s") = Options + 2 /\ After("-s") = Arguments[Options + 3]
        /\ ~Uses("--name")
    BY <1>1, <1>3, <2>3 DEF CommandWords
  <2>5. Last(Arguments) = request.text
    BY <1>4, <2>1, <2>2 DEF Last
  <2>6. QED
    BY <1>1, <1>11, <1>6, <2>2, <2>4, <2>5 DEF SessionRead, VerbRead, VerbAsked
<1>12. CASE request.tool = "harness_prompt" /\ config.command = None
  <2>1. c = <<"-s", request.session, "prompt", request.text>> /\ Len(c) = 4
    BY <1>12 DEF Command
  <2>2. Arguments[Options + 1] = "-s" /\ Arguments[Options + 2] = request.session /\ Arguments[Options + 3] = "prompt" /\ Arguments[Options + 4] = request.text
    BY <1>2, <2>1
  <2>3. Spot("sessions") = 0 /\ Spot("prompt") = 3 /\ Spot("close") = 0 /\ Spot("-s") = 1 /\ Spot("--name") = 0
    BY <1>12 DEF Spot
  <2>4. /\ ~Uses("sessions")
        /\ Uses("prompt") /\ Place("prompt") = Options + 3 /\ After("prompt") = Arguments[Options + 4]
        /\ ~Uses("close")
        /\ Uses("-s") /\ Place("-s") = Options + 1 /\ After("-s") = Arguments[Options + 2]
        /\ ~Uses("--name")
    BY <1>1, <1>3, <2>3 DEF CommandWords
  <2>5. Last(Arguments) = request.text
    BY <1>4, <2>1, <2>2 DEF Last
  <2>6. QED
    BY <1>1, <1>12, <1>6, <2>2, <2>4, <2>5 DEF SessionRead, VerbRead, VerbAsked
<1>13. QED
  BY <1>7, <1>8, <1>9, <1>10, <1>11, <1>12 DEF Ready, Starters, ControlTools

(* A started process is understood as the call it was started for. *)
LEMMA VettedIsUnderstood ==
  ASSUME Vetted, Accepted, started # None
  PROVE  LaunchIsAsAsked /\ PermissionIsOperators
<1>1. Ready /\ Passed /\ Consented /\ Built /\ (~moved => started = vetted)
  BY DEF Vetted, StartedAsVetted, Accepted
<1>2. PICK cwd \in Paths : argv = Argv(request, ModeOf(request), cwd) /\ (~moved => cwd = vetted)
  BY <1>1 DEF Built, BuiltFor
<1>3. Laid(Command(request)) /\ Arguments[2] = cwd
  BY <1>1, <1>2, ArgumentsLaid
<1>4. (config.agent = None) # (config.command = None)
  BY <1>1 DEF Ready, AcceptableSpec
<1>5. HarnessSize = 2 <=> config.agent = None
  BY DEF HarnessSize
<1>6. LaunchIsAsAsked
  <2>1. VerbAsked = "prompt" => Last(Arguments) = request.text /\ (Uses("--agent") <=> Place("-s") > Place("prompt"))
    BY <1>1, <1>3, <1>4, <1>5, WordsFound, CommandUnderstood
  <2>2. IF config.agent = None THEN Uses("--agent") /\ After("--agent") = config.command
                               ELSE ~Uses("--agent") /\ Uses(config.agent)
    BY <1>1, <1>3, WordsFound DEF HarnessSize
  <2>3. IF config.model = None THEN ~Uses("--model") ELSE After("--model") = config.model
    BY <1>1, <1>3, WordsFound DEF ModelSize
  <2>4. ~moved => After("--cwd") = vetted /\ started = vetted
    BY <1>1, <1>2, <1>3, WordsFound
  <2>5. vetted \in Worktrees /\ \E root \in config.roots : Under(vetted, Real[root])
    BY <1>1 DEF Passed, Roots
  <2>6. SessionRead = request.session /\ VerbRead = VerbAsked /\ (EndsOwn => IsRead[Len(Arguments)])
    BY <1>1, <1>3, CommandUnderstood
  <2>7. QED
    BY <2>1, <2>2, <2>3, <2>4, <2>5, <2>6 DEF LaunchIsAsAsked
<1>7. PermissionIsOperators
  <2>1. ModeOf(request) = IF request.tool \in ControlTools THEN "deny_all" ELSE Mode(config)
    BY <1>1 DEF Ready, ModeOf, Starters, ControlTools
  <2>2. ModeOf(request) \in Modes
    BY <1>1 DEF Ready, ModeOf, Modes, Flag
  <2>3. \A m \in Modes : Uses(Flag[m]) <=> m = ModeOf(request)
    BY <1>1, <1>3, WordsFound
  <2>4. Uses("--approve-all") => ModeOf(request) = "approve_all"
    BY <2>3 DEF Modes, Flag
  <2>5. Uses("--approve-all") => <<request.harness, vetted>> \in allowed
    BY <1>1, <2>4 DEF Consented, Unrestricted, ModeOf
  <2>6. {m \in Modes : Uses(Flag[m])} = {ModeOf(request)}
    BY <2>2, <2>3
  <2>7. QED
    BY <2>1, <2>5, <2>6 DEF PermissionIsOperators
<1>8. QED
  BY <1>6, <1>7

LEMMA Understood == Vetted /\ Accepted => LaunchIsAsAsked /\ PermissionIsOperators
<1>1. started = None => LaunchIsAsAsked /\ PermissionIsOperators
  BY DEF LaunchIsAsAsked, PermissionIsOperators
<1>2. QED
  BY <1>1, VettedIsUnderstood

(* For every operator's configuration that names an agent ACPX knows, with    *)
(* any number of arguments in front, and for any session, prompt, model and   *)
(* command, the ones that look like options included: ACPX reads the session, *)
(* verb, text, model and harness of the very call the process was started     *)
(* for, and the process has the path that was validated as long as this       *)
(* resolves to itself.                                                        *)
THEOREM AskedSafety == Spec => []LaunchIsAsAsked
<1>1. QED
  BY VettedInit, VettedStep, AcceptedInit, AcceptedStep, Understood, PTL DEF Spec

(* ... and, in front of a last word of the model's own, exactly one           *)
(* permission flag: the operator's for a prompt, denial for a control         *)
(* command, and the unrestricted one only for a harness and worktree that the *)
(* operator allows to go unrestricted.                                        *)
THEOREM PermissionSafety == Spec => []PermissionIsOperators
<1>1. QED
  BY VettedInit, VettedStep, AcceptedInit, AcceptedStep, Understood, PTL DEF Spec

=============================================================================

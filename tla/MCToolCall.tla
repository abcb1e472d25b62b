----------------------------- MODULE MCToolCall -----------------------------
(* ToolCall with one allowed root, a worktree under it that is also reached  *)
(* by a link, a directory inside that worktree, a plain directory and a file *)
(* next to it and a worktree elsewhere; and with names and prompts that look *)
(* like options and verbs of ACPX.                                           *)
EXTENDS ToolCall

CONSTANTS Nothing

SomeConfigs ==
    [acpx : {<<"npx", "acpx">>, <<"npx", "">>, <<>>}, agent : {Nothing, "codex"},
     command : {Nothing, "omp acp"}, model : {Nothing, "opus", "--agent", "padded"},
     mode : {Nothing, "deny_all", "approve_reads", "approve_all", "ask"},
     roots : {Nothing, {}, {"/r"}}]

SomePaths == {"/r", "/r/w", "/r/w/d", "/r/p", "/r/f", "/o"}
SomeCandidates == SomePaths \union {"w", "/link"}
SomeAbsolute == SomeCandidates \ {"w"}
SomeReal == [c \in SomeCandidates |-> IF c \in {"w", "/link"} THEN "/r/w" ELSE c]
SomeParts ==
    [p \in SomePaths |->
        CASE p = "/r" -> <<"r">> [] p = "/r/w" -> <<"r", "w">> [] p = "/r/w/d" -> <<"r", "w", "d">>
          [] p = "/r/p" -> <<"r", "p">> [] p = "/r/f" -> <<"r", "f">> [] p = "/o" -> <<"o">>]

=============================================================================

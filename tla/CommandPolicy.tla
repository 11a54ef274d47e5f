---------------------------- MODULE CommandPolicy ----------------------------
(***************************************************************************)
(* The command policy: which command lines of a CLI run without asking the *)
(* user (cmd_policy_engine.go, cmd_policy_rules.go, cmd_policy.go).        *)
(*                                                                         *)
(* A command line is a sequence of segments (what lies between |, &&, ||   *)
(* and ;), a segment is a sequence of words.  The characters of a word are *)
(* abstracted to what the policy asks about them: its text, its kind, what *)
(* a path in it points at, and the command line it holds if it is a quoted *)
(* script.  A word whose text ends in "-" stands for the words that begin  *)
(* with it.                                                                *)
(*                                                                         *)
(* The state machine is the assistant composing a command line: it starts  *)
(* from a simple command and puts it under a wrapper, into a shell, under  *)
(* find -exec, next to another command, or where the policy does not look. *)
(***************************************************************************)
EXTENDS Naturals, Sequences, SequencesExt

CONSTANTS Texts,            \* what a word can say
          SimpleCommands,   \* the simple commands, each a sequence of words
          MaxSteps          \* bound on the length of a composition

-----------------------------------------------------------------------------
(* Words.                                                                  *)

\* "flag" begins with one dash, "long" with two, "assign" is NAME=value, "redirect" an operator
\* of its own, "into" an operator glued to its file, "glob" has * ? or [, "remote" is
\* host:path, "mount" a docker volume, "substitution" <(...), "empty" a pair of quotes.
Kinds == {"plain", "flag", "long", "assign", "redirect", "into", "glob", "remote", "mount",
          "substitution", "empty", "body"}

\* What the path in a word points at; "null" is /dev/null, "device" another standard descriptor.
Places == {"none", "system", "credential", "null", "device", "root"}

Word(text, kind, place) == [text |-> text, kind |-> kind, place |-> place, script |-> <<>>]
Plain(text) == Word(text, "plain", "none")
Flag(text) == Word(text, "flag", "none")
Body(script) == [text |-> "script", kind |-> "body", place |-> "none", script |-> script]

\* A quoted script holds no other quoted script.
SimpleWords == [text : Texts, kind : Kinds \ {"body"}, place : Places, script : {<<>>}]
Words == SimpleWords \cup
         [text : {"script"}, kind : {"body"}, place : {"none"}, script : Seq(Seq(SimpleWords))]

\* What a command is made of: the name of what it runs, and what that is given.
Commandlines == Seq(Words) \ {<<>>}

FlagKinds == {"flag", "long"}
IsFlag(w) == w.kind \in FlagKinds

\* What the quoted word after -c holds; an unquoted word is a command line of one word.
ScriptOf(w) == IF w.kind = "body" THEN w.script ELSE <<<<w>>>>

\* splitShellWords drops a pair of quotes with nothing in it.
Fields[segment \in Seq(Words)] ==
  IF segment = <<>> THEN <<>>
  ELSE (IF Head(segment).kind = "empty" THEN <<>> ELSE <<Head(segment)>>) \o Fields[Tail(segment)]

Has(args, texts) == \E i \in DOMAIN args : args[i].text \in texts

\* The words that are no flags.
Operands(args) == SelectSeq(args, LAMBDA w : ~IsFlag(w))

-----------------------------------------------------------------------------
(* Categories (cmd_policy_rules.go).  A decision is its category.          *)

ReadCategories == {"allow_read", "allow_cloud_readonly", "allow_git_fetch"}
WriteCategories == {"allow_build_test", "allow_workspace_file", "allow_local_git",
                    "allow_package_install", "allow_default"}
AllowCategories == ReadCategories \cup WriteCategories
DenyCategories ==
  {"deny_inline_script", "deny_privilege", "deny_system_pkg_mgr", "deny_dangerous_fs",
   "deny_destructive_git", "deny_publish", "deny_cloud_cli", "deny_remote_shell",
   "deny_system_service", "deny_container_escape", "deny_network_pipe", "deny_credential",
   "deny_workspace_escape", "deny_process_kill", "deny_glob_unsafe", "deny_unparseable"}
Categories == AllowCategories \cup DenyCategories

NoCategory == "none"

riskLevelForCategory(c) ==
  CASE c \in ReadCategories -> "safe_read"
    [] c \in WriteCategories -> "guarded_write"
    [] OTHER -> "destructive"

Allowed(c) == c \in AllowCategories

-----------------------------------------------------------------------------
(* The tables of executables.                                              *)

allowReadExecutables ==
  {"ls", "ll", "dir", "tree", "pwd", "whoami", "hostname", "uname", "id", "groups", "date",
   "uptime", "which", "whereis", "type", "command", "cat", "head", "tail", "less", "more", "bat",
   "file", "stat", "wc", "du", "df", "env", "printenv", "grep", "egrep", "fgrep", "rg", "ag",
   "ack", "fzf", "locate", "realpath", "readlink", "echo", "printf", "true", "false", "sort",
   "uniq", "awk", "cut", "tr", "basename", "dirname", "jq", "yq", "xmllint", "diff", "cmp",
   "column", "comm", "tee", "strings", "od", "hexdump", "xxd", "timeout"}
allowBuildTestExecutables ==
  {"tsc", "eslint", "prettier", "mypy", "ruff", "black", "pylint", "pytest", "tox", "gofmt",
   "goimports", "golangci-lint", "rustc", "clippy", "tsx", "vitest", "jest", "bazel", "ninja",
   "meson", "cmake", "gradle", "./gradlew", "mvn", "swift", "flutter", "dart"}
allowWorkspaceFileExecutables == {"mkdir", "touch", "mv", "cp", "ln"}

\* The executables that no argument can save.
AlwaysDenied ==
  [deny_privilege |-> {"sudo", "su", "doas", "pkexec"},
   deny_system_pkg_mgr |-> {"apt", "apt-get", "yum", "dnf", "pacman", "zypper", "apk", "port"},
   deny_dangerous_fs |-> {"dd", "shred", "wipe", "mkfs", "fdisk", "parted", "mount", "umount"},
   deny_system_service |-> {"systemctl", "service", "launchctl", "initctl", "rc-service"},
   deny_process_kill |-> {"pkill", "killall"},
   deny_credential |-> {"ssh-keygen", "keychain"},
   deny_remote_shell |-> {"ssh", "scp", "sftp", "ftp", "telnet"}]

\* The subcommands of the cloud CLIs that only read.
cloudCLIReadOnlyPrefixes ==
  [aws |-> {<<"s3", "ls">>, <<"s3api", "list-">>, <<"sts", "get-caller-identity">>,
            <<"iam", "list-">>, <<"iam", "get-">>, <<"ec2", "describe-">>,
            <<"logs", "describe-">>, <<"logs", "get-">>, <<"logs", "tail">>},
   gcloud |-> {<<"projects", "list">>, <<"projects", "describe">>, <<"auth", "list">>,
               <<"compute", "instances", "list">>, <<"compute", "instances", "describe">>,
               <<"compute", "disks", "list">>, <<"compute", "disks", "describe">>,
               <<"run", "services", "list">>, <<"run", "services", "describe">>,
               <<"run", "revisions", "list">>, <<"sql", "instances", "list">>,
               <<"sql", "instances", "describe">>, <<"config", "list">>,
               <<"config", "get-value">>, <<"info">>, <<"version">>},
   kubectl |-> {<<"get">>, <<"describe">>, <<"logs">>, <<"top">>, <<"explain">>, <<"version">>,
                <<"cluster-info">>, <<"api-resources">>, <<"api-versions">>, <<"config", "view">>,
                <<"config", "get-contexts">>, <<"config", "current-context">>, <<"diff">>},
   terraform |-> {<<"plan">>, <<"validate">>, <<"fmt">>, <<"show">>, <<"output">>, <<"version">>,
                  <<"providers">>, <<"state", "list">>, <<"state", "show">>,
                  <<"workspace", "list">>, <<"workspace", "show">>, <<"console">>},
   helm |-> {<<"list">>, <<"status">>, <<"history">>, <<"get">>, <<"template">>, <<"lint">>,
             <<"version">>, <<"search">>, <<"show">>, <<"env">>, <<"repo", "list">>},
   ansible_playbook |-> {}]

CloudKey(executable) == IF executable = "ansible-playbook" THEN "ansible_playbook" ELSE executable
cloudCLIExecutables == {"aws", "gcloud", "kubectl", "terraform", "helm", "ansible-playbook"}

inlineScriptFlags ==
  [python |-> {"-c"}, python3 |-> {"-c"}, node |-> {"-e", "--eval"}, ruby |-> {"-e"},
   perl |-> {"-e"}, deno |-> {"eval"}]

ShellExecutables == {"bash", "sh", "zsh", "fish", "cmd.exe", "powershell", "pwsh"}
stdinInterpreterExecutables ==
  {"bash", "sh", "zsh", "fish", "dash", "ksh", "python", "python3", "node", "ruby", "perl", "deno"}
FetchTools == {"curl", "wget", "http", "httpie", "httpx", "fetch", "aria2c"}

-----------------------------------------------------------------------------
(* Looking through the arguments.                                          *)

\* The category of the first argument that has one.
FirstCategory(categories, otherwise) ==
  LET found == {i \in DOMAIN categories : categories[i] # NoCategory}
  IN IF found = {} THEN otherwise ELSE categories[Min(found)]

\* What is left after the leading words of some kinds; the valued ones take the next word along.
SkipLeading(args, kinds, valued) ==
  LET Skip[rest \in Seq(Words)] ==
        IF rest = <<>> \/ Head(rest).kind \notin kinds THEN rest
        ELSE IF Head(rest).text \in valued /\ Len(rest) >= 2 THEN Skip[Tail(Tail(rest))]
        ELSE Skip[Tail(rest)]
  IN Skip[args]

SkipFlags(args, valued) == SkipLeading(args, FlagKinds, valued)

Subcommand(args) == IF args = <<>> THEN "" ELSE Head(args).text
extractSubcommand(args) == Subcommand(SkipFlags(args, {}))
gitValuedFlags == {"-C", "-c", "--git-dir", "--work-tree", "--namespace"}

\* env skips its options and the assignments before the command.
SkipEnv(args) == SkipLeading(args, FlagKinds \cup {"assign"}, {"-u"})

Drop(args, n) == SubSeq(args, n + 1, Len(args))

\* Mutant: timeout's duration is taken for the command.
WrappedCommandKeepsDuration(executable, args) ==
  CASE executable = "env" -> SkipEnv(args)
    [] executable \in {"nohup", "time", "nice"} -> args
    [] executable = "timeout" -> SkipFlags(args, {"-s", "--signal", "-k", "--kill-after"})
    [] executable = "xargs" -> SkipFlags(args, {"-I", "-n", "-P", "-L", "-d", "-E", "-a", "-s"})
    [] OTHER -> <<>>

\* What a wrapper runs; nothing if the executable is no wrapper or runs nothing.
WrappedCommand(executable, args) ==
  CASE executable = "env" -> SkipEnv(args)
    [] executable \in {"nohup", "time"} -> args
    [] executable = "nice" -> IF Has(SubSeq(args, 1, 1), {"-n"}) THEN Drop(args, 2)
                              ELSE IF Has(SubSeq(args, 1, 1), {"-n5"}) THEN Drop(args, 1) ELSE args
    [] executable = "timeout" -> Drop(SkipFlags(args, {"-s", "--signal", "-k", "--kill-after"}), 1)
    [] executable = "xargs" -> SkipFlags(args, {"-I", "-n", "-P", "-L", "-d", "-E", "-a", "-s"})
    [] OTHER -> <<>>

peelCommandWrappers[words \in Commandlines] ==
  LET rest == WrappedCommand(Head(words).text, Tail(words))
  IN IF rest = <<>> THEN words ELSE peelCommandWrappers[rest]

\* The path an argument is about: an operator's is in the next word, a flag without a value and
\* a docker mount have none.
OperandPlace(args, i) ==
  CASE args[i].kind \in {"flag", "mount"} -> "none"
    [] args[i].kind = "redirect" -> IF i < Len(args) THEN args[i + 1].place ELSE "none"
    [] OTHER -> args[i].place

PlaceCategory(place) ==
  CASE place = "system" -> "deny_workspace_escape"
    [] place = "credential" -> "deny_credential"
    [] OTHER -> NoCategory

checkOperandPathPolicy(args) ==
  FirstCategory([i \in DOMAIN args |-> PlaceCategory(OperandPlace(args, i))], NoCategory)

\* A redirection that is not one of a few forms of "to or from /dev/null" counts as a write, and
\* so does <(...), which begins like one.
hasWritableRedirection(args) ==
  \E i \in DOMAIN args :
    \/ args[i].kind = "redirect"
       /\ ~(args[i].text \in {">", "1>", "2>", "<"} /\ i < Len(args) /\ args[i + 1].place = "null")
    \/ args[i].kind = "into" /\ ~(args[i].text \in {">", "1>", "2>"} /\ args[i].place = "null")
    \/ args[i].kind = "substitution"

isInlineScriptInvocation(executable, args) ==
  executable \in DOMAIN inlineScriptFlags /\ Has(args, inlineScriptFlags[executable])

isShellWrapper(executable) == executable \in ShellExecutables

ScriptFlags == {"-c", "-lc", "-cl"}

\* The script after the first of these flags; empty if there is none.
extractShellScript(args) ==
  LET at == {i \in DOMAIN args : args[i].text \in ScriptFlags}
  IN IF at = {} \/ Min(at) = Len(args) THEN <<>> ELSE ScriptOf(args[Min(at) + 1])

\* A shell or an interpreter behind another segment that has no script runs what it reads.
isStdinShellSegment(executable, args) ==
  executable \in stdinInterpreterExecutables /\ Operands(args) = <<>>
  /\ ~Has(args, ScriptFlags \cup {"-e", "--eval"})

-----------------------------------------------------------------------------
(* The evaluators of single executables.                                   *)

evaluatePolicyGit(args) ==
  LET words == SkipFlags(args, gitValuedFlags)
      sub == Subcommand(words)
      rest == IF words = <<>> THEN <<>> ELSE Tail(words)
      names == Len(Operands(rest))
  IN CASE sub \in {"", "status", "diff", "log", "show", "blame", "annotate", "ls-files", "ls-tree",
                   "ls-remote", "rev-parse", "rev-list", "reflog", "describe", "name-rev",
                   "shortlog", "var", "grep"} -> "allow_read"
       [] sub = "tag" -> IF Has(rest, {"-d", "--delete"}) \/ names > 0
                         THEN "allow_local_git" ELSE "allow_read"
       [] sub = "config" ->
            IF Has(rest, {"--unset", "--unset-all", "--add", "--rename-section", "--remove-section"})
               \/ names >= 2 THEN "allow_local_git" ELSE "allow_read"
       [] sub = "branch" ->
            IF Has(rest, {"-D", "-d", "--delete", "-m", "--move", "-c", "--copy"}) \/ names > 0
            THEN "allow_local_git" ELSE "allow_read"
       [] sub \in {"fetch", "pull"} -> "allow_git_fetch"
       [] sub \in {"remote", "stash", "add", "restore", "checkout", "switch", "mv", "rm", "merge",
                   "cherry-pick", "revert", "init", "clone", "worktree", "submodule", "gc",
                   "apply", "format-patch"} -> "allow_local_git"
       [] sub = "commit" -> IF Has(rest, {"--amend"}) THEN "deny_destructive_git" ELSE "allow_local_git"
       [] sub = "reset" -> IF Has(rest, {"--hard"}) THEN "deny_destructive_git" ELSE "allow_local_git"
       [] sub = "rebase" -> IF Has(rest, {"-i", "--interactive"})
                            THEN "deny_destructive_git" ELSE "allow_local_git"
       [] sub \in {"clean", "filter-branch", "filter-repo"} -> "deny_destructive_git"
       [] sub = "push" -> "deny_publish"
       [] OTHER -> "allow_default"

dockerMountEscapesHost(w) == w.place \in {"root", "system", "credential"}

\* A mount is the word after -v, --volume or --mount, or follows "=" in the flag itself.
evaluatePolicyDocker(args) ==
  LET words == SkipFlags(args, {})
      sub == Subcommand(words)
      rest == IF words = <<>> THEN <<>> ELSE Tail(words)
      escapes ==
        \/ Has(rest, {"--privileged", "--cap-add", "--cap-add=", "--pid=host", "--net=host",
                      "--network=host", "--ipc=host", "--userns=host",
                      "--security-opt=seccomp=unconfined"})
        \/ \E i \in 1..Len(rest) - 1 :
             \/ rest[i].text = "--security-opt" /\ rest[i + 1].text = "seccomp=unconfined"
             \/ rest[i].text \in {"-v", "--volume", "--mount"} /\ dockerMountEscapesHost(rest[i + 1])
        \/ \E i \in DOMAIN rest :
             rest[i].text \in {"-v=", "--volume=", "--mount="} /\ dockerMountEscapesHost(rest[i])
  IN CASE sub \in {"push", "login", "logout"} -> "deny_publish"
       [] sub \in {"run", "exec", "create"} -> IF escapes THEN "deny_container_escape" ELSE "allow_default"
       [] sub \in {"build", "compose", "ps", "logs", "images", "history", "version", "info",
                   "inspect", "stats", "events", "system", "context"} -> "allow_build_test"
       [] OTHER -> "allow_default"

RmCategory(w) ==
  CASE w.text \in {"--recursive", "-r", "-R", "-rf", "-fr"} -> "deny_dangerous_fs"
    [] w.kind = "glob" -> "deny_glob_unsafe"
    [] OTHER -> NoCategory

evaluatePolicyRm(args) ==
  FirstCategory([i \in DOMAIN args |-> RmCategory(args[i])], "allow_workspace_file")

evaluatePolicyChmodChown(args) ==
  IF Has(args, {"-R", "-vR", "--recursive"}) THEN "deny_dangerous_fs" ELSE "allow_workspace_file"

evaluatePolicyKill(args) ==
  IF args = <<>> THEN "allow_default"
  ELSE IF Head(args).text \in {"-l", "-L", "--list"} THEN "allow_read" ELSE "deny_process_kill"

evaluatePolicyRsync(args) ==
  IF \E i \in DOMAIN args : args[i].kind = "remote" THEN "deny_remote_shell" ELSE "allow_workspace_file"

evaluatePolicyNpm(args) ==
  LET sub == extractSubcommand(args) IN
  CASE sub = "publish" -> "deny_publish"
    [] sub \in {"install", "i", "add", "ci", "uninstall", "remove", "rm", "audit", "fund", "outdated",
                "ls", "list", "view", "search", "run", "test", "build", "lint", "format", "exec",
                "start", "version", "init", "create", "link", "unlink", "config", "why", "info",
                "show", "dlx"} -> "allow_package_install"
    [] OTHER -> "allow_default"

evaluatePolicyPip(args) ==
  LET sub == extractSubcommand(args) IN
  CASE sub = "upload" -> "deny_publish"
    [] sub \in {"install", "uninstall", "list", "show", "freeze", "check", "config", "download",
                "wheel"} -> "allow_package_install"
    [] OTHER -> "allow_default"

evaluatePolicyCargo(args) ==
  LET sub == extractSubcommand(args) IN
  CASE sub \in {"publish", "yank"} -> "deny_publish"
    [] sub \in {"build", "test", "check", "fmt", "clippy", "run", "doc", "bench", "install",
                "uninstall", "update", "version", "tree", "search", "info", "init", "new", "add",
                "remove", "fix"} -> "allow_build_test"
    [] OTHER -> "allow_default"

\* The actions of each gh topic that publish; the topic's other actions read.
ghPublishing ==
  [auth |-> {"login", "logout", "setup-git", "refresh"},
   pr |-> {"merge", "close", "create", "edit", "reopen", "ready"},
   release |-> {"create", "delete", "edit", "upload"},
   repo |-> {"create", "delete", "fork", "rename", "edit", "archive", "unarchive"},
   workflow |-> {"run", "enable", "disable"},
   secret |-> {"set", "delete", "remove"},
   variable |-> {"set", "delete", "remove"},
   issue |-> {"close", "create", "delete", "edit", "reopen", "lock", "unlock", "transfer"},
   gist |-> {"create", "delete", "edit"}]

evaluatePolicyGh(args) ==
  LET words == SkipFlags(args, {})
      topic == Subcommand(words)
  IN IF topic \notin DOMAIN ghPublishing THEN "allow_default"
     ELSE IF extractSubcommand(Tail(words)) \in ghPublishing[topic] THEN "deny_publish" ELSE "allow_read"

evaluatePolicyBrew(args) ==
  IF extractSubcommand(args) \in {"install", "upgrade", "uninstall", "reinstall", "remove", "rm",
                                  "tap", "untap", "cask", "pin", "unpin"}
  THEN "deny_system_pkg_mgr" ELSE "allow_read"

evaluatePolicyCrontab(args) ==
  IF Has(args, {"-r", "-e", "--remove"}) THEN "deny_system_service" ELSE "allow_read"

evaluatePolicyCat(args) ==
  IF hasWritableRedirection(args) THEN "allow_workspace_file"
  ELSE IF \E i \in DOMAIN args : ~IsFlag(args[i]) /\ args[i].kind \notin {"redirect", "into"}
  THEN "allow_read" ELSE "allow_default"

evaluatePolicySed(args) ==
  IF Has(args, {"-i", "-i.bak", "--in-place"}) THEN "allow_workspace_file" ELSE "allow_read"

\* The flags that take a value are skipped with it; the rest must begin with a read-only prefix.
CloudWords[args \in Seq(Words)] ==
  IF args = <<>> THEN <<>>
  ELSE IF Head(args).text \in {"--context", "--namespace", "-n", "--profile", "--region", "--project",
                               "--cluster", "--kubeconfig", "--output", "-o"}
  THEN CloudWords[Drop(args, 2)]
  ELSE (IF IsFlag(Head(args)) THEN <<>> ELSE <<Head(args).text>>) \o CloudWords[Tail(args)]

evaluatePolicyCloudCLI(executable, args) ==
  IF \E p \in cloudCLIReadOnlyPrefixes[CloudKey(executable)] : IsPrefix(p, CloudWords[args])
  THEN "allow_cloud_readonly" ELSE "deny_cloud_cli"

\* The executables whose arguments hold no command; find, which runs some, is further down.
ExecutableDecision(executable, args) ==
  CASE executable = "git" -> evaluatePolicyGit(args)
    [] executable \in {"docker", "podman"} -> evaluatePolicyDocker(args)
    [] executable = "rm" -> evaluatePolicyRm(args)
    [] executable \in {"chmod", "chown"} -> evaluatePolicyChmodChown(args)
    [] executable = "kill" -> evaluatePolicyKill(args)
    [] executable = "rsync" -> evaluatePolicyRsync(args)
    [] executable \in {"npm", "pnpm", "yarn", "bun"} -> evaluatePolicyNpm(args)
    [] executable \in {"pip", "pip3"} -> evaluatePolicyPip(args)
    [] executable = "cargo" -> evaluatePolicyCargo(args)
    [] executable \in {"go", "make"} -> "allow_build_test"
    [] executable = "gh" -> evaluatePolicyGh(args)
    [] executable = "brew" -> evaluatePolicyBrew(args)
    [] executable = "crontab" -> evaluatePolicyCrontab(args)
    [] executable = "tee" -> "allow_workspace_file"
    [] executable = "cat" -> evaluatePolicyCat(args)
    [] executable = "sed" -> evaluatePolicySed(args)
    [] executable \in cloudCLIExecutables -> evaluatePolicyCloudCLI(executable, args)
    [] OTHER -> IF hasWritableRedirection(args) THEN "allow_workspace_file"
                ELSE IF executable \in allowReadExecutables THEN "allow_read"
                ELSE IF executable \in allowBuildTestExecutables THEN "allow_build_test"
                ELSE IF executable \in allowWorkspaceFileExecutables THEN "allow_workspace_file"
                ELSE "allow_default"

-----------------------------------------------------------------------------
(* Whole command lines.                                                    *)

\* splitShellSegments cuts at every operator, also at those inside a quoted script: what follows
\* the first one there becomes a segment of its own.
SplitBody(segment, at) ==
  LET inner == segment[at].script
  IN <<SubSeq(segment, 1, at - 1) \o <<Body(<<Head(inner)>>)>>>>
     \o SubSeq(inner, 2, Len(inner) - 1)
     \o <<Last(inner) \o Drop(segment, at)>>

SplitSegment(segment) ==
  LET quoted == {i \in DOMAIN segment : Len(segment[i].script) > 1}
  IN IF quoted = {} THEN <<segment>> ELSE SplitBody(segment, CHOOSE i \in quoted : TRUE)

splitShellSegments(script) == FlattenSeq([i \in DOMAIN script |-> SplitSegment(script[i])])

\* splitShellWords keeps the operators between the segments as words; one that is taken for a
\* script is cut into two segments with nothing in them.
Operator == Body(<<<<>>, <<>>>>)
splitShellWords(script) ==
  Fields[Tail(FlattenSeq([i \in DOMAIN script |-> <<Operator>> \o script[i]]))]

\* Every word of a line, those of quoted scripts included.
WordsOf(segments) == UNION {{segments[i][j] : j \in DOMAIN segments[i]} : i \in DOMAIN segments}
AllWords(script) == WordsOf(script) \cup UNION {WordsOf(w.script) : w \in WordsOf(script)}

\* <(...) together with a tool that fetches; words inside quotes are not looked at for the tool.
hasFetchSubstitution(script) ==
  /\ \E w \in AllWords(script) : w.kind = "substitution"
  /\ \E i \in DOMAIN script : Has(script[i], FetchTools)

(* The evaluators of a segment, a script and a find call each other; those *)
(* that are defined first are given the function that evaluates a command. *)

SegmentDecision(segment, isFirst, single) ==
  LET words == Fields[segment] IN
  IF segment = <<>> THEN NoCategory
  ELSE IF words = <<>> THEN "deny_unparseable"
  ELSE IF ~isFirst /\ isStdinShellSegment(Head(words).text, Tail(words)) THEN "deny_network_pipe"
  ELSE single[words]

\* Mutant: the loop stops at the first segment.
FirstSegmentDecision(script, single) ==
  LET segments == splitShellSegments(script) IN
  IF segments = <<>> \/ Head(segments) = <<>> THEN "allow_default"
  ELSE SegmentDecision(Head(segments), TRUE, single)

\* The first segment that is denied decides; if none is, the first segment does.
ScriptDecision(script, single) ==
  LET segments == splitShellSegments(script)
      decisions == [i \in DOMAIN segments |-> SegmentDecision(segments[i], i = 1, single)]
      denials == [i \in DOMAIN segments |-> IF Allowed(decisions[i]) THEN NoCategory ELSE decisions[i]]
  IN IF hasFetchSubstitution(script) THEN "deny_network_pipe"
     ELSE FirstCategory(denials, FirstCategory(decisions, "allow_default"))

\* The first action in each stretch of find's arguments up to an end mark: what follows -exec up
\* to there belongs to the command it runs.  A ; never gets here from a command line, escaped or
\* not: splitShellSegments has cut there.
EndMarks == {";", "+"}
ExecActions == {"-exec", "-execdir", "-ok", "-okdir"}
IsAction(w) == w.text \in ExecActions \cup {"-delete"}
FindActions(args) ==
  {i \in DOMAIN args :
     /\ IsAction(args[i])
     /\ \A j \in 1..i - 1 : IsAction(args[j]) => \E k \in j + 1..i - 1 : args[k].text \in EndMarks}

ExecEnd(args, i) == Min({k \in i + 1..Len(args) : args[k].text \in EndMarks} \cup {Len(args) + 1})

ActionDecision(args, i, single) ==
  LET body == SubSeq(args, i + 1, ExecEnd(args, i) - 1)
  IN IF args[i].text = "-delete" THEN "deny_dangerous_fs"
     ELSE IF body = <<>> THEN "deny_unparseable" ELSE single[body]

\* find runs what follows -exec; the first action that is denied decides.
evaluatePolicyFind(args, single) ==
  FirstCategory([i \in DOMAIN args |->
                   IF i \notin FindActions(args) \/ Allowed(ActionDecision(args, i, single))
                   THEN NoCategory ELSE ActionDecision(args, i, single)],
                "allow_read")

CommandDecision(executable, args, single) ==
  IF isShellWrapper(executable)
  THEN IF extractShellScript(args) = <<>> THEN "deny_network_pipe"
       ELSE ScriptDecision(extractShellScript(args), single)
  ELSE IF isInlineScriptInvocation(executable, args) THEN "deny_inline_script"
  ELSE IF checkOperandPathPolicy(args) # NoCategory THEN checkOperandPathPolicy(args)
  ELSE IF \E c \in DOMAIN AlwaysDenied : executable \in AlwaysDenied[c]
  THEN CHOOSE c \in DOMAIN AlwaysDenied : executable \in AlwaysDenied[c]
  ELSE IF executable = "find" THEN evaluatePolicyFind(args, single)
  ELSE ExecutableDecision(executable, args)

evaluatePolicySingle[words \in Commandlines] ==
  LET peeled == peelCommandWrappers[words]
  IN CommandDecision(Head(peeled).text, Tail(peeled), evaluatePolicySingle)

evaluatePolicyScript(script) == ScriptDecision(script, evaluatePolicySingle)

\* The script of a shell stands for the line that begins with the shell.  The flag before the
\* script is looked for in the whole line.
unwrapShellWrapperCommandText(script) ==
  LET words == splitShellWords(script) IN
  IF words # <<>> /\ isShellWrapper(Head(words).text) /\ extractShellScript(Tail(words)) # <<>>
  THEN extractShellScript(Tail(words)) ELSE script

\* The category a command line is given, wherever it comes from.
normalizeCommandText(script) == evaluatePolicyScript(unwrapShellWrapperCommandText(script))

\* A command of an allowed category runs without asking.
shouldAutoApprove(c) == Allowed(c)

-----------------------------------------------------------------------------
(* The composition of a command line.                                      *)

\* A simple command runs no other command: it is neither a wrapper before one nor a shell before
\* a script.  It begins with a bare word, or has no words at all.  It holds no ; because it is
\* one segment, and no + because under find the command would end there.
IsSimpleCommand(c) ==
  LET words == Fields[c] IN
  /\ c \in Seq(SimpleWords) \ {<<>>}
  /\ words # <<>> =>
       /\ Head(words).kind = "plain" /\ Head(words).place = "none"
       /\ peelCommandWrappers[words] = words
       /\ isShellWrapper(Head(words).text) => extractShellScript(Tail(words)) = <<>>
  /\ ~Has(c, EndMarks)

ASSUME CommandsAssumption == MaxSteps \in Nat /\ \A c \in SimpleCommands : IsSimpleCommand(c)

\* Texts has those of the words a simple command is put under.
ASSUME TextsAssumption ==
  {"env", "A=1", "nohup", "time", "nice", "-n", "5", "timeout", "-k", "1", "xargs", "bash", "-c",
   "-lc", "find", ".", "-exec", "+", "&", "$()"} \subseteq Texts

\* "escaped": a find in the line ends its command with \; and "quoted": that find is in quotes.
\* "hidden": a command stands where the policy does not read it as one.
Forms == {"plain", "escaped", "quoted", "hidden"}

VARIABLES line,      \* the command line
          parts,     \* the simple commands in it
          form,
          decision,  \* its category
          steps

policyVars == <<line, parts, form, decision, steps>>

PolicyTypeOK ==
  /\ parts \subseteq SimpleCommands
  /\ form \in Forms
  /\ form # "hidden" => decision \in Categories
  /\ steps \in 0..MaxSteps

PolicyInit ==
  /\ \E c \in SimpleCommands : line = <<c>> /\ parts = {c}
  /\ form = "plain"
  /\ decision = normalizeCommandText(line)
  /\ steps = 0

\* Bound: a line with a quoted \; or with a hidden command is put into nothing else.
Compose(newLine, newParts, newForm) ==
  /\ steps < MaxSteps
  /\ form \notin {"quoted", "hidden"}
  /\ line' = newLine
  /\ parts' = parts \cup newParts
  /\ form' = newForm
  /\ decision' = normalizeCommandText(newLine)
  /\ steps' = steps + 1

\* Bound: a line that is quoted whole holds neither another quoted script nor a substitution.
Quotable(script) == \A w \in WordsOf(script) : w.kind \notin {"body", "substitution"}

Wrappers ==
  {<<Plain("env"), Word("A=1", "assign", "none")>>, <<Plain("nohup")>>, <<Plain("time")>>,
   <<Plain("nice"), Flag("-n"), Plain("5")>>,
   <<Plain("timeout"), Flag("-k"), Plain("1"), Plain("5")>>,
   <<Plain("xargs"), Flag("-n"), Plain("1")>>}

\* A single command, which may be a shell, is put under a wrapper.
Wrap ==
  /\ Len(line) = 1 /\ Fields[Head(line)] # <<>>
  /\ \E wrapper \in Wrappers : Compose(<<wrapper \o Head(line)>>, {}, form)

InShell ==
  /\ Quotable(line)
  /\ \E flag \in {"-c", "-lc"} :
       Compose(<<<<Plain("bash"), Flag(flag), Body(line)>>>>, {},
               IF form = "escaped" THEN "quoted" ELSE form)

FindWords == <<Plain("find"), Plain("."), Flag("-exec")>>

\* The command under find ends with + or with \;.  splitShellSegments cuts at the ; and
\* splitShellWords drops the \ before it, which leaves find without an end mark, and behind it a
\* segment with nothing in it, which the loop over the segments passes over and is left out here.
UnderFind ==
  /\ Len(line) = 1 /\ Quotable(line) /\ form = "plain"
  /\ \/ Compose(<<FindWords \o Head(line) \o <<Plain("+")>>>>, {}, form)
     \/ Compose(<<FindWords \o Head(line)>>, {}, "escaped")

\* Another command comes first, or last.
ComesAfter == \E c \in SimpleCommands : Compose(<<c>> \o line, {c}, form)
GoesOn == \E c \in SimpleCommands : Compose(line \o <<c>>, {c}, form)

\* find runs a second command behind the \; of its first: what stands there is a segment to
\* splitShellSegments, and -exec its executable.
FindGoesOn ==
  /\ form = "escaped" /\ Has(Last(line), {"-exec"})
  /\ \E c \in SimpleCommands : Compose(line \o <<<<Flag("-exec")>> \o c>>, {c}, "hidden")

\* The line with more words at its end.
Extended(words) == [line EXCEPT ![Len(line)] = @ \o words]

\* The last command runs in the background of another: a lone & cuts nothing, so the other
\* command is arguments of the last.
Background ==
  /\ form = "plain"
  /\ \E c \in SimpleCommands : Compose(Extended(<<Plain("&")>> \o c), {c}, "hidden")

\* The last command is given "$(...)" or "`...`": one word, of which nothing is read.
\* Bound: no path or operator is in it.
Substitute ==
  /\ form = "plain"
  /\ \E c \in SimpleCommands :
       /\ \A i \in DOMAIN c : c[i].kind \in FlagKinds \cup {"plain"} /\ c[i].place = "none"
       /\ Compose(Extended(<<Plain("$()")>>), {c}, "hidden")

PolicyNext ==
  \/ Wrap \/ InShell \/ UnderFind \/ ComesAfter \/ GoesOn
  \/ FindGoesOn \/ Background \/ Substitute

PolicySpec == PolicyInit /\ [][PolicyNext]_policyVars

-----------------------------------------------------------------------------
(* Properties.                                                             *)

IsStdinSegment(segment) ==
  Fields[segment] # <<>> /\ isStdinShellSegment(Head(Fields[segment]).text, Tail(Fields[segment]))

\* What needs more than one command to be denied: an interpreter that can read its script from
\* what runs before it, and the output of a fetch substituted into a command.
DeniedTogether ==
  \/ \E c \in parts : IsStdinSegment(c)
  \/ /\ \E c \in parts : \E i \in DOMAIN c : c[i].kind = "substitution"
     /\ \E c \in parts : Has(c, FetchTools)

\* The line goes on behind a segment that begins with a shell: unwrapShellWrapperCommandText
\* then looks at a part of the line only.
ShellLeads(script) ==
  Len(script) > 1 /\ Fields[Head(script)] # <<>> /\ isShellWrapper(Head(Fields[Head(script)]).text)

\* In the contexts the policy reads - segments, wrappers, a shell's script, the commands under
\* find up to + or the first \; - a command line runs without asking only if each of its commands
\* would on its own, and one is not denied without a reason in its parts.
\* It says nothing of a line that goes on behind a shell, nor of one that hides a command behind
\* find's \; or a lone & or in a substitution: the code lets those run.
DecidedByParts ==
  ~ShellLeads(line) /\ form # "hidden" =>
    /\ shouldAutoApprove(decision) => \A c \in parts : shouldAutoApprove(normalizeCommandText(<<c>>))
    /\ ~shouldAutoApprove(decision) =>
         DeniedTogether \/ \E c \in parts : ~shouldAutoApprove(normalizeCommandText(<<c>>))

\* Adding to a command line that needs the user's approval never makes it run without, unless
\* the line now goes on behind a shell, or hides what was added.
DenyIsSticky ==
  [][~ShellLeads(line') /\ form' # "hidden" /\ ~shouldAutoApprove(decision) =>
       ~shouldAutoApprove(decision')]_policyVars

\* evaluatePolicyScript "returns the strongest decision" of the segments it walks: a line counts
\* as a read only if each of its segments does.
\* Not true of the code: see the known deviations in README.md.
StrongestDecision ==
  riskLevelForCategory(decision) = "safe_read" =>
    LET segments == splitShellSegments(unwrapShellWrapperCommandText(line)) IN
    \A i \in DOMAIN segments :
      riskLevelForCategory(SegmentDecision(segments[i], i = 1, evaluatePolicySingle)) = "safe_read"

\* evaluatePolicyScript walks all segments of a line and "Any deny short-circuits": a line runs
\* without asking only if each of its commands would on its own.
\* Not true of the code: see the known deviations in README.md.
AnyDenyShortCircuits ==
  shouldAutoApprove(decision) => \A c \in parts : shouldAutoApprove(normalizeCommandText(<<c>>))
===============================================================================

--------------------------- MODULE MCCommandPolicy ---------------------------
(* One simple command, at least, for every way an evaluator can decide.    *)
EXTENDS CommandPolicy

AllTexts == STRING

Long(text) == Word(text, "long", "none")
At(text, place) == Word(text, "plain", place)
C1(a) == <<Plain(a)>>
C2(a, b) == <<Plain(a), b>>
C3(a, b, c) == <<Plain(a), b, c>>

Reads == {C1("ls"), C2("cat", Plain("f")), C2("git", Plain("status")), C2("sed", Plain("p")),
          C3("kubectl", Flag("-n"), Plain("ns")) \o <<Plain("get")>>, C2("git", Plain("fetch"))}

Writes == {C2("touch", Plain("f")), C2("rm", Plain("f")), C2("npm", Plain("install")),
           C3("git", Plain("tag"), Plain("v1")), C2("go", Plain("test")), C1("python"),
           C3("echo", Plain("x"), Word(">", "into", "none")), C2("curl", Plain("u")),
           C3("docker", Plain("run"), Plain("img"))}

Denied == {C3("rm", Flag("-rf"), Plain("d")), C3("git", Plain("reset"), Long("--hard")),
           C2("git", Plain("push")), C1("sudo"), C2("kill", Plain("1")),
           C3("python", Flag("-c"), Plain("s")), C3("echo", Word(">", "redirect", "none"), At("f", "system")),
           C2("kubectl", Plain("delete")), C2("rsync", Word("h:p", "remote", "none")),
           <<Plain("docker"), Plain("run"), Flag("-v"), Word("m", "mount", "root")>>,
           C3("gh", Plain("pr"), Plain("merge")), C2("cat", At("k", "credential"))}

Tricky == {C2("diff", Word("s", "substitution", "none")), <<Word("", "empty", "none")>>,
           C2("bash", Plain("f.sh"))}

AllCommands == Reads \cup Writes \cup Denied \cup Tricky
===============================================================================
